--------------------------- MODULE GatewayProofs ---------------------------
(***************************************************************************)
(* Theorems about Gateway, for any set of readings and request threads and  *)
(* any capacity.  First the types; then that the gateway's steps are steps  *)
(* of the outbox queue, which brings the queue's invariants over; then the  *)
(* inductive invariant behind the durable handoff, from which the safety    *)
(* properties and the refinement of StoreAndForward follow.                 *)
(***************************************************************************)
EXTENDS Gateway, OutboxQueueProofs, FiniteSetTheorems

\* TypeOK without the queue's variables.
ProcessTypeOK ==
    /\ up \in BOOLEAN
    /\ mode \in Modes
    /\ request \in [Callers -> Request]
    /\ worker \in WorkerState
    /\ wakeup \in BOOLEAN
    /\ cryptoReady \in BOOLEAN
    /\ consecutive \in 0..WarnAfter
    /\ metrics \in [Counters -> 0..MetricCap]
    /\ late \subseteq Messages
    /\ stored \subseteq Messages
    /\ acked \subseteq Messages

------------------------------------------------------------------------------
(* types *)

LEMMA NoMetricsTyped == NoMetrics \in [Counters -> 0..MetricCap]
BY GatewayAssumption DEF NoMetrics

LEMMA CountTyped ==
    ASSUME metrics \in [Counters -> 0..MetricCap], NEW names, Count(names)
    PROVE  metrics' \in [Counters -> 0..MetricCap]
BY GatewayAssumption DEF Count

LEMMA RequestTyped ==
    ASSUME request \in [Callers -> Request], NEW c \in Callers, NEW r \in Request,
           request' = [request EXCEPT ![c] = r]
    PROVE  request' \in [Callers -> Request]
OBVIOUS

LEMMA IdleTyped ==
    ASSUME NEW pc \in {"off", "top", "selecting", "waiting", "sleeping", "dead"}
    PROVE  Idle(pc) \in WorkerState
BY DEF WorkerState

\* A worker with a message is at one of the four points of a delivery.
LEMMA BusyWorkerTyped ==
    ASSUME worker \in WorkerState, worker.pc \in {"fetching_key", "posting", "committing", "retrying"}
    PROVE  /\ worker.msg \in Messages
           /\ worker = [pc |-> worker.pc, msg |-> worker.msg, http |-> worker.http]
           /\ worker.pc = "posting" => worker.http \in {"sent", "stored", "conflict", "refused"}
           /\ worker.pc = "committing" => worker.http \in {"stored", "conflict"}
           /\ worker.pc \in {"fetching_key", "retrying"} => worker.http = "none"
BY DEF WorkerState, Idle

LEMMA SentTyped ==
    ASSUME worker \in WorkerState, worker.http = "sent"
    PROVE  worker.pc = "posting" /\ worker.msg \in Messages
BY DEF WorkerState, Idle

LEMMA InitTyped == Init => ProcessTypeOK
<1> SUFFICES ASSUME Init PROVE ProcessTypeOK
  OBVIOUS
<1>1. worker \in WorkerState
  BY IdleTyped DEF Init
<1>2. request \in [Callers -> Request] /\ metrics \in [Counters -> 0..MetricCap]
  BY NoMetricsTyped DEF Init, Request
<1>3. consecutive \in 0..WarnAfter
  BY GatewayAssumption DEF Init
<1> QED
  BY <1>1, <1>2, <1>3 DEF Init, ProcessTypeOK

LEMMA StepTyped ==
    ASSUME ProcessTypeOK, [Next]_vars
    PROVE  ProcessTypeOK'
<1> USE GatewayAssumption DEF ProcessTypeOK
<1>1. CASE Start
  <2>1. worker' \in WorkerState
    BY <1>1, IdleTyped DEF Start
  <2> QED
    BY <1>1, <2>1 DEF Start, outsideVars
<1>2. CASE Crash
  <2>1. worker' \in WorkerState
    BY <1>2, IdleTyped DEF Crash
  <2>2. late' \subseteq Messages
    BY <1>2, SentTyped DEF Crash, AbandonPost
  <2>3. request' \in [Callers -> Request] /\ metrics' \in [Counters -> 0..MetricCap]
    BY <1>2, NoMetricsTyped DEF Crash, Request
  <2>4. consecutive' \in 0..WarnAfter
    BY <1>2 DEF Crash
  <2>5. mode' = mode /\ stored' = stored /\ acked' = acked
    BY <1>2 DEF Crash
  <2>6. up' \in BOOLEAN
    BY <1>2 DEF Crash
  <2>7. wakeup' \in BOOLEAN /\ cryptoReady' \in BOOLEAN
    BY <1>2 DEF Crash
  <2> QED
    BY <2>1, <2>2, <2>3, <2>4, <2>5, <2>6, <2>7
<1>3. ASSUME NEW c \in Callers, RequestNext(c)
      PROVE  ProcessTypeOK'
  <2>1. ASSUME NEW m \in Messages, Receive(c, m)
        PROVE  ProcessTypeOK'
    <3>1. [pc |-> "enqueueing", msg |-> m] \in Request
      BY DEF Request
    <3> QED
      BY <2>1, <3>1, CountTyped DEF Receive, outsideVars
  <2>2. ASSUME NEW outcome \in {"inserted", "existing", "rejected"},
               request[c].pc = "enqueueing", EnqueueReturns(c, outcome)
        PROVE  ProcessTypeOK'
    <3>1. [request[c] EXCEPT !.pc = outcome] \in Request
      BY <2>2 DEF Request, NoRequest
    <3>2. request' = [request EXCEPT ![c] = [request[c] EXCEPT !.pc = outcome]]
      BY <2>2 DEF EnqueueReturns
    <3> QED
      BY <2>2, <3>1, <3>2 DEF EnqueueReturns, outsideVars
  <2>3. CASE EnqueueInserts(c) \/ EnqueueFindsRow(c) \/ EnqueueIsFull(c) \/ EnqueueFails(c)
    BY <2>2, <2>3 DEF EnqueueInserts, EnqueueFindsRow, EnqueueIsFull, EnqueueFails
  <2>4. CASE Accept(c)
    <3>1. request[c].msg \in Messages
      BY <2>4 DEF Accept, Request, NoRequest
    <3> QED
      BY <2>4, <3>1, CountTyped DEF Accept, Request
  <2>5. CASE Reject(c)
    BY <2>5, CountTyped DEF Reject, Request, outsideVars
  <2> QED
    BY <1>3, <2>1, <2>3, <2>4, <2>5 DEF RequestNext
<1>4. CASE WorkerNext
  <2>1. ASSUME NEW pc \in {"top", "selecting", "waiting", "sleeping", "dead"}, WorkerGoes(pc),
               wakeup' \in BOOLEAN
        PROVE  ProcessTypeOK'
    BY <2>1, IdleTyped DEF WorkerGoes, outsideVars
  <2>2. CASE ClearAndRead \/ ReadFails \/ ReadingRaises \/ NothingDue \/ Woken \/ PollExpires
               \/ KeyNotRsa \/ RetryScheduled \/ OutcomeNotRecorded
    BY <2>1, <2>2 DEF ClearAndRead, ReadFails, ReadingRaises, NothingDue, Woken,
                      PollExpires, KeyNotRsa, RetryScheduled, OutcomeNotRecorded
  <2>3. CASE TakeOldest
    <3>1. PICK m \in Messages : worker' = [pc |-> "fetching_key", msg |-> m, http |-> "none"]
      BY <2>3 DEF TakeOldest
    <3>2. worker' \in WorkerState
      BY <3>1 DEF WorkerState
    <3> QED
      BY <2>3, <3>2 DEF TakeOldest, outsideVars
  <2>4. CASE PostEnvelope
    <3>1. worker' = [pc |-> "posting", msg |-> worker.msg, http |-> "sent"]
      BY <2>4, BusyWorkerTyped DEF PostEnvelope
    <3>2. worker' \in WorkerState
      BY <2>4, <3>1, BusyWorkerTyped DEF PostEnvelope, WorkerState
    <3> QED
      BY <2>4, <3>2 DEF PostEnvelope, outsideVars
  <2>5. ASSUME NEW names, FailedAttempt(names), worker.pc \in {"fetching_key", "posting"},
               cryptoReady' \in BOOLEAN, late' \subseteq Messages
        PROVE  ProcessTypeOK'
    <3>1. worker' = [pc |-> "retrying", msg |-> worker.msg, http |-> "none"]
      BY <2>5, BusyWorkerTyped DEF FailedAttempt
    <3>2. worker' \in WorkerState
      BY <2>5, <3>1, BusyWorkerTyped DEF WorkerState
    <3>3. consecutive' \in 0..WarnAfter
      BY <2>5 DEF FailedAttempt
    <3> QED
      BY <2>5, <3>2, <3>3, CountTyped DEF FailedAttempt
  <2>6. CASE KeyRejected \/ KeyFetchFails
    BY <2>5, <2>6 DEF KeyRejected, KeyFetchFails
  <2>7. CASE PostFails
    BY <2>5, <2>7, BusyWorkerTyped DEF PostFails, AbandonPost
  <2>8. CASE PostSucceeds
    <3>1. worker' = [pc |-> "committing", msg |-> worker.msg, http |-> worker.http]
      BY <2>8, BusyWorkerTyped DEF PostSucceeds
    <3>2. worker' \in WorkerState
      BY <2>8, <3>1, BusyWorkerTyped DEF PostSucceeds, WorkerState
    <3> QED
      BY <2>8, <3>2 DEF PostSucceeds, outsideVars
  <2>9. CASE Delivered
    BY <2>9, CountTyped, IdleTyped DEF Delivered, outsideVars
  <2> QED
    BY <1>4, <2>2, <2>3, <2>4, <2>6, <2>7, <2>8, <2>9 DEF WorkerNext
<1>5. CASE CloudNext
  <2>1. ASSUME NEW outcome \in {"stored", "conflict", "refused"}, worker.http = "sent",
               CloudResponds(outcome), stored' \subseteq Messages
        PROVE  ProcessTypeOK'
    <3>1. worker' = [pc |-> "posting", msg |-> worker.msg, http |-> outcome]
      BY <2>1, SentTyped, BusyWorkerTyped DEF CloudResponds
    <3>2. worker' \in WorkerState
      BY <2>1, <3>1, SentTyped DEF WorkerState
    <3> QED
      BY <2>1, <3>2 DEF CloudResponds
  <2>2. CASE CloudStores \/ CloudFindsDuplicate \/ CloudRefuses
    BY <2>1, <2>2, SentTyped DEF CloudStores, CloudFindsDuplicate, CloudRefuses
  <2>3. ASSUME NEW m \in Messages, LateArrives(m)
        PROVE  ProcessTypeOK'
    BY <2>3 DEF LateArrives, processVars
  <2> QED
    BY <1>5, <2>2, <2>3 DEF CloudNext
<1>6. CASE RowsBecomeDue
  BY <1>6 DEF RowsBecomeDue, processVars, outsideVars
<1>7. CASE UNCHANGED vars
  BY <1>7 DEF vars, processVars, outsideVars
<1> QED
  BY <1>1, <1>2, <1>3, <1>4, <1>5, <1>6, <1>7 DEF Next

LEMMA ProcessTyped == Spec => []ProcessTypeOK
<1>1. ProcessTypeOK /\ [Next]_vars => ProcessTypeOK'
  BY StepTyped
<1> QED
  BY <1>1, InitTyped, PTL DEF Spec

------------------------------------------------------------------------------
(* the gateway uses the outbox as the queue allows *)

LEMMA StepIsQueueStep ==
    ASSUME ProcessTypeOK, [Next]_vars
    PROVE  [QueueNext]_queueVars
<1>1. CASE Start
  BY <1>1 DEF Start, QueueNext
<1>2. CASE Crash
  BY <1>2 DEF Crash, QueueNext
<1>3. ASSUME NEW c \in Callers, RequestNext(c)
      PROVE  [QueueNext]_queueVars
  <2>1. request[c].pc = "enqueueing" => request[c].msg \in Messages
    BY DEF ProcessTypeOK, Request, NoRequest
  <2> QED
    BY <1>3, <2>1 DEF RequestNext, Receive, EnqueueInserts, EnqueueFindsRow, EnqueueIsFull,
                      EnqueueFails, Accept, Reject, QueueNext
<1>4. CASE WorkerNext
  <2>1. worker.pc \in {"committing", "retrying"} => worker.msg \in Messages
    BY BusyWorkerTyped DEF ProcessTypeOK
  <2>2. CASE Delivered \/ RetryScheduled
    BY <2>1, <2>2 DEF Delivered, RetryScheduled, QueueNext
  <2>3. CASE ClearAndRead \/ ReadFails \/ ReadingRaises \/ NothingDue \/ TakeOldest
    BY <2>3 DEF ClearAndRead, ReadFails, ReadingRaises, NothingDue, TakeOldest, QueueNext
  <2>4. CASE Woken \/ PollExpires \/ PostEnvelope \/ KeyRejected \/ KeyFetchFails \/ KeyNotRsa
               \/ PostFails \/ PostSucceeds \/ OutcomeNotRecorded
    BY <2>4 DEF Woken, PollExpires, PostEnvelope, KeyRejected, KeyFetchFails, KeyNotRsa,
                PostFails, PostSucceeds, OutcomeNotRecorded, FailedAttempt
  <2> QED
    BY <1>4, <2>2, <2>3, <2>4 DEF WorkerNext
<1>5. CASE CloudNext
  BY <1>5 DEF CloudNext, CloudStores, CloudFindsDuplicate, CloudRefuses, CloudResponds, LateArrives
<1>6. CASE RowsBecomeDue
  BY <1>6 DEF RowsBecomeDue, QueueNext
<1>7. CASE UNCHANGED vars
  BY <1>7 DEF vars
<1> QED
  BY <1>1, <1>2, <1>3, <1>4, <1>5, <1>6, <1>7 DEF Next

\* Whatever the gateway does to its outbox, the queue could do by itself: so
\* all that OutboxQueueProofs proves holds of the gateway's rows.
THEOREM GatewayUsesQueue == Spec => QueueSpec
<1>1. Init => QueueInit
  BY DEF Init
<1>2. ProcessTypeOK /\ [Next]_vars => [QueueNext]_queueVars
  BY StepIsQueueStep
<1> QED
  BY <1>1, <1>2, ProcessTyped, PTL DEF Spec, QueueSpec

\* Every variable of the gateway keeps to its set.
THEOREM TypeCorrect == Spec => []TypeOK
<1>1. ProcessTypeOK /\ QueueInv => TypeOK
  BY DEF ProcessTypeOK, QueueInv, TypeOK
<1> QED
  BY <1>1, ProcessTyped, GatewayUsesQueue, QueueCorrect, PTL

\* The rows form one line, fresh rows are due, stamps name present rows.
THEOREM RowsInLine == Spec => [](OneLine /\ UntriedRowsAreDue /\ SeenRowsArePending)
<1>1. QueueInv => OneLine /\ UntriedRowsAreDue /\ SeenRowsArePending
  BY DEF QueueInv
<1> QED
  BY <1>1, GatewayUsesQueue, QueueCorrect, PTL

------------------------------------------------------------------------------
(* the durable handoff *)

\* NothingLost is not inductive: it needs where each unfinished piece of work
\* leaves its reading.  A held reading is queued until its outcome is recorded,
\* a reading the cloud answered for is stored, and one that a late envelope or
\* an answered enqueue names is at least queued.
HandoffInv ==
    /\ RowIsHeld
    /\ worker.http \in {"stored", "conflict"} => worker.msg \in stored
    /\ late \subseteq pending \cup stored
    /\ \A c \in Callers : request[c].pc \in {"inserted", "existing"} =>
                             request[c].msg \in pending \cup stored
    /\ NothingLost

LEMMA NoRequestFields == NoRequest.pc = "idle" /\ NoRequest.msg = NoMessage
BY DEF NoRequest

LEMMA IdleFields ==
    ASSUME NEW pc
    PROVE  Idle(pc).pc = pc /\ Idle(pc).msg = NoMessage /\ Idle(pc).http = "none"
BY DEF Idle

LEMMA HandoffInit == Init => HandoffInv
BY NoRequestFields, IdleFields
   DEF Init, QueueInit, HandoffInv, RowIsHeld, NothingLost

\* The steps that leave the rows, the cloud and the handlers alone.
LEMMA HandoffQuiet ==
    ASSUME HandoffInv,
           pending' = pending, stored' = stored, late' = late, request' = request, acked' = acked,
           \/ worker' = worker
           \/ worker'.msg = NoMessage /\ worker'.http = "none" /\ worker'.pc # "committing"
    PROVE  HandoffInv'
BY DEF HandoffInv, RowIsHeld, NothingLost

LEMMA HandoffStep ==
    ASSUME ProcessTypeOK, QueueInv, HandoffInv, [Next]_vars
    PROVE  HandoffInv'
<1> USE NoRequestFields, IdleFields
<1>1. CASE Start
  BY <1>1, HandoffQuiet DEF Start, RecoverRows, outsideVars
<1>2. CASE Crash
  <2>1. late' \subseteq pending \cup stored
    BY <1>2, SentTyped, GatewayAssumption
       DEF Crash, AbandonPost, HandoffInv, RowIsHeld, ProcessTypeOK
  <2> QED
    BY <1>2, <2>1 DEF Crash, AbandonCalls, HandoffInv, RowIsHeld, NothingLost
<1>3. ASSUME NEW c \in Callers, RequestNext(c)
      PROVE  HandoffInv'
  <2> USE DEF ProcessTypeOK, HandoffInv, RowIsHeld, NothingLost
  <2>1. ASSUME NEW m \in Messages, Receive(c, m)
        PROVE  HandoffInv'
    BY <2>1 DEF Receive, StampCall, outsideVars
  <2>2. CASE EnqueueInserts(c)
    BY <2>2 DEF EnqueueInserts, InsertRow, EnqueueReturns, outsideVars
  <2>3. CASE EnqueueFindsRow(c)
    BY <2>3 DEF EnqueueFindsRow, EndCall, EnqueueReturns, outsideVars
  <2>4. CASE EnqueueIsFull(c) \/ EnqueueFails(c)
    <3>1. EndCall(c) /\ EnqueueReturns(c, "rejected")
      BY <2>4 DEF EnqueueIsFull, EnqueueFails
    <3> QED
      BY <3>1 DEF EndCall, EnqueueReturns, outsideVars
  <2>5. CASE Accept(c)
    <3>1. acked' \subseteq pending \cup stored
      BY <2>5 DEF Accept
    <3>2. /\ pending' = pending /\ stored' = stored /\ late' = late /\ worker' = worker
          /\ \A d \in Callers : request'[d] = request[d] \/ request'[d] = NoRequest
      BY <2>5 DEF Accept, queueVars
    <3> QED
      BY <3>1, <3>2
  <2>6. CASE Reject(c)
    BY <2>6 DEF Reject, queueVars, outsideVars
  <2> QED
    BY <1>3, <2>1, <2>2, <2>3, <2>4, <2>5, <2>6 DEF RequestNext
<1>4. CASE WorkerNext
  <2>1. CASE ClearAndRead \/ ReadFails \/ ReadingRaises \/ NothingDue \/ Woken \/ PollExpires
               \/ KeyNotRsa \/ RetryScheduled \/ OutcomeNotRecorded
    BY <2>1, HandoffQuiet
       DEF ClearAndRead, ReadFails, ReadingRaises, NothingDue, Woken, PollExpires,
           KeyNotRsa, RetryScheduled, OutcomeNotRecorded, WorkerGoes, BeginRead, EndRead,
           PostponeRow, queueVars, outsideVars
  <2>2. CASE TakeOldest
    <3>1. PICK m \in Messages : /\ IsOldest(m)
                               /\ worker' = [pc |-> "fetching_key", msg |-> m, http |-> "none"]
      BY <2>2 DEF TakeOldest
    <3>2. m \in pending
      BY <3>1 DEF IsOldest, QueueInv, QueueTypeOK
    <3> QED
      BY <2>2, <3>1, <3>2
         DEF TakeOldest, EndRead, HandoffInv, RowIsHeld, NothingLost, outsideVars
  <2>3. CASE PostEnvelope \/ PostSucceeds
    <3>1. /\ worker'.msg = worker.msg
          /\ worker'.pc = "committing" => worker.http \in {"stored", "conflict"}
          /\ worker'.http \in {"stored", "conflict"} => worker.http \in {"stored", "conflict"}
      BY <2>3, BusyWorkerTyped DEF ProcessTypeOK, PostEnvelope, PostSucceeds
    <3>2. UNCHANGED <<pending, stored, late, request, acked>>
      BY <2>3 DEF PostEnvelope, PostSucceeds, queueVars, outsideVars
    <3> QED
      BY <3>1, <3>2 DEF HandoffInv, RowIsHeld, NothingLost
  <2>4. CASE KeyRejected \/ KeyFetchFails \/ PostFails
    <3>1. worker.pc \in {"fetching_key", "posting"} /\ worker.msg \in Messages
      BY <2>4, BusyWorkerTyped DEF ProcessTypeOK, KeyRejected, KeyFetchFails, PostFails
    <3>2. worker' = [pc |-> "retrying", msg |-> worker.msg, http |-> "none"]
      BY <2>4, <3>1, BusyWorkerTyped
         DEF ProcessTypeOK, KeyRejected, KeyFetchFails, PostFails, FailedAttempt
    <3>3. late' \subseteq late \cup {worker.msg}
      BY <2>4 DEF KeyRejected, KeyFetchFails, PostFails, AbandonPost
    <3>4. worker.msg \in pending
      BY <3>1, GatewayAssumption DEF HandoffInv, RowIsHeld
    <3>5. UNCHANGED <<pending, stored, request, acked>>
      BY <2>4 DEF KeyRejected, KeyFetchFails, PostFails, FailedAttempt, queueVars
    <3> QED
      BY <3>2, <3>3, <3>4, <3>5 DEF HandoffInv, RowIsHeld, NothingLost
  <2>5. CASE Delivered
    \* The row that goes is the held one, and its reading is in the cloud.
    <3>1. worker.msg \in stored
      BY <2>5 DEF Delivered, HandoffInv, RowIsHeld
    <3>2. pending' = pending \ {worker.msg}
      BY <2>5 DEF Delivered, DeleteRow
    <3>3. UNCHANGED <<stored, late, request, acked>> /\ worker' = Idle("top")
      BY <2>5 DEF Delivered, outsideVars
    <3>4. pending' \cup stored' = pending \cup stored
      BY <3>1, <3>2, <3>3
    <3> QED
      BY <3>3, <3>4 DEF HandoffInv, RowIsHeld, NothingLost
  <2> QED
    BY <1>4, <2>1, <2>2, <2>3, <2>4, <2>5 DEF WorkerNext
<1>5. CASE CloudNext
  <2>1. CASE CloudStores \/ CloudFindsDuplicate \/ CloudRefuses
    <3>1. /\ worker.pc = "posting" /\ worker'.pc = "posting" /\ worker'.msg = worker.msg
          /\ worker'.http \in {"stored", "conflict"} => worker.msg \in stored'
          /\ stored \subseteq stored'
      BY <2>1, SentTyped, BusyWorkerTyped
         DEF ProcessTypeOK, CloudStores, CloudFindsDuplicate, CloudRefuses, CloudResponds
    <3>2. UNCHANGED <<pending, late, request, acked>>
      BY <2>1 DEF CloudStores, CloudFindsDuplicate, CloudRefuses, CloudResponds, queueVars
    <3> QED
      BY <3>1, <3>2 DEF HandoffInv, RowIsHeld, NothingLost
  <2>2. ASSUME NEW m \in Messages, LateArrives(m)
        PROVE  HandoffInv'
    BY <2>2 DEF LateArrives, queueVars, processVars, HandoffInv, RowIsHeld, NothingLost
  <2> QED
    BY <1>5, <2>1, <2>2 DEF CloudNext
<1>6. CASE RowsBecomeDue
  BY <1>6, HandoffQuiet DEF RowsBecomeDue, TimePasses, processVars, outsideVars
<1>7. CASE UNCHANGED vars
  BY <1>7, HandoffQuiet DEF vars, queueVars, processVars, outsideVars
<1> QED
  BY <1>1, <1>2, <1>3, <1>4, <1>5, <1>6, <1>7 DEF Next

\* What every state satisfies; the theorems below read off it.
GatewayInv == ProcessTypeOK /\ QueueInv /\ HandoffInv

LEMMA GatewayInvariant == Spec => []GatewayInv
<1>1. Init => HandoffInv
  BY HandoffInit
<1>2. ProcessTypeOK /\ QueueInv /\ HandoffInv /\ [Next]_vars => HandoffInv'
  BY HandoffStep
<1>3. Spec => []ProcessTypeOK /\ []QueueInv
  BY ProcessTyped, GatewayUsesQueue, QueueCorrect, PTL
<1>4. Spec => []HandoffInv
  BY <1>1, <1>2, <1>3, PTL DEF Spec
<1> QED
  BY <1>3, <1>4, PTL DEF GatewayInv

\* A reading answered with 202 is in the outbox or in the cloud, whatever
\* crashes, failures, retries and late envelopes came since.
THEOREM DurableHandoff == Spec => []NothingLost
<1>1. GatewayInv => NothingLost
  BY DEF GatewayInv, HandoffInv
<1> QED
  BY <1>1, GatewayInvariant, PTL

\* The row of the reading in the worker's hands stays until its outcome is
\* recorded, and the cloud has the reading when the row is to be deleted.
THEOREM RowHeld == Spec => []RowIsHeld
<1>1. GatewayInv => RowIsHeld
  BY DEF GatewayInv, HandoffInv
<1> QED
  BY <1>1, GatewayInvariant, PTL

LEMMA WorkerLeavesRows ==
    ASSUME WorkerNext, ~Delivered
    PROVE  pending' = pending
BY DEF WorkerNext, ClearAndRead, ReadFails, ReadingRaises, NothingDue, TakeOldest, Woken,
       PollExpires, PostEnvelope, KeyRejected, KeyFetchFails, KeyNotRsa, PostFails,
       PostSucceeds, RetryScheduled, OutcomeNotRecorded, FailedAttempt, BeginRead, EndRead,
       PostponeRow, queueVars

\* Only mark_delivered takes a row away, and only EnqueueInserts brings one.
LEMMA RowsComeAndGo ==
    ASSUME [Next]_vars
    PROVE  \/ pending' = pending
           \/ Delivered /\ pending' = pending \ {worker.msg}
           \/ \E c \in Callers : /\ EnqueueInserts(c)
                                 /\ pending' = pending \cup {request[c].msg}
<1>1. CASE Delivered
  BY <1>1 DEF Delivered, DeleteRow
<1>2. ASSUME NEW c \in Callers, EnqueueInserts(c)
      PROVE  pending' = pending \cup {request[c].msg}
  BY <1>2 DEF EnqueueInserts, InsertRow
<1>3. ASSUME NEW c \in Callers, RequestNext(c), ~EnqueueInserts(c)
      PROVE  pending' = pending
  BY <1>3 DEF RequestNext, Receive, StampCall, EnqueueFindsRow, EnqueueIsFull, EnqueueFails,
              EndCall, Accept, Reject, queueVars
<1>4. ASSUME WorkerNext, ~Delivered
      PROVE  pending' = pending
  BY <1>4, WorkerLeavesRows
<1>5. CASE CloudNext
  BY <1>5 DEF CloudNext, CloudStores, CloudFindsDuplicate, CloudRefuses, CloudResponds,
              LateArrives, queueVars
<1>6. CASE Start \/ Crash \/ RowsBecomeDue
  BY <1>6 DEF Start, Crash, RowsBecomeDue, RecoverRows, AbandonCalls, TimePasses
<1>7. CASE UNCHANGED vars
  BY <1>7 DEF vars, queueVars
<1> QED
  BY <1>1, <1>2, <1>3, <1>4, <1>5, <1>6, <1>7 DEF Next

\* mark_delivered only ever deletes the row of a reading the cloud has stored.
THEOREM RowsLeaveStored == Spec => OnlyStoredRowsLeave
<1>1. GatewayInv /\ [Next]_vars => [pending \ pending' \subseteq stored]_vars
  <2> SUFFICES ASSUME GatewayInv, [Next]_vars
               PROVE  pending \ pending' \subseteq stored
    OBVIOUS
  <2>1. Delivered => worker.msg \in stored
    BY DEF Delivered, GatewayInv, HandoffInv, RowIsHeld
  <2> QED
    BY <2>1, RowsComeAndGo
<1> QED
  BY <1>1, GatewayInvariant, PTL DEF Spec, OnlyStoredRowsLeave

------------------------------------------------------------------------------
(* alarms *)

\* AlarmCanClear with what keeps the DELETE from emptying the outbox under an
\* alarm: a delivery that is being committed has reset both.
AlarmInv ==
    /\ up => (~cryptoReady => consecutive > 0)
    /\ consecutive > 0 => pending # {}
    /\ worker.pc = "committing" => consecutive = 0
    /\ ~up => consecutive = 0 /\ worker.pc = "off"

LEMMA AlarmInit == Init => AlarmInv
BY IdleFields DEF Init, AlarmInv

LEMMA AlarmStep ==
    ASSUME GatewayInv, AlarmInv, [Next]_vars
    PROVE  AlarmInv'
<1> USE IdleFields DEF AlarmInv
<1>0. consecutive \in Nat
  BY GatewayAssumption DEF GatewayInv, ProcessTypeOK
<1>1. CASE Start
  BY <1>1 DEF Start, RecoverRows
<1>2. CASE Crash
  BY <1>2 DEF Crash
<1>3. ASSUME NEW c \in Callers, RequestNext(c)
      PROVE  AlarmInv'
  <2>1. UNCHANGED <<up, cryptoReady, consecutive, worker>>
    BY <1>3 DEF RequestNext, Receive, EnqueueInserts, EnqueueFindsRow, EnqueueIsFull,
                EnqueueFails, EnqueueReturns, Accept, Reject
  <2>2. pending' # {} \/ pending = {}
    BY <1>3, RowsComeAndGo DEF RequestNext, Receive, StampCall, EnqueueInserts, InsertRow,
       EnqueueFindsRow, EnqueueIsFull, EnqueueFails, EndCall, Accept, Reject, queueVars
  <2> QED
    BY <2>1, <2>2
<1>4. CASE WorkerNext
  <2>1. CASE Delivered
    BY <2>1 DEF Delivered
  <2>2. CASE KeyRejected \/ KeyFetchFails \/ PostFails
    <3>1. worker.pc \in {"fetching_key", "posting"} /\ worker.msg \in Messages
      BY <2>2, BusyWorkerTyped
         DEF GatewayInv, ProcessTypeOK, KeyRejected, KeyFetchFails, PostFails
    <3>2. pending # {}
      BY <3>1, GatewayAssumption DEF GatewayInv, HandoffInv, RowIsHeld
    <3>3. /\ pending' = pending /\ up' = up
          /\ consecutive' = IF consecutive < WarnAfter THEN consecutive + 1 ELSE consecutive
      BY <2>2 DEF KeyRejected, KeyFetchFails, PostFails, FailedAttempt, queueVars
    <3>4. worker'.pc = "retrying"
      BY <2>2, <3>1, BusyWorkerTyped
         DEF GatewayInv, ProcessTypeOK, KeyRejected, KeyFetchFails, PostFails, FailedAttempt
    <3>5. consecutive' > 0
      BY <1>0, <3>3, GatewayAssumption
    <3> QED
      BY <3>1, <3>2, <3>3, <3>4, <3>5
  <2>3. CASE PostSucceeds
    BY <2>3 DEF PostSucceeds
  <2>4. CASE ClearAndRead \/ ReadFails \/ ReadingRaises \/ NothingDue \/ TakeOldest \/ Woken
               \/ PollExpires \/ PostEnvelope \/ KeyNotRsa \/ RetryScheduled \/ OutcomeNotRecorded
    <3>1. pending' = pending
      BY <2>4 DEF ClearAndRead, ReadFails, ReadingRaises, NothingDue, TakeOldest, Woken,
                  PollExpires, PostEnvelope, KeyNotRsa, RetryScheduled, OutcomeNotRecorded,
                  BeginRead, EndRead, PostponeRow, queueVars
    <3>2. UNCHANGED <<up, cryptoReady, consecutive>> /\ worker.pc # "off"
      BY <2>4 DEF ClearAndRead, ReadFails, ReadingRaises, NothingDue, TakeOldest, Woken,
                  PollExpires, PostEnvelope, KeyNotRsa, RetryScheduled, OutcomeNotRecorded,
                  WorkerGoes
    <3>3. worker'.pc # "committing"
      <4>1. CASE PostEnvelope
        BY <4>1, BusyWorkerTyped DEF GatewayInv, ProcessTypeOK, PostEnvelope
      <4>2. CASE TakeOldest
        BY <4>2 DEF TakeOldest
      <4>3. CASE ClearAndRead \/ ReadFails \/ ReadingRaises \/ NothingDue \/ Woken \/ PollExpires
                   \/ KeyNotRsa \/ RetryScheduled \/ OutcomeNotRecorded
        BY <4>3 DEF ClearAndRead, ReadFails, ReadingRaises, NothingDue, Woken, PollExpires,
                    KeyNotRsa, RetryScheduled, OutcomeNotRecorded, WorkerGoes
      <4> QED
        BY <2>4, <4>1, <4>2, <4>3
    <3> QED
      BY <3>1, <3>2, <3>3
  <2> QED
    BY <1>4, <2>1, <2>2, <2>3, <2>4 DEF WorkerNext
<1>5. CASE CloudNext
  <2>1. UNCHANGED <<up, cryptoReady, consecutive, pending>>
    BY <1>5 DEF CloudNext, CloudStores, CloudFindsDuplicate, CloudRefuses, CloudResponds,
                LateArrives, queueVars, processVars
  <2>2. worker'.pc = worker.pc
    BY <1>5, SentTyped, BusyWorkerTyped
       DEF GatewayInv, ProcessTypeOK, CloudNext, CloudStores, CloudFindsDuplicate, CloudRefuses,
           CloudResponds, LateArrives, processVars
  <2> QED
    BY <2>1, <2>2
<1>6. CASE RowsBecomeDue
  BY <1>6 DEF RowsBecomeDue, TimePasses, processVars
<1>7. CASE UNCHANGED vars
  BY <1>7 DEF vars, queueVars, processVars
<1> QED
  BY <1>1, <1>2, <1>3, <1>4, <1>5, <1>6, <1>7 DEF Next

\* While the gateway reports a failed key or counts failures, some reading is
\* queued whose delivery will reset both.
THEOREM AlarmsClear == Spec => []AlarmCanClear
<1>1. GatewayInv /\ AlarmInv /\ [Next]_vars => AlarmInv'
  BY AlarmStep
<1>2. AlarmInv => AlarmCanClear
  BY DEF AlarmInv, AlarmCanClear
<1> QED
  BY <1>1, <1>2, AlarmInit, GatewayInvariant, PTL DEF Spec

------------------------------------------------------------------------------
(* wakeups *)

\* The handler that inserted m's row has yet to set the event.
Claimed(m) == \E c \in Callers : request[c].msg = m /\ request[c].pc = "inserted"

\* NoLostWakeup, and what makes it so: while next_due runs, a fresh row it will
\* not find was inserted after its clock reading, hence after wakeup.clear(), so
\* its handler's set() is still to come or has left the event set.
WakeInv ==
    /\ worker.pc = "waiting" /\ ~wakeup => \A m \in pending \ attempted : Claimed(m)
    /\ worker.pc = "selecting" /\ ~wakeup =>
         \A m \in (pending \ attempted) \ visible : Claimed(m)

LEMMA WakeInit == Init => WakeInv
BY IdleFields DEF Init, WakeInv

\* Steps that leave the rows, the event and the handlers alone, and do not
\* bring the worker to a point the invariant speaks of.
LEMMA WakeQuiet ==
    ASSUME WakeInv, UNCHANGED <<pending, attempted, visible, wakeup, request>>,
           worker'.pc = worker.pc \/ worker'.pc \notin {"waiting", "selecting"}
    PROVE  WakeInv'
BY DEF WakeInv, Claimed

LEMMA WakeStep ==
    ASSUME GatewayInv, WakeInv, [Next]_vars
    PROVE  WakeInv'
<1> USE IdleFields, NoRequestFields
<1>1. CASE Start
  BY <1>1 DEF Start, WakeInv
<1>2. CASE Crash
  BY <1>2 DEF Crash, WakeInv
<1>3. ASSUME NEW c \in Callers, RequestNext(c)
      PROVE  WakeInv'
  <2>0. /\ request \in [Callers -> Request]
        /\ pending \subseteq Messages
    BY DEF GatewayInv, ProcessTypeOK, QueueInv, QueueTypeOK
  <2>1. ASSUME UNCHANGED <<pending, attempted, visible, wakeup, worker>>,
               request[c].pc # "inserted",
               \A d \in Callers \ {c} : request'[d] = request[d]
        PROVE  WakeInv'
    BY <2>1 DEF WakeInv, Claimed
  <2>2. ASSUME NEW m \in Messages, Receive(c, m)
        PROVE  WakeInv'
    BY <2>0, <2>1, <2>2 DEF Receive, StampCall
  <2>3. CASE EnqueueFindsRow(c) \/ EnqueueIsFull(c) \/ EnqueueFails(c)
    <3>1. /\ request[c].pc = "enqueueing"
          /\ EndCall(c)
          /\ \E outcome \in {"existing", "rejected"} : EnqueueReturns(c, outcome)
      BY <2>3 DEF EnqueueFindsRow, EnqueueIsFull, EnqueueFails
    <3> QED
      BY <2>0, <2>1, <3>1 DEF EnqueueReturns, EndCall
  <2>4. CASE Reject(c)
    BY <2>0, <2>1, <2>4 DEF Reject, queueVars
  <2>5. CASE Accept(c)
    BY <2>5 DEF Accept, WakeInv
  <2>6. CASE EnqueueInserts(c)
    <3>1. /\ pending' = pending \cup {request[c].msg}
          /\ UNCHANGED <<attempted, wakeup, worker>>
          /\ visible \subseteq visible'
          /\ request[c].pc = "enqueueing"
      BY <2>6 DEF EnqueueInserts, InsertRow, EnqueueReturns
    <3>2. /\ \A d \in Callers \ {c} : request'[d] = request[d]
          /\ request'[c].pc = "inserted" /\ request'[c].msg = request[c].msg
      <4>1. request' = [request EXCEPT ![c].pc = "inserted"]
        BY <2>6 DEF EnqueueInserts, EnqueueReturns
      <4> QED
        BY <2>0, <4>1, <3>1 DEF Request, NoRequest
    <3>3. ASSUME NEW m, m = request[c].msg \/ Claimed(m)
          PROVE  \E d \in Callers : request'[d].msg = m /\ request'[d].pc = "inserted"
      BY <3>1, <3>2, <3>3 DEF Claimed
    <3> QED
      BY <3>1, <3>3 DEF WakeInv, Claimed
  <2> QED
    BY <1>3, <2>2, <2>3, <2>4, <2>5, <2>6 DEF RequestNext
<1>4. CASE WorkerNext
  <2>1. CASE ClearAndRead
    \* next_due finds every fresh row that is there, because all are due.
    <3>1. worker'.pc = "selecting" /\ visible' = due
      BY <2>1 DEF ClearAndRead, WorkerGoes, BeginRead
    <3>2. UNCHANGED <<pending, attempted>>
      BY <2>1 DEF ClearAndRead, BeginRead
    <3> QED
      BY <3>1, <3>2 DEF WakeInv, GatewayInv, QueueInv, UntriedRowsAreDue
  <2>2. CASE NothingDue
    <3>1. worker.pc = "selecting" /\ visible = {} /\ worker'.pc = "waiting"
      BY <2>2 DEF NothingDue, WorkerGoes
    <3>2. UNCHANGED <<pending, attempted, wakeup, request>>
      BY <2>2 DEF NothingDue, WorkerGoes, EndRead
    <3> QED
      BY <3>1, <3>2 DEF WakeInv, Claimed
  <2>3. CASE ReadFails \/ ReadingRaises \/ Woken \/ PollExpires \/ KeyNotRsa \/ RetryScheduled
               \/ OutcomeNotRecorded \/ Delivered
    BY <2>3 DEF ReadFails, ReadingRaises, Woken, PollExpires, KeyNotRsa, RetryScheduled,
                OutcomeNotRecorded, Delivered, WorkerGoes, WakeInv
  <2>4. CASE TakeOldest
    BY <2>4 DEF TakeOldest, WakeInv
  <2>5. CASE PostEnvelope \/ KeyRejected \/ KeyFetchFails \/ PostFails \/ PostSucceeds
    <3>1. worker'.pc \in {"posting", "retrying", "committing"}
      BY <2>5, BusyWorkerTyped
         DEF GatewayInv, ProcessTypeOK, PostEnvelope, KeyRejected, KeyFetchFails, PostFails,
             PostSucceeds, FailedAttempt
    <3> QED
      BY <3>1 DEF WakeInv
  <2> QED
    BY <1>4, <2>1, <2>2, <2>3, <2>4, <2>5 DEF WorkerNext
<1>5. CASE CloudNext
  <2>1. worker'.pc = worker.pc
    BY <1>5, SentTyped, BusyWorkerTyped
       DEF GatewayInv, ProcessTypeOK, CloudNext, CloudStores, CloudFindsDuplicate, CloudRefuses,
           CloudResponds, LateArrives, processVars
  <2> QED
    BY <1>5, <2>1, WakeQuiet
       DEF CloudNext, CloudStores, CloudFindsDuplicate, CloudRefuses, CloudResponds, LateArrives,
           queueVars, processVars
<1>6. CASE RowsBecomeDue
  BY <1>6, WakeQuiet DEF RowsBecomeDue, TimePasses, processVars
<1>7. CASE UNCHANGED vars
  BY <1>7, WakeQuiet DEF vars, queueVars, processVars
<1> QED
  BY <1>1, <1>2, <1>3, <1>4, <1>5, <1>6, <1>7 DEF Next

\* No interleaving of handlers and worker leaves the worker waiting, with the
\* event clear, on a new reading whose handler has finished.
THEOREM WakeupsKept == Spec => []NoLostWakeup
<1>1. GatewayInv /\ WakeInv /\ [Next]_vars => WakeInv'
  BY WakeStep
<1>2. WakeInv => NoLostWakeup
  BY DEF WakeInv, Claimed, NoLostWakeup
<1> QED
  BY <1>1, <1>2, WakeInit, GatewayInvariant, PTL DEF Spec

------------------------------------------------------------------------------
(* the promise to the clients *)

Status(m) == IF m \in stored THEN "delivered" ELSE IF m \in pending THEN "queued" ELSE "new"

AllStatus == [m \in Messages |-> Status(m)]

LEMMA PromiseStartsNew == Init => Promise!PromiseInit
BY DEF Init, QueueInit, Promise!PromiseInit

\* Outside the INSERT, the cloud's store and the 202, no reading changes status.
LEMMA PromiseStutter ==
    ASSUME UNCHANGED <<stored, acked>>,
           pending' = pending \/ \E m \in stored : pending' = pending \ {m}
    PROVE  UNCHANGED Promise!promiseVars
<1>1. \A m \in Messages : Status(m)' = Status(m)
  BY DEF Status
<1>2. AllStatus' = AllStatus
  BY <1>1 DEF AllStatus
<1> QED
  BY <1>2 DEF AllStatus, Status, Promise!promiseVars

LEMMA PromiseDelivers ==
    ASSUME NEW m \in pending \cup stored, stored' = stored \cup {m},
           UNCHANGED <<pending, acked>>, pending \subseteq Messages, stored \subseteq Messages
    PROVE  [Promise!PromiseNext]_(Promise!promiseVars)
<1>1. CASE m \in stored
  <2>1. stored' = stored
    BY <1>1
  <2> QED
    BY <2>1, PromiseStutter
<1>2. CASE m \notin stored
  <2>1. AllStatus[m] = "queued" /\ m \in Messages
    BY <1>2 DEF AllStatus, Status
  <2>2. AllStatus' = [AllStatus EXCEPT ![m] = "delivered"]
    BY <1>2 DEF AllStatus, Status
  <2>3. Promise!Deliver(m)
    BY <2>1, <2>2 DEF Promise!Deliver, AllStatus, Status
  <2> QED
    BY <2>1, <2>3 DEF Promise!PromiseNext
<1> QED
  BY <1>1, <1>2

LEMMA PromiseQueues ==
    ASSUME NEW m \in Messages, m \notin pending, pending' = pending \cup {m},
           UNCHANGED <<stored, acked>>
    PROVE  [Promise!PromiseNext]_(Promise!promiseVars)
<1>1. CASE m \in stored
  <2>1. \A x \in Messages : Status(x)' = Status(x)
    BY <1>1 DEF Status
  <2>2. AllStatus' = AllStatus
    BY <2>1 DEF AllStatus
  <2> QED
    BY <2>2 DEF AllStatus, Status, Promise!promiseVars
<1>2. CASE m \notin stored
  <2>1. AllStatus[m] = "new"
    BY <1>2 DEF AllStatus, Status
  <2>2. AllStatus' = [AllStatus EXCEPT ![m] = "queued"]
    BY <1>2 DEF AllStatus, Status
  <2>3. Promise!Queue(m)
    BY <2>1, <2>2 DEF Promise!Queue, AllStatus, Status
  <2> QED
    BY <2>3 DEF Promise!PromiseNext
<1> QED
  BY <1>1, <1>2

LEMMA PromiseStep ==
    ASSUME GatewayInv, [Next]_vars
    PROVE  [Promise!PromiseNext]_(Promise!promiseVars)
<1>0. pending \subseteq Messages /\ stored \subseteq Messages
  BY DEF GatewayInv, ProcessTypeOK, QueueInv, QueueTypeOK
<1>1. CASE Start \/ Crash \/ RowsBecomeDue \/ UNCHANGED vars
  BY <1>1, PromiseStutter
     DEF Start, Crash, RowsBecomeDue, RecoverRows, AbandonCalls, TimePasses, vars, queueVars,
         processVars, outsideVars
<1>2. ASSUME NEW c \in Callers, RequestNext(c)
      PROVE  [Promise!PromiseNext]_(Promise!promiseVars)
  <2>1. CASE EnqueueInserts(c)
    <3>1. request[c].msg \in Messages
      BY <2>1 DEF EnqueueInserts, GatewayInv, ProcessTypeOK, Request, NoRequest
    <3>2. /\ request[c].msg \notin pending
          /\ pending' = pending \cup {request[c].msg}
          /\ UNCHANGED <<stored, acked>>
      BY <2>1 DEF EnqueueInserts, InsertRow, EnqueueReturns, outsideVars
    <3> QED
      BY <3>1, <3>2, PromiseQueues
  <2>2. CASE Accept(c)
    <3>1. request[c].msg \in pending \cup stored
      BY <2>2 DEF Accept, GatewayInv, HandoffInv
    <3>2. UNCHANGED <<pending, stored>> /\ acked' = acked \cup {request[c].msg}
      BY <2>2 DEF Accept, queueVars
    <3>3. AllStatus' = AllStatus /\ AllStatus[request[c].msg] # "new"
      BY <1>0, <3>1, <3>2 DEF AllStatus, Status
    <3>4. Promise!Acknowledge(request[c].msg)
      BY <3>2, <3>3 DEF Promise!Acknowledge, AllStatus, Status
    <3> QED
      BY <1>0, <3>1, <3>4 DEF Promise!PromiseNext
  <2>3. CASE ~EnqueueInserts(c) /\ ~Accept(c)
    BY <1>2, <2>3, PromiseStutter
       DEF RequestNext, Receive, StampCall, EnqueueFindsRow, EnqueueIsFull, EnqueueFails,
           EnqueueReturns, EndCall, Reject, queueVars, outsideVars
  <2> QED
    BY <2>1, <2>2, <2>3
<1>3. CASE WorkerNext
  <2>1. Delivered => worker.msg \in stored
    BY DEF Delivered, GatewayInv, HandoffInv, RowIsHeld
  <2>2. UNCHANGED <<stored, acked>>
    BY <1>3 DEF WorkerNext, ClearAndRead, ReadFails, ReadingRaises, NothingDue, TakeOldest,
                Woken, PollExpires, PostEnvelope, KeyRejected, KeyFetchFails, KeyNotRsa,
                PostFails, PostSucceeds, Delivered, RetryScheduled, OutcomeNotRecorded,
                FailedAttempt, WorkerGoes, outsideVars
  <2>3. pending' = pending \/ (Delivered /\ pending' = pending \ {worker.msg})
    BY <1>3, WorkerLeavesRows DEF Delivered, DeleteRow
  <2> QED
    BY <2>1, <2>2, <2>3, PromiseStutter
<1>4. CASE CloudNext
  <2>1. CASE CloudStores
    <3>1. worker.msg \in pending
      BY <2>1, SentTyped, GatewayAssumption
         DEF CloudStores, GatewayInv, ProcessTypeOK, HandoffInv, RowIsHeld
    <3> QED
      BY <1>0, <2>1, <3>1, PromiseDelivers DEF CloudStores, CloudResponds, queueVars
  <2>2. CASE CloudFindsDuplicate \/ CloudRefuses
    BY <2>2, PromiseStutter
       DEF CloudFindsDuplicate, CloudRefuses, CloudResponds, queueVars
  <2>3. ASSUME NEW m \in Messages, LateArrives(m)
        PROVE  [Promise!PromiseNext]_(Promise!promiseVars)
    <3>1. m \in pending \cup stored
      BY <2>3 DEF LateArrives, GatewayInv, HandoffInv
    <3>2. UNCHANGED <<pending, acked>> /\ (stored' = stored \/ stored' = stored \cup {m})
      BY <2>3 DEF LateArrives, queueVars
    <3> QED
      BY <1>0, <3>1, <3>2, PromiseDelivers, PromiseStutter
  <2> QED
    BY <1>4, <2>1, <2>2, <2>3 DEF CloudNext
<1> QED
  BY <1>1, <1>2, <1>3, <1>4 DEF Next

\* The gateway implements StoreAndForward: every step of it queues, delivers or
\* acknowledges a reading as the promise allows, or is invisible to clients.
THEOREM GatewayKeepsPromise == Spec => KeepsPromise
<1>1. GatewayInv /\ [Next]_vars => [Promise!PromiseNext]_(Promise!promiseVars)
  BY PromiseStep
<1> QED
  BY <1>1, PromiseStartsNew, GatewayInvariant, PTL DEF Spec, KeepsPromise, Promise!PromiseSpec

------------------------------------------------------------------------------
(* the counters of the requests *)

RequestCounters == {"received", "accepted", "rejected"}

Busy == {c \in Callers : request[c] # NoRequest}

LEMMA RequestsQuiet ==
    ASSUME ProcessTypeOK, RequestsAccounted, UNCHANGED request,
           \A c \in RequestCounters : metrics'[c] = metrics[c]
    PROVE  RequestsAccounted'
<1>1. \A c \in Callers : request'[c] = request[c]
  OBVIOUS
<1>2. Busy' = Busy
  BY <1>1 DEF Busy
<1> QED
  BY <1>2 DEF RequestsAccounted, RequestCounters, Busy

LEMMA CountsElsewhere ==
    ASSUME ProcessTypeOK, NEW names, Count(names), names \cap RequestCounters = {}
    PROVE  \A c \in RequestCounters : metrics'[c] = metrics[c]
BY DEF Count, RequestCounters, Counters, ProcessTypeOK

LEMMA RequestsStep ==
    ASSUME ProcessTypeOK, RequestsAccounted, [Next]_vars
    PROVE  RequestsAccounted'
<1> USE GatewayAssumption
<1>0. IsFiniteSet(Busy) /\ Cardinality(Busy) \in Nat
  BY FS_Subset, FS_CardinalityType DEF Busy
<1>1. \A n \in RequestCounters : n \in Counters /\ metrics[n] \in 0..MetricCap
  BY DEF ProcessTypeOK, RequestCounters, Counters
<1>2. CASE Crash
  <2>1. Busy' = {}
    BY <1>2 DEF Crash, Busy
  <2>2. \A n \in RequestCounters : metrics'[n] = 0
    BY <1>2, <1>1 DEF Crash, NoMetrics
  <2>3. Cardinality(Busy') = 0
    BY <2>1, FS_EmptySet
  <2> QED
    BY <2>2, <2>3 DEF RequestsAccounted, RequestCounters, Busy
<1>3. CASE Start \/ UNCHANGED vars
  BY <1>3, RequestsQuiet DEF Start, vars, processVars
<1>4. ASSUME NEW c \in Callers, RequestNext(c)
      PROVE  RequestsAccounted'
  <2>0. request \in [Callers -> Request]
    BY DEF ProcessTypeOK
  <2>1. ASSUME NEW m \in Messages, Receive(c, m)
        PROVE  RequestsAccounted'
    <3>1. request' = [request EXCEPT ![c] = [pc |-> "enqueueing", msg |-> m]]
          /\ request[c] = NoRequest /\ Count({"received"})
      BY <2>1 DEF Receive
    <3>2. [pc |-> "enqueueing", msg |-> m] # NoRequest
      BY DEF NoRequest
    <3>3. Busy' = Busy \cup {c} /\ c \notin Busy
      BY <2>0, <3>1, <3>2 DEF Busy
    <3>4. Cardinality(Busy') = Cardinality(Busy) + 1
      BY <1>0, <3>3, FS_AddElement
    <3>5. SUFFICES ASSUME RequestCounters \subseteq Counted, metrics'["received"] < MetricCap
                   PROVE  metrics'["received"] = metrics'["accepted"] + metrics'["rejected"]
                                                   + Cardinality(Busy')
      BY DEF RequestsAccounted, RequestCounters, Busy
    <3>6. metrics["received"] < MetricCap
      BY <1>1, <3>1, <3>5 DEF Count, RequestCounters
    <3>7. metrics["received"] = metrics["accepted"] + metrics["rejected"] + Cardinality(Busy)
      BY <3>5, <3>6 DEF RequestsAccounted, RequestCounters, Busy
    <3>8. /\ metrics'["received"] = metrics["received"] + 1
          /\ metrics'["accepted"] = metrics["accepted"]
          /\ metrics'["rejected"] = metrics["rejected"]
      BY <1>1, <3>1, <3>5, <3>6 DEF Count, RequestCounters
    <3> QED
      BY <1>0, <1>1, <3>4, <3>7, <3>8 DEF RequestCounters
  <2>2. CASE EnqueueInserts(c) \/ EnqueueFindsRow(c) \/ EnqueueIsFull(c) \/ EnqueueFails(c)
    <3>1. PICK outcome \in {"inserted", "existing", "rejected"} :
            request' = [request EXCEPT ![c].pc = outcome]
      BY <2>2 DEF EnqueueInserts, EnqueueFindsRow, EnqueueIsFull, EnqueueFails, EnqueueReturns
    <3>2. request[c].pc = "enqueueing" /\ metrics' = metrics
      BY <2>2 DEF EnqueueInserts, EnqueueFindsRow, EnqueueIsFull, EnqueueFails, EnqueueReturns
    <3>3. request[c] = [pc |-> request[c].pc, msg |-> request[c].msg]
      BY <2>0, <3>2 DEF Request, NoRequest
    <3>4. request'[c].pc = outcome /\ \A d \in Callers \ {c} : request'[d] = request[d]
      BY <2>0, <3>1, <3>3
    <3>5. request[c] # NoRequest /\ request'[c] # NoRequest
      BY <3>2, <3>4, NoRequestFields
    <3>6. Busy' = Busy
      BY <3>4, <3>5 DEF Busy
    <3> QED
      BY <3>2, <3>6 DEF RequestsAccounted, Busy
  <2>3. ASSUME NEW n \in {"accepted", "rejected"}, Count({n}),
               request[c] # NoRequest, request' = [request EXCEPT ![c] = NoRequest]
        PROVE  RequestsAccounted'
    <3>1. Busy' = Busy \ {c} /\ c \in Busy
      BY <2>0, <2>3 DEF Busy
    <3>2. Cardinality(Busy') = Cardinality(Busy) - 1
      BY <1>0, <3>1, FS_RemoveElement
    <3>3. SUFFICES ASSUME RequestCounters \subseteq Counted, metrics'["received"] < MetricCap
                   PROVE  metrics'["received"] = metrics'["accepted"] + metrics'["rejected"]
                                                   + Cardinality(Busy')
      BY DEF RequestsAccounted, RequestCounters, Busy
    <3>4. metrics'["received"] = metrics["received"]
      BY <1>1, <2>3 DEF Count, RequestCounters
    <3>5. metrics["received"] = metrics["accepted"] + metrics["rejected"] + Cardinality(Busy)
      BY <3>3, <3>4 DEF RequestsAccounted, RequestCounters, Busy
    <3>6. metrics["accepted"] < MetricCap /\ metrics["rejected"] < MetricCap
      BY <1>0, <1>1, <3>3, <3>4, <3>5 DEF RequestCounters
    <3>7. /\ metrics'["accepted"] = IF n = "accepted" THEN metrics["accepted"] + 1
                                    ELSE metrics["accepted"]
          /\ metrics'["rejected"] = IF n = "rejected" THEN metrics["rejected"] + 1
                                    ELSE metrics["rejected"]
      BY <1>1, <2>3, <3>3, <3>6 DEF Count, RequestCounters
    <3> QED
      BY <1>0, <1>1, <2>3, <3>2, <3>4, <3>5, <3>7 DEF RequestCounters
  <2>4. CASE Accept(c) \/ Reject(c)
    BY <2>3, <2>4, NoRequestFields DEF Accept, Reject
  <2> QED
    BY <1>4, <2>1, <2>2, <2>4 DEF RequestNext
<1>5. CASE WorkerNext
  <2>1. request' = request
    BY <1>5 DEF WorkerNext, ClearAndRead, ReadFails, ReadingRaises, NothingDue, TakeOldest,
                Woken, PollExpires, PostEnvelope, KeyRejected, KeyFetchFails, KeyNotRsa,
                PostFails, PostSucceeds, Delivered, RetryScheduled, OutcomeNotRecorded,
                FailedAttempt, WorkerGoes
  <2>2. CASE metrics' = metrics
    BY <2>1, <2>2, RequestsQuiet
  <2>3. ASSUME NEW names \in SUBSET {"successes", "duplicates", "failures", "key_failures"},
               Count(names)
        PROVE  RequestsAccounted'
    <3>1. names \cap RequestCounters = {}
      BY <2>3 DEF RequestCounters
    <3> QED
      BY <2>1, <2>3, <3>1, CountsElsewhere, RequestsQuiet
  <2>4. CASE KeyRejected \/ KeyFetchFails \/ PostFails
    BY <2>3, <2>4 DEF KeyRejected, KeyFetchFails, PostFails, FailedAttempt
  <2>5. CASE Delivered
    <3>1. {"successes"} \cup {c \in {"duplicates"} : worker.http = "conflict"}
            \in SUBSET {"successes", "duplicates", "failures", "key_failures"}
      OBVIOUS
    <3> QED
      BY <2>3, <2>5, <3>1 DEF Delivered
  <2> QED
    BY <1>5, <2>2, <2>4, <2>5
       DEF WorkerNext, ClearAndRead, ReadFails, ReadingRaises, NothingDue, TakeOldest,
           Woken, PollExpires, PostEnvelope, KeyNotRsa, PostSucceeds, RetryScheduled,
           OutcomeNotRecorded, WorkerGoes
<1>6. CASE CloudNext \/ RowsBecomeDue
  BY <1>6, RequestsQuiet
     DEF CloudNext, CloudStores, CloudFindsDuplicate, CloudRefuses, CloudResponds, LateArrives,
         RowsBecomeDue, processVars
<1> QED
  BY <1>2, <1>3, <1>4, <1>5, <1>6 DEF Next

\* Whatever handlers overlap with, the counter of requests is the sum of the
\* counters of their answers and of the handlers still at work.
THEOREM RequestsAddUp == Spec => []RequestsAccounted
<1>1. Init => RequestsAccounted
  <2> SUFFICES ASSUME Init PROVE RequestsAccounted
    OBVIOUS
  <2>1. {c \in Callers : request[c] # NoRequest} = {}
    BY DEF Init
  <2>2. \A n \in RequestCounters : metrics[n] = 0
    BY DEF Init, NoMetrics, RequestCounters, Counters
  <2> QED
    BY <2>1, <2>2, FS_EmptySet DEF RequestsAccounted, RequestCounters
<1> QED
  BY <1>1, RequestsStep, ProcessTyped, PTL DEF Spec

==============================================================================
