------------------------ MODULE GatewayOutboxProofs ------------------------
(***************************************************************************)
(* Theorems about GatewayOutbox, for any number of readings and request     *)
(* threads, any capacity and any backoff settings.                          *)
(***************************************************************************)
EXTENDS GatewayOutbox, FiniteSetTheorems, TLAPS

------------------------------------------------------------------------------
(* types *)

LEMMA DelayBounds ==
    ASSUME NEW n \in Nat
    PROVE  BackoffDelay(n) \in Nat \ {0} /\ BackoffDelay(n) <= RetryMax
<1> DEFINE doublings == IF n < MaxDoublings THEN n ELSE MaxDoublings
<1>1. doublings \in 0..MaxDoublings
  BY OutboxAssumption
<1>2. 2^doublings \in Nat \ {0}
  BY <1>1, PowersAssumption
<1>3. ASSUME NEW a \in Nat \ {0}, NEW b \in Nat \ {0}
      PROVE  a * b \in Nat \ {0}
  BY <1>3
<1>4. RetryInitial * 2^doublings \in Nat \ {0}
  BY <1>2, <1>3, OutboxAssumption
<1> QED
  BY <1>4, OutboxAssumption DEF BackoffDelay

LEMMA CallFields ==
    ASSUME NEW x \in Call
    PROVE  /\ x.pc \in {"idle", "stamped", "inserting", "declining"}
           /\ x.pc # "idle" => /\ x.msg \in Messages /\ x.now \in Nat
                               /\ x = [pc |-> x.pc, msg |-> x.msg, now |-> x.now]
           /\ x.pc = "idle" => x = NoCall
BY DEF Call, NoCall

LEMMA WorkerFields ==
    ASSUME worker \in WorkerState
    PROVE  /\ worker.pc \in {"down", "idle", "selecting", "holding", "updating"}
           /\ worker.pc = "selecting" => worker.now \in Nat
           /\ worker.pc \in {"holding", "updating"} => worker.msg \in Messages
           /\ worker.pc = "updating" => worker.attempts \in Nat /\ worker.next \in Nat
BY DEF WorkerState

LEMMA RowFields ==
    ASSUME NEW x \in Row
    PROVE  /\ x.created \in Nat /\ x.follows \subseteq Messages
           /\ x.attempts \in Nat /\ x.next \in Nat
BY DEF Row

\* The inductive invariant: a row in the worker's hands could be touched by an
\* INSERT only if two threads were in a transaction at once.
OutboxInv == TypeOK /\ LockHasOwner /\ HeldRowIsStored

LEMMA OutboxInit == Init => OutboxInv
BY OutboxAssumption
   DEF Init, OutboxInv, TypeOK, LockHasOwner, HeldRowIsStored, Call, NoCall, WorkerState

LEMMA LockStep == TypeOK /\ LockHasOwner /\ [Next]_vars => LockHasOwner'
<1> SUFFICES ASSUME TypeOK, LockHasOwner, [Next]_vars
             PROVE  LockHasOwner'
  OBVIOUS
<1> USE OutboxAssumption
<1>1. ASSUME NEW c \in Callers, NEW m \in Messages, EnqueueStamps(c, m)
      PROVE  LockHasOwner'
  BY <1>1 DEF EnqueueStamps, LockHasOwner, TypeOK, NoCall
<1>2. ASSUME NEW c \in Callers, EnqueueBegins(c)
      PROVE  LockHasOwner'
  <2>1. /\ writer = Nobody /\ writer' = c /\ worker' = worker
        /\ \A d \in Callers \ {c} : call'[d] = call[d]
    BY <1>2 DEF EnqueueBegins, TypeOK
  <2>2. call'[c].pc \in {"inserting", "declining"}
    BY <1>2, CallFields DEF EnqueueBegins, TypeOK, Verdict
  <2> QED
    BY <2>1, <2>2 DEF LockHasOwner
<1>3. ASSUME NEW c \in Callers, EnqueueInserts(c) \/ EnqueueDeclines(c) \/ EnqueueFails(c)
      PROVE  LockHasOwner'
  BY <1>3 DEF EnqueueInserts, EnqueueDeclines, EnqueueFails, LockHasOwner, TypeOK, NoCall
<1>4. ASSUME NextDueReadsClock \/ NextDueSelects \/ NextDueReturnsNothing \/ MarkDelivered
      PROVE  LockHasOwner'
  BY <1>4 DEF NextDueReadsClock, NextDueSelects, NextDueReturnsNothing, MarkDelivered,
              LockHasOwner
<1>5. ASSUME RetryBegins \/ RetryCommits \/ WorkerCallFails
      PROVE  LockHasOwner'
  BY <1>5 DEF RetryBegins, RetryCommits, WorkerCallFails, LockHasOwner
<1>6. ASSUME Crash \/ Initialize \/ Tick \/ ClockStepsBack
      PROVE  LockHasOwner'
  BY <1>6 DEF Crash, Initialize, Tick, ClockStepsBack, LockHasOwner, NoCall
<1>7. CASE UNCHANGED vars
  BY <1>7 DEF vars, LockHasOwner
<1> QED
  BY <1>1, <1>2, <1>3, <1>4, <1>5, <1>6, <1>7 DEF Next

LEMMA OutboxStep == OutboxInv /\ [Next]_vars => OutboxInv'
<1> SUFFICES ASSUME TypeOK, LockHasOwner, HeldRowIsStored, [Next]_vars
             PROVE  TypeOK' /\ HeldRowIsStored'
  BY LockStep DEF OutboxInv
<1> USE OutboxAssumption
<1>1. ASSUME NEW c \in Callers, NEW m \in Messages, EnqueueStamps(c, m)
      PROVE  TypeOK' /\ HeldRowIsStored'
  <2>1. [pc |-> "stamped", msg |-> m, now |-> clock] \in Call
    BY DEF TypeOK, Call
  <2> QED
    BY <1>1, <2>1 DEF EnqueueStamps, TypeOK, HeldRowIsStored
<1>2. ASSUME NEW c \in Callers, EnqueueBegins(c)
      PROVE  TypeOK' /\ HeldRowIsStored'
  <2>1. /\ call[c] \in Call /\ call[c].pc = "stamped"
        /\ Verdict(call[c].msg) \in {"inserting", "declining"}
    BY <1>2 DEF EnqueueBegins, TypeOK, Verdict
  <2>2. call' = [call EXCEPT ![c].pc = Verdict(call[c].msg)]
    BY <1>2 DEF EnqueueBegins
  <2>3. [call[c] EXCEPT !.pc = Verdict(call[c].msg)] \in Call
    BY <2>1 DEF Call, NoCall
  <2>4. call' \in [Callers -> Call]
    BY <2>2, <2>3 DEF TypeOK
  <2> QED
    BY <1>2, <2>4 DEF EnqueueBegins, TypeOK, HeldRowIsStored
<1>3. ASSUME NEW c \in Callers, EnqueueInserts(c)
      PROVE  TypeOK' /\ HeldRowIsStored'
  <2> DEFINE msg == call[c].msg
             new == [created |-> call[c].now, follows |-> DOMAIN rows,
                     attempts |-> 0, next |-> call[c].now]
  <2>1. msg \in Messages /\ new \in Row
    BY <1>3, CallFields DEF EnqueueInserts, TypeOK, Row
  <2>2. rows' = [m \in DOMAIN rows \cup {msg} |-> IF m = msg THEN new ELSE rows[m]]
    BY <1>3 DEF EnqueueInserts
  <2>3. DOMAIN rows' \subseteq Messages /\ rows' \in [DOMAIN rows' -> Row]
    BY <2>1, <2>2 DEF TypeOK
  <2>4. call' \in [Callers -> Call]
    BY <1>3 DEF EnqueueInserts, TypeOK, Call
  <2>5. TypeOK'
    BY <1>3, <2>3, <2>4 DEF EnqueueInserts, TypeOK
  <2>6. worker' = worker /\ worker.pc # "updating"
    BY <1>3 DEF EnqueueInserts, LockHasOwner
  <2> QED
    BY <2>5, <2>6, <2>2 DEF HeldRowIsStored
<1>4. ASSUME NEW c \in Callers, EnqueueDeclines(c) \/ EnqueueFails(c)
      PROVE  TypeOK' /\ HeldRowIsStored'
  BY <1>4 DEF EnqueueDeclines, EnqueueFails, TypeOK, HeldRowIsStored, Call
<1>5. ASSUME NextDueReadsClock \/ NextDueSelects \/ NextDueReturnsNothing
      PROVE  TypeOK' /\ HeldRowIsStored'
  BY <1>5 DEF NextDueReadsClock, NextDueSelects, NextDueReturnsNothing, DueAt, TypeOK,
              HeldRowIsStored, WorkerState
<1>6. ASSUME MarkDelivered
      PROVE  TypeOK' /\ HeldRowIsStored'
  <2>1. rows' = [m \in DOMAIN rows \ {worker.msg} |->
                   [rows[m] EXCEPT !.follows = @ \ {worker.msg}]]
    BY <1>6 DEF MarkDelivered
  <2>2. \A m \in DOMAIN rows : [rows[m] EXCEPT !.follows = @ \ {worker.msg}] \in Row
    BY DEF TypeOK, Row
  <2>3. DOMAIN rows' \subseteq Messages /\ rows' \in [DOMAIN rows' -> Row]
    BY <2>1, <2>2 DEF TypeOK
  <2> QED
    BY <1>6, <2>3 DEF MarkDelivered, TypeOK, HeldRowIsStored, WorkerState
<1>7. ASSUME RetryBegins
      PROVE  TypeOK' /\ HeldRowIsStored'
  <2>1. /\ worker.pc = "holding" /\ worker.msg \in DOMAIN rows /\ worker.msg \in Messages
        /\ rows[worker.msg].attempts \in Nat
    BY <1>7, WorkerFields DEF RetryBegins, TypeOK, HeldRowIsStored, Row
  <2>2. BackoffDelay(rows[worker.msg].attempts) \in Nat
    BY <2>1, DelayBounds
  <2>3. worker' = [pc |-> "updating", msg |-> worker.msg,
                   attempts |-> rows[worker.msg].attempts + 1,
                   next |-> clock + BackoffDelay(rows[worker.msg].attempts)]
    BY <1>7 DEF RetryBegins
  <2>4. worker' \in WorkerState
    BY <2>1, <2>2, <2>3 DEF WorkerState, TypeOK
  <2>5. TypeOK'
    BY <1>7, <2>4 DEF RetryBegins, TypeOK
  <2>6. rows' = rows
    BY <1>7 DEF RetryBegins
  <2> QED
    BY <2>1, <2>3, <2>5, <2>6 DEF HeldRowIsStored
<1>8. ASSUME RetryCommits
      PROVE  TypeOK' /\ HeldRowIsStored'
  <2>1. /\ worker.msg \in DOMAIN rows
        /\ worker.attempts \in Nat /\ worker.next \in Nat
    BY <1>8, WorkerFields DEF RetryCommits, TypeOK, HeldRowIsStored
  <2>2. rows' = [rows EXCEPT ![worker.msg].attempts = worker.attempts,
                             ![worker.msg].next = worker.next]
    BY <1>8 DEF RetryCommits
  <2>3. rows' \in [DOMAIN rows -> Row]
    BY <2>1, <2>2 DEF TypeOK, Row
  <2> QED
    BY <1>8, <2>3 DEF RetryCommits, TypeOK, HeldRowIsStored, WorkerState
<1>9. ASSUME WorkerCallFails \/ Crash \/ Tick \/ ClockStepsBack
      PROVE  TypeOK' /\ HeldRowIsStored'
  BY <1>9 DEF WorkerCallFails, Crash, Tick, ClockStepsBack, TypeOK, HeldRowIsStored,
              WorkerState, Call
<1>10. ASSUME Initialize
       PROVE  TypeOK' /\ HeldRowIsStored'
  <2>1. rows' = [m \in DOMAIN rows |->
                   [rows[m] EXCEPT !.next = IF @ > clock THEN clock ELSE @]]
    BY <1>10 DEF Initialize
  <2>2. \A m \in DOMAIN rows :
          [rows[m] EXCEPT !.next = IF @ > clock THEN clock ELSE @] \in Row
    BY DEF TypeOK, Row
  <2>3. rows' \in [DOMAIN rows -> Row]
    BY <2>1, <2>2
  <2> QED
    BY <1>10, <2>3 DEF Initialize, TypeOK, HeldRowIsStored, WorkerState
<1>11. CASE UNCHANGED vars
  BY <1>11 DEF vars, TypeOK, HeldRowIsStored
<1> QED
  BY <1>1, <1>2, <1>3, <1>4, <1>5, <1>6, <1>7, <1>8, <1>9, <1>10, <1>11 DEF Next

\* The tables, the lock and the calls keep their types.
THEOREM OutboxTypeCorrect == Spec => []TypeOK
<1>1. OutboxInv => TypeOK
  BY DEF OutboxInv
<1> QED
  BY OutboxInit, OutboxStep, <1>1, PTL DEF Spec

\* The row in the worker's hands is neither deleted nor updated by any one else.
THEOREM HeldRowStays == Spec => []HeldRowIsStored
<1>1. OutboxInv => HeldRowIsStored
  BY DEF OutboxInv
<1> QED
  BY OutboxInit, OutboxStep, <1>1, PTL DEF Spec

\* Write transactions exclude each other and none outlives its call, whichever
\* way that ends.
THEOREM LockNeverLeaks == Spec => []LockHasOwner
<1>1. OutboxInv => LockHasOwner
  BY DEF OutboxInv
<1> QED
  BY OutboxInit, OutboxStep, <1>1, PTL DEF Spec

------------------------------------------------------------------------------
(* capacity *)

LEMMA FiniteRows ==
    ASSUME TypeOK
    PROVE  IsFiniteSet(DOMAIN rows) /\ Cardinality(DOMAIN rows) \in Nat
BY FS_Subset, FS_CardinalityType, OutboxAssumption DEF TypeOK

\* Neither the capacity nor a verdict changes while the table's keys do not,
\* and no call comes to be inserting.
LEMMA SameKeys ==
    ASSUME DOMAIN rows' = DOMAIN rows, Capacity, VerdictHolds,
           \A c \in Callers : call'[c].pc = "inserting" => call'[c] = call[c]
    PROVE  Capacity' /\ VerdictHolds'
BY DEF Capacity, VerdictHolds

LEMMA CapacityStep ==
    OutboxInv /\ Capacity /\ VerdictHolds /\ [Next]_vars => Capacity' /\ VerdictHolds'
<1> SUFFICES ASSUME TypeOK, LockHasOwner, Capacity, VerdictHolds, [Next]_vars
             PROVE  Capacity' /\ VerdictHolds'
  BY DEF OutboxInv
<1> USE OutboxAssumption
<1>1. ASSUME NEW c \in Callers, NEW m \in Messages, EnqueueStamps(c, m)
      PROVE  Capacity' /\ VerdictHolds'
  BY <1>1, SameKeys DEF EnqueueStamps, TypeOK
<1>2. ASSUME NEW c \in Callers, EnqueueBegins(c)
      PROVE  Capacity' /\ VerdictHolds'
  <2>1. rows' = rows /\ call'[c].pc = Verdict(call[c].msg) /\ call'[c].msg = call[c].msg
    BY <1>2 DEF EnqueueBegins, TypeOK, Call, NoCall
  <2>2. \A d \in Callers \ {c} : call'[d] = call[d]
    BY <1>2 DEF EnqueueBegins, TypeOK
  <2>3. Verdict(call[c].msg) = "inserting" =>
          call[c].msg \notin DOMAIN rows /\ Cardinality(DOMAIN rows) < MaxPending
    BY FiniteRows DEF Verdict
  <2> QED
    BY <2>1, <2>2, <2>3 DEF Capacity, VerdictHolds
<1>3. ASSUME NEW c \in Callers, EnqueueInserts(c)
      PROVE  Capacity' /\ VerdictHolds'
  <2>1. /\ DOMAIN rows' = DOMAIN rows \cup {call[c].msg}
        /\ \A d \in Callers : call'[d] = IF d = c THEN NoCall ELSE call[d]
        /\ writer = c
    BY <1>3 DEF EnqueueInserts, TypeOK, LockHasOwner
  <2>2. \A d \in Callers : call'[d].pc # "inserting"
    BY <2>1 DEF LockHasOwner, NoCall
  <2>3. call[c].msg \notin DOMAIN rows /\ Cardinality(DOMAIN rows) < MaxPending
    BY <1>3 DEF EnqueueInserts, VerdictHolds
  <2>4. Cardinality(DOMAIN rows \cup {call[c].msg}) = Cardinality(DOMAIN rows) + 1
    BY <2>3, FiniteRows, FS_AddElement
  <2> QED
    BY <2>1, <2>2, <2>3, <2>4, FiniteRows DEF Capacity, VerdictHolds
<1>4. ASSUME NEW c \in Callers, EnqueueDeclines(c) \/ EnqueueFails(c)
      PROVE  Capacity' /\ VerdictHolds'
  BY <1>4, SameKeys DEF EnqueueDeclines, EnqueueFails, TypeOK, NoCall
<1>5. ASSUME MarkDelivered
      PROVE  Capacity' /\ VerdictHolds'
  <2>1. DOMAIN rows' = DOMAIN rows \ {worker.msg} /\ call' = call /\ writer = Nobody
    BY <1>5 DEF MarkDelivered
  <2>2. Cardinality(DOMAIN rows \ {worker.msg}) <= Cardinality(DOMAIN rows)
    BY FiniteRows, FS_Subset
  <2>3. \A c \in Callers : call'[c].pc # "inserting"
    BY <2>1 DEF LockHasOwner
  <2>4. IsFiniteSet(DOMAIN rows \ {worker.msg})
    BY FiniteRows, FS_Subset
  <2>5. Cardinality(DOMAIN rows \ {worker.msg}) \in Nat
    BY <2>4, FS_CardinalityType
  <2> QED
    BY <2>1, <2>2, <2>3, <2>5, FiniteRows DEF Capacity, VerdictHolds
<1>6. ASSUME \/ NextDueReadsClock \/ NextDueSelects \/ NextDueReturnsNothing \/ RetryBegins
             \/ WorkerCallFails \/ Tick \/ ClockStepsBack \/ Crash
      PROVE  Capacity' /\ VerdictHolds'
  BY <1>6, SameKeys DEF NextDueReadsClock, NextDueSelects, NextDueReturnsNothing, RetryBegins,
     WorkerCallFails, Tick, ClockStepsBack, Crash, NoCall
<1>7. ASSUME RetryCommits \/ Initialize
      PROVE  Capacity' /\ VerdictHolds'
  <2>1. DOMAIN rows' = DOMAIN rows /\ call' = call
    BY <1>7 DEF RetryCommits, Initialize, TypeOK
  <2> QED
    BY <2>1, SameKeys
<1>8. CASE UNCHANGED vars
  BY <1>8, SameKeys DEF vars
<1> QED
  BY <1>1, <1>2, <1>3, <1>4, <1>5, <1>6, <1>7, <1>8 DEF Next

LEMMA CapacityInvariant == Spec => [](Capacity /\ VerdictHolds)
<1>1. Init => Capacity /\ VerdictHolds
  BY OutboxAssumption, FS_EmptySet DEF Init, Capacity, VerdictHolds, NoCall
<1> QED
  BY <1>1, OutboxInit, OutboxStep, CapacityStep, PTL DEF Spec

\* However many requests run at once, the outbox holds at most MaxPending rows.
THEOREM CapacityKept == Spec => []Capacity
BY CapacityInvariant, PTL

\* An INSERT meets the state its SELECTs have seen, whoever else waits for the
\* write lock.
THEOREM VerdictsHold == Spec => []VerdictHolds
BY CapacityInvariant, PTL

------------------------------------------------------------------------------
(* the retry counter *)

RetriesFinite == IsFiniteSet(AttemptsOnRecord)

\* Steps that record no failed attempt leave at most the pairs there were.
LEMMA NoNewAttempt ==
    ASSUME RetriesFinite, RetriesAccounted, totalRetries' = totalRetries, totalRetries \in Nat,
           \A m \in DOMAIN rows' :
             \/ rows'[m].attempts = 0
             \/ m \in DOMAIN rows /\ rows'[m].attempts = rows[m].attempts
    PROVE  RetriesFinite' /\ RetriesAccounted'
<1>1. AttemptsOnRecord' \subseteq AttemptsOnRecord
  BY DEF AttemptsOnRecord
<1>2. /\ IsFiniteSet(AttemptsOnRecord')
      /\ Cardinality(AttemptsOnRecord') <= Cardinality(AttemptsOnRecord)
  BY <1>1, FS_Subset DEF RetriesFinite
<1>3. Cardinality(AttemptsOnRecord) \in Nat /\ Cardinality(AttemptsOnRecord') \in Nat
  BY <1>2, FS_CardinalityType DEF RetriesFinite
<1> QED
  BY <1>2, <1>3 DEF RetriesFinite, RetriesAccounted

LEMMA RetriesStep ==
    ASSUME OutboxInv, VerdictHolds, RetriesFinite, RetriesAccounted, [Next]_vars
    PROVE  RetriesFinite' /\ RetriesAccounted'
<1>0. TypeOK /\ HeldRowIsStored /\ totalRetries \in Nat /\ \A m \in DOMAIN rows : rows[m] \in Row
  BY DEF OutboxInv, TypeOK
<1>1. ASSUME rows' = rows, totalRetries' = totalRetries
      PROVE  RetriesFinite' /\ RetriesAccounted'
  BY <1>0, <1>1, NoNewAttempt
<1>2. ASSUME NEW c \in Callers, EnqueueInserts(c)
      PROVE  RetriesFinite' /\ RetriesAccounted'
  <2>1. /\ totalRetries' = totalRetries
        /\ \A m \in DOMAIN rows' :
             \/ rows'[m].attempts = 0
             \/ m \in DOMAIN rows /\ rows'[m].attempts = rows[m].attempts
    BY <1>2 DEF EnqueueInserts
  <2> QED
    BY <1>0, <2>1, NoNewAttempt
<1>3. ASSUME MarkDelivered \/ Initialize
      PROVE  RetriesFinite' /\ RetriesAccounted'
  <2>1. totalRetries' = totalRetries /\ DOMAIN rows' \subseteq DOMAIN rows
    BY <1>3 DEF MarkDelivered, Initialize
  <2>2. ASSUME NEW m \in DOMAIN rows'
        PROVE  rows'[m].attempts = rows[m].attempts
    <3>1. rows[m] \in Row
      BY <1>0, <2>1
    <3>2. CASE MarkDelivered
      BY <3>1, <3>2 DEF MarkDelivered, Row
    <3>3. CASE Initialize
      BY <3>1, <3>3 DEF Initialize, Row
    <3> QED
      BY <1>3, <3>2, <3>3
  <2> QED
    BY <1>0, <2>1, <2>2, NoNewAttempt
<1>4. ASSUME RetryCommits
      PROVE  RetriesFinite' /\ RetriesAccounted'
  \* The new pair is the attempt that the transaction has read as the next.
  <2> DEFINE pair == <<worker.msg, worker.attempts>>
  <2>1. /\ worker.msg \in DOMAIN rows /\ worker.attempts = rows[worker.msg].attempts + 1
        /\ rows[worker.msg].attempts \in Nat
        /\ totalRetries' = totalRetries + 1
    BY <1>0, <1>4 DEF RetryCommits, HeldRowIsStored, Row
  <2>2. /\ DOMAIN rows' = DOMAIN rows
        /\ rows'[worker.msg].attempts = worker.attempts
        /\ \A m \in DOMAIN rows \ {worker.msg} : rows'[m] = rows[m]
    BY <1>0, <1>4, <2>1 DEF RetryCommits, TypeOK, Row
  <2>3. 1..worker.attempts = (1..rows[worker.msg].attempts) \cup {worker.attempts}
    BY <2>1
  <2>4. AttemptsOnRecord' \subseteq AttemptsOnRecord \cup {pair}
    BY <2>1, <2>2, <2>3 DEF AttemptsOnRecord
  <2>5. /\ IsFiniteSet(AttemptsOnRecord \cup {pair})
        /\ Cardinality(AttemptsOnRecord \cup {pair}) <= Cardinality(AttemptsOnRecord) + 1
    <3> HIDE DEF pair
    <3>1. Cardinality(AttemptsOnRecord) \in Nat
      BY FS_CardinalityType DEF RetriesFinite
    <3>2. /\ IsFiniteSet(AttemptsOnRecord \cup {pair})
          /\ \/ Cardinality(AttemptsOnRecord \cup {pair}) = Cardinality(AttemptsOnRecord)
             \/ Cardinality(AttemptsOnRecord \cup {pair}) = Cardinality(AttemptsOnRecord) + 1
      BY FS_AddElement DEF RetriesFinite
    <3> QED
      BY <3>1, <3>2
  <2>6. /\ IsFiniteSet(AttemptsOnRecord')
        /\ Cardinality(AttemptsOnRecord') <= Cardinality(AttemptsOnRecord \cup {pair})
    BY <2>4, <2>5, FS_Subset
  <2>7. /\ Cardinality(AttemptsOnRecord) \in Nat
        /\ Cardinality(AttemptsOnRecord \cup {pair}) \in Nat
        /\ Cardinality(AttemptsOnRecord') \in Nat
    BY <2>5, <2>6, FS_CardinalityType DEF RetriesFinite
  <2> QED
    BY <1>0, <2>1, <2>5, <2>6, <2>7 DEF RetriesFinite, RetriesAccounted
<1> QED
  BY <1>1, <1>2, <1>3, <1>4
     DEF Next, vars, EnqueueStamps, EnqueueBegins, EnqueueDeclines, EnqueueFails,
         NextDueReadsClock, NextDueSelects, NextDueReturnsNothing, RetryBegins,
         WorkerCallFails, Crash, Tick, ClockStepsBack

\* The retry total is never less than the failed attempts of the rows in the
\* table, for any number of rows, crashes and errors: a delivery takes pairs
\* away, a restart keeps them, and only the transaction that counts adds one.
THEOREM RetriesAddUp == Spec => []RetriesAccounted
<1>1. Init => RetriesFinite /\ RetriesAccounted
  <2>1. Init => AttemptsOnRecord = {} /\ totalRetries = 0
    BY DEF Init, AttemptsOnRecord
  <2> QED
    BY <2>1, FS_EmptySet DEF RetriesFinite, RetriesAccounted
<1>2. OutboxInv /\ VerdictHolds /\ RetriesFinite /\ RetriesAccounted /\ [Next]_vars
        => RetriesFinite' /\ RetriesAccounted'
  BY RetriesStep
<1> QED
  BY <1>1, <1>2, OutboxInit, OutboxStep, CapacityInvariant, PTL DEF Spec

------------------------------------------------------------------------------
(* the backoff schedule *)

LEMMA DelayAfter ==
    ASSUME NEW r \in Row, r.attempts # 0
    PROVE  r.attempts - 1 \in Nat /\ BackoffDelay(r.attempts - 1) \in Nat
BY DelayBounds DEF Row

\* Stamps lie in the past, and a retry about to be committed is on schedule.
ScheduleInv ==
    /\ WaitFollowsSchedule
    /\ \A c \in Callers : call[c].pc # "idle" => call[c].now <= clock
    /\ worker.pc = "updating" =>
         /\ worker.attempts # 0
         /\ worker.next <= clock + BackoffDelay(worker.attempts - 1)

\* Time passing, or a row becoming due, breaks no schedule.
LEMMA LaterClock ==
    ASSUME TypeOK, ScheduleInv, clock' \in Nat, clock <= clock', rows' = rows,
           call' = call, worker' = worker
    PROVE  ScheduleInv'
<1>1. ASSUME NEW m \in DOMAIN rows
      PROVE  rows[m].next <= clock' + (IF rows[m].attempts = 0 THEN 0
                                       ELSE BackoffDelay(rows[m].attempts - 1))
  <2>1. rows[m] \in Row /\ rows[m].next \in Nat
    BY <1>1 DEF TypeOK, Row
  <2> QED
    BY <1>1, <2>1, DelayAfter DEF ScheduleInv, WaitFollowsSchedule, TypeOK
<1>2. worker.pc = "updating" => worker.next <= clock' + BackoffDelay(worker.attempts - 1)
  <2> SUFFICES ASSUME worker.pc = "updating"
               PROVE  worker.next <= clock' + BackoffDelay(worker.attempts - 1)
    OBVIOUS
  <2>1. worker.attempts \in Nat /\ worker.next \in Nat /\ worker.attempts # 0
    BY WorkerFields DEF TypeOK, ScheduleInv
  <2>2. BackoffDelay(worker.attempts - 1) \in Nat
    BY <2>1, DelayBounds
  <2> QED
    BY <2>1, <2>2 DEF ScheduleInv, TypeOK
<1>3. ASSUME NEW c \in Callers, call[c].pc # "idle"
      PROVE  call[c].now <= clock'
  BY <1>3, CallFields DEF ScheduleInv, TypeOK
<1> QED
  BY <1>1, <1>2, <1>3 DEF ScheduleInv, WaitFollowsSchedule

\* The rows of the next state that are on schedule because they are old rows.
LEMMA SameRows ==
    ASSUME WaitFollowsSchedule, clock' = clock, DOMAIN rows' \subseteq DOMAIN rows,
           \A m \in DOMAIN rows' : /\ rows'[m].attempts = rows[m].attempts
                                  /\ rows'[m].next = rows[m].next
    PROVE  WaitFollowsSchedule'
BY DEF WaitFollowsSchedule, BackoffDelay

LEMMA ScheduleStep ==
    ASSUME ~ClockMayStepBack, OutboxInv, ScheduleInv, [Next]_vars
    PROVE  ScheduleInv'
<1> USE OutboxAssumption
<1>0. TypeOK /\ LockHasOwner /\ HeldRowIsStored
  BY DEF OutboxInv
<1>1. ASSUME NEW c \in Callers, NEW m \in Messages, EnqueueStamps(c, m)
      PROVE  ScheduleInv'
  <2>1. /\ clock' = clock /\ rows' = rows /\ worker' = worker
        /\ call' = [call EXCEPT ![c] = [pc |-> "stamped", msg |-> m, now |-> clock]]
    BY <1>1 DEF EnqueueStamps
  <2>2. \A d \in Callers : call'[d].pc # "idle" => call'[d].now <= clock'
    BY <2>1, <1>0 DEF TypeOK, ScheduleInv
  <2> QED
    BY <2>1, <2>2, SameRows DEF ScheduleInv, BackoffDelay
<1>2. ASSUME NEW c \in Callers, EnqueueBegins(c)
      PROVE  ScheduleInv'
  <2>1. /\ clock' = clock /\ rows' = rows /\ worker' = worker
        /\ call[c].pc = "stamped"
        /\ call' = [call EXCEPT ![c] = [call[c] EXCEPT !.pc = Verdict(call[c].msg)]]
    BY <1>2 DEF EnqueueBegins
  <2>2. \A d \in Callers : call'[d].pc # "idle" => call'[d].now <= clock'
    BY <2>1, <1>0 DEF TypeOK, ScheduleInv, Call, NoCall
  <2> QED
    BY <2>1, <2>2, SameRows DEF ScheduleInv, BackoffDelay
<1>3. ASSUME NEW c \in Callers, EnqueueInserts(c)
      PROVE  ScheduleInv'
  <2> DEFINE msg == call[c].msg
             new == [created |-> call[c].now, follows |-> DOMAIN rows,
                     attempts |-> 0, next |-> call[c].now]
  <2>1. /\ clock' = clock /\ worker' = worker /\ call[c].pc = "inserting"
        /\ call' = [call EXCEPT ![c] = NoCall]
        /\ rows' = [m \in DOMAIN rows \cup {msg} |-> IF m = msg THEN new ELSE rows[m]]
    BY <1>3 DEF EnqueueInserts
  <2>2. \A d \in Callers : call'[d].pc # "idle" => call'[d].now <= clock'
    BY <2>1, <1>0 DEF TypeOK, ScheduleInv, NoCall
  <2>3. new.next <= clock /\ new.attempts = 0 /\ call[c].now \in Nat
    BY <2>1, <1>0, CallFields DEF ScheduleInv, TypeOK
  <2>4. WaitFollowsSchedule'
    <3> SUFFICES ASSUME NEW m \in DOMAIN rows'
                 PROVE  (rows'[m].next <= clock' + (IF rows'[m].attempts = 0 THEN 0
                                                    ELSE BackoffDelay(rows'[m].attempts - 1)))
      BY DEF WaitFollowsSchedule, BackoffDelay
    <3>1. CASE m = msg
      BY <3>1, <2>1, <2>3, <1>0 DEF TypeOK
    <3>2. CASE m # msg
      BY <3>2, <2>1, <1>0 DEF ScheduleInv, WaitFollowsSchedule, TypeOK
    <3> QED
      BY <3>1, <3>2
  <2> QED
    BY <2>1, <2>2, <2>4 DEF ScheduleInv, BackoffDelay
<1>4. ASSUME NEW c \in Callers, EnqueueDeclines(c) \/ EnqueueFails(c)
      PROVE  ScheduleInv'
  <2>1. /\ clock' = clock /\ rows' = rows /\ worker' = worker
        /\ call' = [call EXCEPT ![c] = NoCall]
    BY <1>4 DEF EnqueueDeclines, EnqueueFails
  <2>2. \A d \in Callers : call'[d].pc # "idle" => call'[d].now <= clock'
    BY <2>1, <1>0 DEF TypeOK, ScheduleInv, NoCall
  <2> QED
    BY <2>1, <2>2, SameRows DEF ScheduleInv, BackoffDelay
<1>5. ASSUME NextDueReadsClock \/ NextDueSelects \/ NextDueReturnsNothing \/ WorkerCallFails
      PROVE  ScheduleInv'
  <2>1. clock' = clock /\ rows' = rows /\ call' = call /\ worker'.pc # "updating"
    BY <1>5 DEF NextDueReadsClock, NextDueSelects, NextDueReturnsNothing, WorkerCallFails
  <2> QED
    BY <2>1, SameRows DEF ScheduleInv
<1>6. ASSUME MarkDelivered
      PROVE  ScheduleInv'
  <2>1. /\ clock' = clock /\ call' = call /\ worker'.pc # "updating"
        /\ rows' = [m \in DOMAIN rows \ {worker.msg} |->
                      [rows[m] EXCEPT !.follows = @ \ {worker.msg}]]
    BY <1>6 DEF MarkDelivered
  <2>2. \A m \in DOMAIN rows' : /\ rows'[m].attempts = rows[m].attempts
                                /\ rows'[m].next = rows[m].next
    BY <2>1, <1>0 DEF TypeOK, Row
  <2> QED
    BY <2>1, <2>2, SameRows DEF ScheduleInv
<1>7. ASSUME RetryBegins
      PROVE  ScheduleInv'
  <2>1. rows[worker.msg].attempts \in Nat
    BY <1>7, <1>0 DEF RetryBegins, HeldRowIsStored, TypeOK, Row
  <2>2. /\ clock' = clock /\ rows' = rows /\ call' = call
        /\ worker'.attempts = rows[worker.msg].attempts + 1
        /\ worker'.next = clock + BackoffDelay(rows[worker.msg].attempts)
    BY <1>7 DEF RetryBegins
  <2>3. /\ worker'.attempts # 0
        /\ worker'.attempts - 1 = rows[worker.msg].attempts
    BY <2>1, <2>2
  <2>4. BackoffDelay(rows[worker.msg].attempts) \in Nat
    BY <2>1, DelayBounds
  <2>5. worker'.next <= clock' + BackoffDelay(worker'.attempts - 1)
    BY <2>2, <2>3, <2>4, <1>0 DEF TypeOK
  <2> QED
    BY <2>2, <2>3, <2>5, SameRows DEF ScheduleInv, BackoffDelay
<1>8. ASSUME RetryCommits
      PROVE  ScheduleInv'
  <2>1. /\ clock' = clock /\ call' = call /\ worker'.pc # "updating"
        /\ worker.pc = "updating" /\ worker.msg \in DOMAIN rows
        /\ rows' = [rows EXCEPT ![worker.msg].attempts = worker.attempts,
                                ![worker.msg].next = worker.next]
    BY <1>8, <1>0 DEF RetryCommits, HeldRowIsStored
  <2>2. /\ DOMAIN rows' = DOMAIN rows
        /\ \A m \in DOMAIN rows \ {worker.msg} : rows'[m] = rows[m]
        /\ rows'[worker.msg].attempts = worker.attempts
        /\ rows'[worker.msg].next = worker.next
    BY <2>1, <1>0 DEF TypeOK, Row
  <2>3. WaitFollowsSchedule'
    <3> SUFFICES ASSUME NEW m \in DOMAIN rows'
                 PROVE  (rows'[m].next <= clock' + (IF rows'[m].attempts = 0 THEN 0
                                                    ELSE BackoffDelay(rows'[m].attempts - 1)))
      BY DEF WaitFollowsSchedule, BackoffDelay
    <3>1. CASE m = worker.msg
      BY <3>1, <2>1, <2>2 DEF ScheduleInv
    <3>2. CASE m # worker.msg
      BY <3>2, <2>1, <2>2 DEF ScheduleInv, WaitFollowsSchedule
    <3> QED
      BY <3>1, <3>2
  <2> QED
    BY <2>1, <2>3 DEF ScheduleInv
<1>9. ASSUME Crash
      PROVE  ScheduleInv'
  <2>1. /\ clock' = clock /\ rows' = rows /\ worker'.pc # "updating"
        /\ \A c \in Callers : call'[c].pc = "idle"
    BY <1>9 DEF Crash, NoCall
  <2> QED
    BY <2>1, SameRows DEF ScheduleInv
<1>10. ASSUME Initialize
       PROVE  ScheduleInv'
  <2>1. /\ clock' = clock /\ call' = call /\ worker'.pc # "updating"
        /\ rows' = [m \in DOMAIN rows |->
                      [rows[m] EXCEPT !.next = IF @ > clock THEN clock ELSE @]]
    BY <1>10 DEF Initialize
  <2>2. ASSUME NEW m \in DOMAIN rows
        PROVE  /\ rows'[m].next <= rows[m].next
               /\ rows'[m].next \in Nat /\ rows[m].next \in Nat
               /\ rows'[m].attempts = rows[m].attempts /\ rows[m] \in Row
    BY <2>1, <2>2, <1>0 DEF TypeOK, Row
  <2>3. WaitFollowsSchedule'
    <3> SUFFICES ASSUME NEW m \in DOMAIN rows'
                 PROVE  (rows'[m].next <= clock' + (IF rows'[m].attempts = 0 THEN 0
                                                    ELSE BackoffDelay(rows'[m].attempts - 1)))
      BY DEF WaitFollowsSchedule, BackoffDelay
    <3>1. m \in DOMAIN rows
      BY <2>1
    <3>2. rows[m].next <= clock + (IF rows[m].attempts = 0 THEN 0
                                   ELSE BackoffDelay(rows[m].attempts - 1))
      BY <3>1 DEF ScheduleInv, WaitFollowsSchedule
    <3>3. rows[m].attempts # 0 => BackoffDelay(rows[m].attempts - 1) \in Nat
      BY <3>1, <2>2, DelayAfter
    <3>4. clock \in Nat
      BY <1>0 DEF TypeOK
    <3>5. /\ rows'[m].next <= rows[m].next /\ rows'[m].next \in Nat /\ rows[m].next \in Nat
          /\ rows'[m].attempts = rows[m].attempts
      BY <3>1, <2>2
    <3>6. clock' = clock
      BY <2>1
    <3>7. CASE rows[m].attempts = 0
      BY <3>2, <3>4, <3>5, <3>6, <3>7
    <3>8. CASE rows[m].attempts # 0
      BY <3>2, <3>3, <3>4, <3>5, <3>6, <3>8
    <3> QED
      BY <3>7, <3>8
  <2> QED
    BY <2>1, <2>3 DEF ScheduleInv
<1>11. ASSUME Tick
       PROVE  ScheduleInv'
  BY <1>11, LaterClock, <1>0 DEF Tick, TypeOK
<1>12. ~ClockStepsBack
  BY DEF ClockStepsBack
<1>13. CASE UNCHANGED vars
  BY <1>13, LaterClock, <1>0 DEF vars, TypeOK
<1> QED
  BY <1>1, <1>2, <1>3, <1>4, <1>5, <1>6, <1>7, <1>8, <1>9, <1>10, <1>11, <1>12, <1>13 DEF Next

\* On a clock that never steps back every row follows the backoff schedule,
\* across restarts and whatever the settings are.
THEOREM ScheduleFollowed ==
    ASSUME ~ClockMayStepBack
    PROVE  Spec => []WaitFollowsSchedule
<1>1. Init => ScheduleInv
  BY DEF Init, ScheduleInv, WaitFollowsSchedule, NoCall
<1>2. OutboxInv /\ ScheduleInv /\ [Next]_vars => ScheduleInv'
  BY ScheduleStep
<1>3. ScheduleInv => WaitFollowsSchedule
  BY DEF ScheduleInv
<1> QED
  BY <1>1, <1>2, <1>3, OutboxInit, OutboxStep, PTL DEF Spec

\* So, on such a clock, no row waits longer than GATEWAY_RETRY_MAX_SECONDS.
THEOREM WaitBounded ==
    ASSUME ~ClockMayStepBack
    PROVE  Spec => []WaitIsBounded
<1>1. OutboxInv /\ WaitFollowsSchedule => WaitIsBounded
  <2> SUFFICES ASSUME TypeOK, WaitFollowsSchedule, NEW m \in DOMAIN rows
               PROVE  rows[m].next <= clock + RetryMax
    BY DEF OutboxInv, WaitIsBounded
  <2>1. rows[m] \in Row /\ rows[m].attempts \in Nat /\ rows[m].next \in Nat
    BY DEF TypeOK, Row
  <2>2. rows[m].attempts # 0 => /\ BackoffDelay(rows[m].attempts - 1) <= RetryMax
                                /\ BackoffDelay(rows[m].attempts - 1) \in Nat
    BY <2>1, DelayBounds
  <2> QED
    BY <2>1, <2>2, OutboxAssumption DEF WaitFollowsSchedule, TypeOK
<1>2. Spec => []OutboxInv
  BY OutboxInit, OutboxStep, PTL DEF Spec
<1> QED
  BY <1>1, <1>2, ScheduleFollowed, PTL

==============================================================================
