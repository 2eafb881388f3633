--------------------------- MODULE DeliveryProofs ---------------------------
(***************************************************************************)
(* Theorems about Delivery, for any set of readings, any number of request  *)
(* threads, and faults without end.  The system's steps are steps of        *)
(* Gateway, so that all that GatewayProofs shows of the gateway among any   *)
(* clients and any cloud holds of it here; with what is on the wires this   *)
(* gives that no reading of the sensor is skipped.                          *)
(***************************************************************************)
EXTENDS Delivery, GatewayProofs

\* What is between the services belongs to what they do: the envelope under way
\* is that of the worker's reading, late ones are recorded, the sensor's POST is
\* in the hands of the handler that has its reading, and a 202 on its way to the
\* sensor is for a reading the gateway has taken.
WiresAgree ==
    /\ worker.http = "sent" <=> post # NoEnvelope
    /\ post # NoEnvelope => post.msg = worker.msg
    /\ late = {e.msg : e \in strays}
    /\ hop = "none" <=> sensor # "posting"
    /\ hop \in Callers => request[hop].pc # "idle" /\ request[hop].msg = latest
    /\ hop = "accepted" => latest \in acked

\* What the wires carry: readings, between services that agree about them.
WiresInv ==
    /\ sensor # "off" => latest \in Messages
    /\ hop \in Hops
    /\ echoes \subseteq Messages
    /\ post \in C!Envelope \cup {NoEnvelope}
    /\ strays \subseteq C!Envelope
    /\ WiresAgree

LEMMA WiresInit == SystemInit => WiresInv
BY IdleFields, DeliveryAssumption DEF SystemInit, Init, S!SensorInit, WiresInv, WiresAgree, Hops

------------------------------------------------------------------------------
(* every step is a step of the gateway, or none of its business *)

LEMMA SensorIsElsewhere ==
    ASSUME \/ \E m \in Messages : SensorStarts(m)
           \/ SensorStops \/ SensorPosts \/ SensorAccepted \/ SensorFailed
    PROVE  UNCHANGED vars
BY DEF SensorStarts, SensorStops, SensorPosts, SensorAccepted, SensorFailed

LEMMA CloudIsElsewhere ==
    ASSUME CloudStarts \/ CloudCrashes
    PROVE  UNCHANGED vars /\ UNCHANGED <<sensorVars, wires>>
BY DEF CloudStarts, CloudCrashes, C!CloudStart, C!CloudCrash, gatewayOwnVars, vars, outsideVars

LEMMA StrayIsLate ==
    ASSUME WiresInv, StrayArrives
    PROVE  \E m \in Messages : LateArrives(m)
<1>1. PICK e \in strays : C!StoreReading(e) /\ strays' = strays \ {e}
  BY DEF StrayArrives
<1>2. e.msg \in Messages /\ e.msg \in late
  BY DEF WiresInv, WiresAgree, C!Envelope
<1>3. late' \in {late, late \ {e.msg}}
  BY <1>1 DEF WiresInv, WiresAgree, StrayArrives
<1>4. stored' \in {stored, stored \cup {e.msg}}
  BY <1>1 DEF C!StoreReading, C!RefuseRsa, C!RefuseInvalid, C!ReportDuplicate, C!StoreRow,
              C!InsertFails
<1>5. UNCHANGED <<queueVars, processVars, acked>>
  BY DEF StrayArrives, gatewayOwnVars
<1> QED
  BY <1>2, <1>3, <1>4, <1>5 DEF LateArrives

LEMMA SystemStepIsGatewayStep ==
    ASSUME WiresInv, [SystemNext]_systemVars
    PROVE  [Next]_vars
<1>1. CASE \/ \E m \in Messages : SensorStarts(m)
           \/ SensorStops \/ SensorPosts \/ SensorAccepted \/ SensorFailed
           \/ CloudStarts \/ CloudCrashes
  BY <1>1, SensorIsElsewhere, CloudIsElsewhere
<1>2. ASSUME NEW c \in Callers,
             ReadingArrives(c) \/ EchoArrives(c) \/ HandlerEnqueues(c) \/ HandlerAnswers(c)
      PROVE  RequestNext(c)
  <2>1. CASE ReadingArrives(c)
    <3>1. latest \in Messages
      BY <2>1 DEF ReadingArrives, WiresInv, WiresAgree
    <3> QED
      BY <2>1, <3>1 DEF ReadingArrives, RequestNext
  <2>2. CASE EchoArrives(c)
    BY <2>2 DEF EchoArrives, RequestNext, WiresInv
  <2>3. CASE HandlerEnqueues(c) \/ HandlerAnswers(c)
    BY <2>3 DEF HandlerEnqueues, HandlerAnswers, RequestNext
  <2> QED
    BY <1>2, <2>1, <2>2, <2>3
<1>3. CASE WorkerSteps
  BY <1>3 DEF WorkerSteps, WorkerAlone, EnvelopeSent, PinMismatch, KeyRefused, KeyUnreachable,
              DeliveryFailed, WorkerNext, Next
<1>4. CASE GatewayStarts \/ GatewayCrashes \/ TimeGoesOn
  BY <1>4 DEF GatewayStarts, GatewayCrashes, TimeGoesOn, Next
<1>5. CASE CloudAnswers
  BY <1>5 DEF CloudAnswers, CloudNext, Next
<1>6. CASE StrayArrives
  BY <1>6, StrayIsLate DEF CloudNext, Next
<1>7. CASE UNCHANGED systemVars
  BY <1>7 DEF systemVars
<1> QED
  BY <1>1, <1>2, <1>3, <1>4, <1>5, <1>6, <1>7 DEF SystemNext, Next

------------------------------------------------------------------------------
(* the wires *)

\* The worker has no POST under way between its requests to the cloud.
LEMMA NoPostBetween ==
    ASSUME ProcessTypeOK, WorkerAlone \/ PinMismatch \/ KeyRefused \/ KeyUnreachable
    PROVE  worker.http # "sent" /\ worker'.http # "sent"
<1> USE IdleFields
<1>1. worker.http = "sent" => worker.pc = "posting"
  BY SentTyped DEF ProcessTypeOK
<1>2. CASE ClearAndRead \/ ReadFails \/ ReadingRaises \/ NothingDue \/ Woken \/ PollExpires
             \/ Delivered \/ RetryScheduled \/ OutcomeNotRecorded
  BY <1>1, <1>2 DEF ClearAndRead, ReadFails, ReadingRaises, NothingDue, Woken, PollExpires,
                    Delivered, RetryScheduled, OutcomeNotRecorded, WorkerGoes
<1>3. CASE TakeOldest
  BY <1>1, <1>3 DEF TakeOldest
<1>4. ASSUME worker.pc \in {"fetching_key", "posting"}
      PROVE  worker = [pc |-> worker.pc, msg |-> worker.msg, http |-> worker.http]
  BY <1>4, BusyWorkerTyped DEF ProcessTypeOK
<1>5. CASE PostSucceeds
  BY <1>4, <1>5 DEF PostSucceeds
<1>6. CASE KeyRejected \/ KeyFetchFails
  <2>1. worker.pc = "fetching_key" /\ worker' = [worker EXCEPT !.pc = "retrying", !.http = "none"]
    BY <1>6 DEF KeyRejected, KeyFetchFails, FailedAttempt
  <2> QED
    BY <1>1, <1>4, <2>1
<1> QED
  BY <1>2, <1>3, <1>5, <1>6 DEF WorkerAlone, PinMismatch, KeyRefused, KeyUnreachable

LEMMA EnvelopePosted ==
    ASSUME ProcessTypeOK, EnvelopeSent
    PROVE  worker.msg \in Messages /\ worker'.http = "sent" /\ worker'.msg = worker.msg
BY BusyWorkerTyped DEF ProcessTypeOK, EnvelopeSent, PostEnvelope

\* The part of WiresInv that is about the worker's POST.
PostInv ==
    /\ worker.http = "sent" <=> post # NoEnvelope
    /\ post # NoEnvelope => post.msg = worker.msg
    /\ late = {e.msg : e \in strays}
    /\ post \in C!Envelope \cup {NoEnvelope}
    /\ strays \subseteq C!Envelope

\* ... and the part about the sensor's.
HopInv ==
    /\ sensor # "off" => latest \in Messages
    /\ hop \in Hops
    /\ echoes \subseteq Messages
    /\ hop = "none" <=> sensor # "posting"
    /\ hop \in Callers => request[hop].pc # "idle" /\ request[hop].msg = latest
    /\ hop = "accepted" => latest \in acked

LEMMA WiresInvParts == WiresInv <=> PostInv /\ HopInv
BY DEF WiresInv, WiresAgree, PostInv, HopInv

\* There is no worker without its process.
OffWhileDown == ~up => worker = Idle("off")

LEMMA DownStep ==
    ASSUME ProcessTypeOK, OffWhileDown, [Next]_vars
    PROVE  OffWhileDown'
<1>1. CASE Start \/ Crash
  BY <1>1 DEF Start, Crash, OffWhileDown
<1>2. ASSUME NEW c \in Callers, RequestNext(c)
      PROVE  OffWhileDown'
  BY <1>2 DEF RequestNext, Receive, EnqueueInserts, EnqueueFindsRow, EnqueueIsFull, EnqueueFails,
              EnqueueReturns, Accept, Reject, OffWhileDown
<1>3. CASE WorkerNext
  <2>1. worker.pc # "off" /\ up' = up
    BY <1>3 DEF WorkerNext, ClearAndRead, ReadFails, ReadingRaises, NothingDue, TakeOldest,
                Woken, PollExpires, PostEnvelope, KeyRejected, KeyFetchFails, KeyNotRsa,
                PostFails, PostSucceeds, Delivered, RetryScheduled, OutcomeNotRecorded,
                FailedAttempt, WorkerGoes
  <2> QED
    BY <2>1, IdleFields DEF OffWhileDown
<1>4. CASE CloudNext \/ RowsBecomeDue
  <2>1. up' = up /\ (worker' = worker \/ worker.http = "sent")
    BY <1>4 DEF CloudNext, CloudStores, CloudFindsDuplicate, CloudRefuses, CloudResponds,
                LateArrives, RowsBecomeDue, processVars
  <2> QED
    BY <2>1, IdleFields DEF OffWhileDown
<1>5. CASE UNCHANGED vars
  BY <1>5 DEF vars, processVars, OffWhileDown
<1> QED
  BY <1>1, <1>2, <1>3, <1>4, <1>5 DEF Next

\* The RSA pair the cloud has is that of one of its starts.
KeyTyped == rsaKey \in 0..MaxStarts

LEMMA KeyStep ==
    ASSUME KeyTyped, [SystemNext]_systemVars
    PROVE  KeyTyped'
<1>1. ASSUME UNCHANGED cloudOwnVars
      PROVE  KeyTyped'
  BY <1>1 DEF KeyTyped, cloudOwnVars
<1>2. CASE CloudStarts
  <2>1. rsaKey < MaxStarts /\ rsaKey' = rsaKey + 1
    BY <1>2 DEF CloudStarts, C!CloudStart
  <2> QED
    BY <2>1, DeliveryAssumption DEF KeyTyped
<1>3. CASE CloudCrashes \/ KeyRefused \/ CloudAnswers \/ StrayArrives
  <2>1. rsaKey' = rsaKey
    BY <1>3 DEF CloudCrashes, C!CloudCrash, KeyRefused, C!RefuseRsaKey, CloudAnswers, StrayArrives,
                C!StoreReading, C!StoreRow, C!ReportDuplicate, C!RefuseRsa, C!RefuseInvalid,
                C!InsertFails, C!Answer
  <2> QED
    BY <2>1 DEF KeyTyped
<1>4. CASE \/ \E m \in Messages : SensorStarts(m)
           \/ SensorStops \/ SensorPosts \/ SensorAccepted \/ SensorFailed
           \/ \E c \in Callers : \/ ReadingArrives(c) \/ EchoArrives(c)
                                 \/ HandlerEnqueues(c) \/ HandlerAnswers(c)
  BY <1>1, <1>4 DEF SensorStarts, SensorStops, SensorPosts, SensorAccepted, SensorFailed,
                    ReadingArrives, EchoArrives, HandlerEnqueues, HandlerAnswers
<1>5. CASE \/ GatewayStarts \/ GatewayCrashes \/ TimeGoesOn \/ WorkerAlone \/ EnvelopeSent
           \/ PinMismatch \/ KeyUnreachable \/ DeliveryFailed \/ UNCHANGED systemVars
  BY <1>1, <1>5 DEF GatewayStarts, GatewayCrashes, TimeGoesOn, WorkerAlone, EnvelopeSent,
                    PinMismatch, KeyUnreachable, DeliveryFailed, systemVars
<1> QED
  BY <1>2, <1>3, <1>4, <1>5 DEF SystemNext, WorkerSteps

LEMMA PostStep ==
    ASSUME ProcessTypeOK, OffWhileDown, KeyTyped, PostInv, [SystemNext]_systemVars
    PROVE  PostInv'
<1>1. ASSUME UNCHANGED <<worker, post, strays, late>>
      PROVE  PostInv'
  BY <1>1 DEF PostInv
<1>2. CASE \/ \E m \in Messages : SensorStarts(m)
           \/ SensorStops \/ SensorPosts \/ SensorAccepted \/ SensorFailed
  <2>1. UNCHANGED <<post, strays>>
    BY <1>2 DEF SensorStarts, SensorStops, SensorPosts, SensorAccepted, SensorFailed, wires
  <2>2. UNCHANGED <<worker, late>>
    BY <1>2, SensorIsElsewhere DEF vars, processVars, outsideVars
  <2> QED
    BY <1>1, <2>1, <2>2
<1>3. ASSUME NEW c \in Callers,
             ReadingArrives(c) \/ EchoArrives(c) \/ HandlerEnqueues(c) \/ HandlerAnswers(c)
      PROVE  PostInv'
  <2>1. UNCHANGED <<post, strays>>
    BY <1>3 DEF ReadingArrives, EchoArrives, HandlerEnqueues, HandlerAnswers, wires
  <2>2. CASE ReadingArrives(c) \/ EchoArrives(c)
    BY <1>1, <2>1, <2>2 DEF ReadingArrives, EchoArrives, Receive, outsideVars
  <2>3. CASE HandlerEnqueues(c) \/ HandlerAnswers(c)
    BY <1>1, <2>1, <2>3
       DEF HandlerEnqueues, HandlerAnswers, EnqueueInserts, EnqueueFindsRow, EnqueueIsFull,
           EnqueueFails, EnqueueReturns, Accept, Reject, outsideVars
  <2> QED
    BY <1>3, <2>2, <2>3
<1>4. CASE GatewayStarts
  <2>1. worker' = Idle("top") /\ UNCHANGED <<late, post, strays>> /\ ~up
    BY <1>4 DEF GatewayStarts, Start, outsideVars, wires
  <2>2. worker.http # "sent" /\ worker'.http # "sent"
    BY <2>1, IdleFields DEF OffWhileDown
  <2>3. post = NoEnvelope /\ post' = NoEnvelope
    BY <2>1, <2>2 DEF PostInv
  <2> QED
    BY <2>1, <2>2, <2>3 DEF PostInv
<1>5. ASSUME GiveUpPost, worker'.http = "none"
      PROVE  PostInv'
  <2>1. strays' \subseteq C!Envelope
    BY <1>5 DEF GiveUpPost, PostInv
  <2> QED
    BY <1>5, <2>1 DEF GiveUpPost, PostInv
<1>6. CASE GatewayCrashes
  BY <1>5, <1>6, IdleFields DEF GatewayCrashes, Crash
<1>7. CASE DeliveryFailed
  <2>1. worker.pc = "posting" /\ worker' = [worker EXCEPT !.pc = "retrying", !.http = "none"]
    BY <1>7 DEF DeliveryFailed, PostFails, FailedAttempt
  <2>2. worker = [pc |-> worker.pc, msg |-> worker.msg, http |-> worker.http]
    BY <2>1, BusyWorkerTyped DEF ProcessTypeOK
  <2> QED
    BY <1>5, <1>7, <2>1, <2>2 DEF DeliveryFailed
<1>8. CASE EnvelopeSent
  <2>1. UNCHANGED <<late, strays>> /\ post'.msg = worker.msg
    BY <1>8 DEF EnvelopeSent, PostEnvelope, RsaEnvelope, MlKemEnvelope, outsideVars
  <2>2. worker.msg \in Messages /\ worker'.http = "sent" /\ worker'.msg = worker.msg
    BY <1>8, EnvelopePosted
  <2>3. RsaEnvelope(worker.msg) \in C!Envelope /\ MlKemEnvelope(worker.msg) \in C!Envelope
    BY <2>2, DeliveryAssumption
       DEF KeyTyped, RsaEnvelope, MlKemEnvelope, C!Envelope, C!Algorithms
  <2>4. post' # NoEnvelope
    BY <1>8, <2>3, DeliveryAssumption DEF EnvelopeSent
  <2> QED
    BY <1>8, <2>1, <2>2, <2>3, <2>4 DEF PostInv, EnvelopeSent
<1>9. CASE WorkerAlone \/ PinMismatch \/ KeyRefused \/ KeyUnreachable
  <2>1. UNCHANGED <<post, strays>>
    BY <1>9 DEF WorkerAlone, PinMismatch, KeyRefused, KeyUnreachable, wires
  <2>2. late' = late
    BY <1>9 DEF WorkerAlone, PinMismatch, KeyRefused, KeyUnreachable, KeyRejected,
                KeyFetchFails, ClearAndRead, ReadFails, ReadingRaises, NothingDue,
                TakeOldest, Woken, PollExpires, PostSucceeds, Delivered, RetryScheduled,
                OutcomeNotRecorded, WorkerGoes, outsideVars
  <2>3. worker.http # "sent" /\ worker'.http # "sent"
    BY <1>9, NoPostBetween
  <2>4. post = NoEnvelope
    BY <2>3 DEF PostInv
  <2> QED
    BY <2>1, <2>2, <2>3, <2>4 DEF PostInv
<1>10. CASE CloudAnswers
  <2>1. worker.http = "sent" /\ post' = NoEnvelope /\ UNCHANGED <<strays, late>>
    BY <1>10 DEF CloudAnswers, CloudStores, CloudFindsDuplicate, CloudRefuses, CloudResponds
  <2>2. PICK outcome \in {"stored", "conflict", "refused"} :
          worker' = [worker EXCEPT !.http = outcome]
    BY <1>10 DEF CloudAnswers, CloudStores, CloudFindsDuplicate, CloudRefuses, CloudResponds
  <2>3. worker = [pc |-> worker.pc, msg |-> worker.msg, http |-> worker.http]
    BY <2>1, SentTyped, BusyWorkerTyped DEF ProcessTypeOK
  <2>4. worker'.http # "sent"
    BY <2>2, <2>3
  <2> QED
    BY <2>1, <2>4 DEF PostInv
<1>11. CASE TimeGoesOn \/ CloudStarts \/ CloudCrashes \/ UNCHANGED systemVars
  BY <1>1, <1>11, CloudIsElsewhere
     DEF TimeGoesOn, RowsBecomeDue, systemVars, vars, processVars, outsideVars, wires
<1>12. CASE StrayArrives
  BY <1>12 DEF StrayArrives, PostInv, gatewayOwnVars, processVars
<1> QED
  BY <1>2, <1>3, <1>4, <1>6, <1>7, <1>8, <1>9, <1>10, <1>11, <1>12 DEF SystemNext, WorkerSteps


\* What a step of the sensor, or of the gateway's process, does to its POST.
LEMMA HopQuiet ==
    ASSUME HopInv, UNCHANGED <<sensor, latest, hop, echoes, request>>, acked \subseteq acked'
    PROVE  HopInv'
BY DEF HopInv

LEMMA HopSensorStep ==
    ASSUME HopInv,
           \/ \E m \in Messages : SensorStarts(m)
           \/ SensorStops \/ SensorPosts \/ SensorAccepted \/ SensorFailed
    PROVE  HopInv'
<1> USE DEF HopInv, Hops
<1>1. UNCHANGED <<request, acked>>
  BY SensorIsElsewhere DEF vars, processVars, outsideVars
<1>2. hop = "wire" => latest \in Messages
  OBVIOUS
<1>3. ASSUME NEW m \in Messages, SensorStarts(m)
      PROVE  HopInv'
  BY <1>1, <1>3, DeliveryAssumption DEF SensorStarts, S!SensorStart, S!Sample, wires
<1>4. CASE SensorStops
  BY <1>1, <1>2, <1>4, DeliveryAssumption DEF SensorStops, S!SensorStop, AbandonHop
<1>5. CASE SensorPosts
  BY <1>1, <1>5, DeliveryAssumption DEF SensorPosts, S!Post, S!PostNext, S!Sample
<1>6. CASE SensorAccepted
  BY <1>1, <1>6, DeliveryAssumption DEF SensorAccepted, S!PostAccepted
<1>7. CASE SensorFailed
  BY <1>1, <1>2, <1>7, DeliveryAssumption DEF SensorFailed, S!PostFailed, AbandonHop
<1> QED
  BY <1>3, <1>4, <1>5, <1>6, <1>7

LEMMA HopRequestStep ==
    ASSUME ProcessTypeOK, HopInv, NEW c \in Callers,
           ReadingArrives(c) \/ EchoArrives(c) \/ HandlerEnqueues(c) \/ HandlerAnswers(c)
    PROVE  HopInv'
<1> USE NoRequestFields
<1>1. request \in [Callers -> Request]
  BY DEF ProcessTypeOK
<1>2. UNCHANGED <<sensor, latest>>
  BY DEF ReadingArrives, EchoArrives, HandlerEnqueues, HandlerAnswers, sensorVars
<1>3. CASE ReadingArrives(c)
  <2>1. hop = "wire" /\ hop' = c /\ UNCHANGED <<echoes, acked>>
    BY <1>3 DEF ReadingArrives, Receive, outsideVars
  <2>2. request'[c] = [pc |-> "enqueueing", msg |-> latest]
    BY <1>1, <1>3 DEF ReadingArrives, Receive
  <2> QED
    BY <1>2, <2>1, <2>2, DeliveryAssumption DEF HopInv, Hops
<1>4. CASE EchoArrives(c)
  <2>1. UNCHANGED <<hop, acked>> /\ echoes' \subseteq echoes /\ request[c] = NoRequest
    BY <1>4 DEF EchoArrives, Receive, outsideVars
  <2>2. \A d \in Callers \ {c} : request'[d] = request[d]
    BY <1>1, <1>4 DEF EchoArrives, Receive
  <2>3. hop # c
    BY <2>1 DEF HopInv
  <2> QED
    BY <1>2, <2>1, <2>2, <2>3 DEF HopInv
<1>5. CASE HandlerEnqueues(c)
  <2>1. UNCHANGED <<hop, echoes, acked>>
    BY <1>5 DEF HandlerEnqueues, EnqueueInserts, EnqueueFindsRow, EnqueueIsFull, EnqueueFails,
                EnqueueReturns, outsideVars, wires
  <2>2. PICK outcome \in {"inserted", "existing", "rejected"} :
          request' = [request EXCEPT ![c].pc = outcome]
    BY <1>5 DEF HandlerEnqueues, EnqueueInserts, EnqueueFindsRow, EnqueueIsFull, EnqueueFails,
                EnqueueReturns
  <2>3. request[c].pc = "enqueueing"
    BY <1>5 DEF HandlerEnqueues, EnqueueInserts, EnqueueFindsRow, EnqueueIsFull, EnqueueFails
  <2>4. request[c] = [pc |-> request[c].pc, msg |-> request[c].msg]
    BY <1>1, <2>3 DEF Request, NoRequest
  <2>5. request'[c].pc # "idle" /\ request'[c].msg = request[c].msg
    BY <1>1, <2>2, <2>4
  <2>6. \A d \in Callers \ {c} : request'[d] = request[d]
    BY <1>1, <2>2
  <2> QED
    BY <1>2, <2>1, <2>5, <2>6 DEF HopInv
<1>6. CASE HandlerAnswers(c)
  <2>1. echoes' = echoes /\ request' = [request EXCEPT ![c] = NoRequest]
    BY <1>6 DEF HandlerAnswers, Accept, Reject
  <2>2. \/ acked' = acked \cup {request[c].msg} /\ hop' = IF hop = c THEN "accepted" ELSE hop
        \/ acked' = acked /\ hop' = IF hop = c THEN "refused" ELSE hop
    BY <1>6 DEF HandlerAnswers, Accept, Reject, outsideVars
  <2>3. \A d \in Callers \ {c} : request'[d] = request[d]
    BY <1>1, <2>1
  <2>4. CASE hop = c
    BY <1>2, <2>1, <2>2, <2>4, DeliveryAssumption DEF HopInv, Hops
  <2>5. CASE hop # c
    BY <1>2, <2>1, <2>2, <2>3, <2>5, DeliveryAssumption DEF HopInv, Hops
  <2> QED
    BY <2>4, <2>5
<1> QED
  BY <1>3, <1>4, <1>5, <1>6

LEMMA HopStep ==
    ASSUME ProcessTypeOK, HopInv, [SystemNext]_systemVars
    PROVE  HopInv'
<1>1. CASE \/ \E m \in Messages : SensorStarts(m)
           \/ SensorStops \/ SensorPosts \/ SensorAccepted \/ SensorFailed
  BY <1>1, HopSensorStep
<1>2. CASE \E c \in Callers : \/ ReadingArrives(c) \/ EchoArrives(c)
                              \/ HandlerEnqueues(c) \/ HandlerAnswers(c)
  BY <1>2, HopRequestStep
<1>3. CASE GatewayCrashes
  <2>1. hop' = IF hop \in Callers THEN "lost" ELSE hop
    BY <1>3 DEF GatewayCrashes
  <2>2. UNCHANGED <<sensor, latest, echoes, acked>>
    BY <1>3 DEF GatewayCrashes, Crash, sensorVars
  <2> QED
    BY <2>1, <2>2, DeliveryAssumption DEF HopInv, Hops
<1>4. CASE CloudStarts \/ CloudCrashes
  BY <1>4, CloudIsElsewhere, HopQuiet
     DEF CloudStarts, CloudCrashes, vars, processVars, outsideVars, sensorVars, wires
<1>5. CASE WorkerSteps
  <2>1. UNCHANGED <<sensor, latest, hop, echoes>>
    BY <1>5 DEF WorkerSteps, WorkerAlone, EnvelopeSent, PinMismatch, KeyRefused, KeyUnreachable,
                DeliveryFailed, sensorVars, wires
  <2>2. UNCHANGED <<request, acked>>
    BY <1>5 DEF WorkerSteps, WorkerAlone, EnvelopeSent, PinMismatch, KeyRefused,
                KeyUnreachable, DeliveryFailed, ClearAndRead, ReadFails, ReadingRaises,
                NothingDue, TakeOldest, Woken, PollExpires, PostEnvelope, KeyRejected,
                KeyFetchFails, PostFails, PostSucceeds, Delivered, RetryScheduled,
                OutcomeNotRecorded, FailedAttempt, WorkerGoes, outsideVars
  <2> QED
    BY <2>1, <2>2, HopQuiet
<1>6. CASE GatewayStarts \/ TimeGoesOn
  BY <1>6, HopQuiet DEF GatewayStarts, TimeGoesOn, Start, RowsBecomeDue, processVars, outsideVars,
                        sensorVars, wires
<1>7. CASE CloudAnswers
  BY <1>7, HopQuiet DEF CloudAnswers, CloudStores, CloudFindsDuplicate, CloudRefuses,
                        CloudResponds, sensorVars
<1>8. CASE StrayArrives
  BY <1>8, HopQuiet DEF StrayArrives, gatewayOwnVars, processVars, sensorVars
<1>9. CASE UNCHANGED systemVars
  BY <1>9, HopQuiet DEF systemVars, vars, processVars, outsideVars, sensorVars, wires
<1> QED
  BY <1>1, <1>2, <1>3, <1>4, <1>5, <1>6, <1>7, <1>8, <1>9 DEF SystemNext

------------------------------------------------------------------------------
(* the composition *)

SystemInv == ProcessTypeOK /\ OffWhileDown /\ KeyTyped /\ WiresInv

LEMMA SystemStepInv ==
    ASSUME SystemInv, [SystemNext]_systemVars
    PROVE  SystemInv'
<1>1. [Next]_vars
  BY SystemStepIsGatewayStep DEF SystemInv
<1>2. ProcessTypeOK' /\ OffWhileDown'
  BY <1>1, StepTyped, DownStep DEF SystemInv
<1>3. KeyTyped'
  BY KeyStep DEF SystemInv
<1>4. PostInv' /\ HopInv'
  BY PostStep, HopStep, WiresInvParts DEF SystemInv
<1>5. WiresInv'
  BY <1>4 DEF WiresInv, WiresAgree, PostInv, HopInv
<1> QED
  BY <1>2, <1>3, <1>5 DEF SystemInv

LEMMA SystemInvInit == SystemInit => SystemInv
<1> SUFFICES ASSUME SystemInit PROVE SystemInv
  OBVIOUS
<1>1. ProcessTypeOK
  BY InitTyped DEF SystemInit
<1>2. OffWhileDown
  BY DEF SystemInit, Init, OffWhileDown
<1>3. KeyTyped
  BY DeliveryAssumption DEF SystemInit, C!CloudInit, KeyTyped
<1> QED
  BY <1>1, <1>2, <1>3, WiresInit DEF SystemInv

LEMMA SystemInvariant == SystemSpec => []SystemInv
<1>1. SystemInv /\ [SystemNext]_systemVars => SystemInv'
  BY SystemStepInv
<1> QED
  BY <1>1, SystemInvInit, PTL DEF SystemSpec

\* Among this sensor and this cloud the gateway does nothing that Gateway does
\* not allow, so all that GatewayProofs shows of Spec holds of the system.
THEOREM SystemImplementsGateway == SystemSpec => Spec
<1>1. SystemInit => Init
  BY DEF SystemInit
<1>2. SystemInv /\ [SystemNext]_systemVars => [Next]_vars
  BY SystemStepIsGatewayStep DEF SystemInv
<1> QED
  BY <1>1, <1>2, SystemInvariant, PTL DEF SystemSpec, Spec

------------------------------------------------------------------------------
(* the sensor *)

LEMMA SensorSteps ==
    ASSUME [SystemNext]_systemVars
    PROVE  \/ \E m \in Messages : SensorStarts(m)
           \/ SensorStops \/ SensorPosts \/ SensorAccepted \/ SensorFailed
           \/ UNCHANGED S!sensorVars
<1>1. CASE \/ \E c \in Callers : \/ ReadingArrives(c) \/ EchoArrives(c)
                                 \/ HandlerEnqueues(c) \/ HandlerAnswers(c)
           \/ GatewayStarts \/ GatewayCrashes \/ TimeGoesOn \/ WorkerSteps
           \/ CloudAnswers \/ StrayArrives \/ CloudStarts \/ CloudCrashes \/ UNCHANGED systemVars
  BY <1>1, CloudIsElsewhere
     DEF ReadingArrives, EchoArrives, HandlerEnqueues, HandlerAnswers, GatewayStarts,
         GatewayCrashes, TimeGoesOn, WorkerSteps, WorkerAlone, EnvelopeSent, PinMismatch,
         KeyRefused, KeyUnreachable, DeliveryFailed, CloudAnswers, StrayArrives, systemVars,
         sensorVars, S!sensorVars
<1> QED
  BY <1>1 DEF SystemNext

LEMMA SensorStep ==
    ASSUME [SystemNext]_systemVars
    PROVE  [S!SensorNext]_(S!sensorVars)
BY SensorSteps DEF SensorStarts, SensorStops, SensorPosts, SensorAccepted, SensorFailed,
                   S!SensorNext

\* SensorAccounted with the counters' types, for the arithmetic.
CountInv ==
    /\ generated \in Nat
    /\ successes \in Nat
    /\ sensorFailures \in Nat
    /\ sensor = "off" => generated = 0 /\ successes = 0 /\ sensorFailures = 0
    /\ SensorAccounted

LEMMA CountStep ==
    ASSUME CountInv, [S!SensorNext]_(S!sensorVars)
    PROVE  CountInv'
<1> USE DEF CountInv, SensorAccounted, S!SensorAccounted
<1>1. ASSUME NEW m \in Messages, S!SensorStart(m)
      PROVE  CountInv'
  BY <1>1 DEF S!SensorStart, S!Sample
<1>2. ASSUME NEW m \in Messages, S!PostNext(m)
      PROVE  CountInv'
  BY <1>2 DEF S!PostNext, S!Sample
<1>3. CASE S!SensorStop
  BY <1>3 DEF S!SensorStop
<1>4. CASE S!Post
  BY <1>4 DEF S!Post
<1>5. CASE S!PostAccepted
  BY <1>5 DEF S!PostAccepted
<1>6. CASE S!PostFailed
  BY <1>6 DEF S!PostFailed
<1>7. CASE UNCHANGED S!sensorVars
  BY <1>7 DEF S!sensorVars
<1> QED
  BY <1>1, <1>2, <1>3, <1>4, <1>5, <1>6, <1>7 DEF S!SensorNext

\* The sensor's own counters never lose a reading of the process that keeps
\* them, whatever the gateway and the network do with its POSTs.
THEOREM SensorCountsAgree == SystemSpec => []SensorAccounted
<1>1. SystemInit => CountInv
  BY DEF SystemInit, S!SensorInit, CountInv, SensorAccounted, S!SensorAccounted
<1>2. CountInv /\ [SystemNext]_systemVars => CountInv'
  BY SensorStep, CountStep
<1>3. CountInv => SensorAccounted
  BY DEF CountInv
<1> QED
  BY <1>1, <1>2, <1>3, PTL DEF SystemSpec

\* A reading is out of the sensor's hands only with a 202, or with the process.
SampledInv ==
    sampled \subseteq dropped \cup acked \cup {m \in {latest} : sensor \notin {"off", "pausing"}}

LEMMA AckedStays ==
    ASSUME [Next]_vars
    PROVE  acked \subseteq acked'
BY DEF Next, Start, Crash, RequestNext, Receive, EnqueueInserts, EnqueueFindsRow,
       EnqueueIsFull, EnqueueFails, EnqueueReturns, Accept, Reject, WorkerNext,
       ClearAndRead, ReadFails, ReadingRaises, NothingDue, TakeOldest, Woken, PollExpires,
       PostEnvelope, KeyRejected, KeyFetchFails, KeyNotRsa, PostFails, PostSucceeds,
       Delivered, RetryScheduled, OutcomeNotRecorded, FailedAttempt, WorkerGoes, CloudNext,
       CloudStores, CloudFindsDuplicate, CloudRefuses, CloudResponds, LateArrives,
       RowsBecomeDue, vars, outsideVars

LEMMA SampledStep ==
    ASSUME SystemInv, SampledInv, [SystemNext]_systemVars
    PROVE  SampledInv'
<1> USE DEF SampledInv
<1>1. acked \subseteq acked'
  BY SystemStepIsGatewayStep, AckedStays DEF SystemInv
<1>2. CASE SensorStops
  BY <1>1, <1>2 DEF SensorStops, S!SensorStop
<1>3. ASSUME NEW m \in Messages, S!SensorStart(m) \/ S!PostNext(m)
      PROVE  SampledInv'
  BY <1>1, <1>3 DEF S!SensorStart, S!PostNext, S!Sample
<1>4. CASE S!Post \/ SensorFailed
  BY <1>1, <1>4 DEF S!Post, SensorFailed, S!PostFailed
<1>5. CASE SensorAccepted
  <2>1. latest \in acked
    BY <1>5 DEF SystemInv, WiresInv, WiresAgree, SensorAccepted
  <2> QED
    BY <1>1, <1>5, <2>1 DEF SensorAccepted, S!PostAccepted
<1>6. CASE UNCHANGED S!sensorVars
  BY <1>1, <1>6 DEF S!sensorVars
<1> QED
  BY <1>2, <1>3, <1>4, <1>5, <1>6, SensorSteps DEF SensorStarts, SensorPosts

\* No reading is skipped: with the 202 the sensor's reading is the gateway's to
\* keep, which DurableHandoff says it does.
THEOREM NothingSkipped == SystemSpec => []NoneSkipped
<1>1. SystemInit => SampledInv
  BY DEF SystemInit, S!SensorInit, SampledInv
<1>2. SystemInv /\ SampledInv /\ [SystemNext]_systemVars => SampledInv'
  BY SampledStep
<1>3. SampledInv /\ NothingLost => NoneSkipped
  BY DEF SampledInv, NothingLost, NoneSkipped
<1> QED
  BY <1>1, <1>2, <1>3, SystemInvariant, SystemImplementsGateway, DurableHandoff, PTL
     DEF SystemSpec

------------------------------------------------------------------------------
(* the cloud *)

LEMMA CloudStep ==
    ASSUME SystemInv, [SystemNext]_systemVars
    PROVE  [C!CloudNext]_(C!cloudVars)
<1> USE DEF C!cloudVars, C!cloudOwnVars, cloudOwnVars
<1>1. CASE CloudStarts \/ CloudCrashes \/ KeyRefused
  BY <1>1 DEF CloudStarts, CloudCrashes, KeyRefused, C!CloudNext
<1>2. CASE CloudAnswers
  <2>1. post \in C!Envelope
    BY <1>2 DEF SystemInv, WiresInv, WiresAgree, CloudAnswers, CloudStores, CloudFindsDuplicate,
                CloudRefuses
  <2> QED
    BY <1>2, <2>1 DEF CloudAnswers, C!StoreReading, C!CloudNext
<1>3. CASE StrayArrives
  BY <1>3 DEF StrayArrives, SystemInv, WiresInv, C!CloudNext
<1>4. CASE \/ \E m \in Messages : SensorStarts(m)
           \/ SensorStops \/ SensorPosts \/ SensorAccepted \/ SensorFailed
  BY <1>4, SensorIsElsewhere
     DEF SensorStarts, SensorStops, SensorPosts, SensorAccepted, SensorFailed, vars, outsideVars
<1>5. CASE \E c \in Callers : \/ ReadingArrives(c) \/ EchoArrives(c)
                              \/ HandlerEnqueues(c) \/ HandlerAnswers(c)
  BY <1>5 DEF ReadingArrives, EchoArrives, HandlerEnqueues, HandlerAnswers, Receive,
              EnqueueInserts, EnqueueFindsRow, EnqueueIsFull, EnqueueFails, EnqueueReturns,
              Accept, Reject, outsideVars
<1>6. CASE GatewayStarts \/ GatewayCrashes \/ TimeGoesOn \/ UNCHANGED systemVars
  BY <1>6 DEF GatewayStarts, GatewayCrashes, TimeGoesOn, Start, Crash, RowsBecomeDue, systemVars,
              vars, outsideVars
<1>7. CASE WorkerAlone \/ EnvelopeSent \/ PinMismatch \/ KeyUnreachable \/ DeliveryFailed
  BY <1>7 DEF WorkerAlone, EnvelopeSent, PinMismatch, KeyUnreachable, DeliveryFailed,
              ClearAndRead, ReadFails, ReadingRaises, NothingDue, TakeOldest, Woken,
              PollExpires, PostEnvelope, KeyRejected, KeyFetchFails, PostFails,
              PostSucceeds, Delivered, RetryScheduled, OutcomeNotRecorded, FailedAttempt,
              WorkerGoes, outsideVars
<1> QED
  BY <1>1, <1>2, <1>3, <1>4, <1>5, <1>6, <1>7 DEF SystemNext, WorkerSteps

\* What the gateway sends is what a cloud may be sent: the system's steps are
\* steps of Cloud, and CloudProofs' theorems about CloudSpec hold of it.
THEOREM SystemUsesCloud == SystemSpec => C!CloudSpec
<1>1. SystemInit => C!CloudInit
  BY DEF SystemInit
<1>2. SystemInv /\ [SystemNext]_systemVars => [C!CloudNext]_(C!cloudVars)
  BY CloudStep
<1> QED
  BY <1>1, <1>2, SystemInvariant, PTL DEF SystemSpec, C!CloudSpec

------------------------------------------------------------------------------
(* types *)

\* The theorems about Cloud, for the cloud of the system.
CP == INSTANCE CloudProofs

LEMMA OneCloud ==
    /\ C!CloudInit => CP!CloudInit
    /\ [C!CloudNext]_(C!cloudVars) => [CP!CloudNext]_(CP!cloudVars)
    /\ CP!CloudTypeOK => C!CloudTypeOK
<1>1. C!CloudInit => CP!CloudInit
  BY DEF C!CloudInit, CP!CloudInit, C!NoCloudMetrics, CP!NoCloudMetrics, C!CloudCounters,
         CP!CloudCounters
<1>2. ASSUME NEW e \in C!Envelope
      PROVE  e \in CP!Envelope /\ (C!StoreReading(e) => CP!StoreReading(e))
  BY DEF C!Envelope, CP!Envelope, C!Algorithms, CP!Algorithms, C!StoreReading, CP!StoreReading,
         C!RefuseRsa, CP!RefuseRsa, C!RefuseInvalid, CP!RefuseInvalid,
         C!ReportDuplicate, CP!ReportDuplicate, C!StoreRow, CP!StoreRow,
         C!InsertFails, CP!InsertFails, C!Admits, CP!Admits, C!Opens, CP!Opens,
         C!OpensRsa, CP!OpensRsa, C!OpensMlKem, CP!OpensMlKem, C!Answer, CP!Answer,
         C!CountCloud, CP!CountCloud, C!CloudCounters, CP!CloudCounters,
         C!OneMoreInvalid, CP!OneMoreInvalid
<1>3. [C!CloudNext]_(C!cloudVars) => [CP!CloudNext]_(CP!cloudVars)
  BY <1>2
     DEF C!CloudNext, CP!CloudNext, C!cloudVars, CP!cloudVars, C!cloudOwnVars, CP!cloudOwnVars,
         C!CloudStart, CP!CloudStart, C!CloudCrash, CP!CloudCrash,
         C!RefuseRsaKey, CP!RefuseRsaKey, C!RejectMalformed, CP!RejectMalformed,
         C!Answer, CP!Answer, C!CountCloud, CP!CountCloud, C!OneMoreInvalid, CP!OneMoreInvalid,
         C!NoCloudMetrics, CP!NoCloudMetrics, C!CloudCounters, CP!CloudCounters
<1>4. CP!CloudTypeOK => C!CloudTypeOK
  BY DEF CP!CloudTypeOK, C!CloudTypeOK, C!CloudCounters, CP!CloudCounters
<1> QED
  BY <1>1, <1>3, <1>4

\* The reading that goes with a sensor's process is one that it has sampled.
SensorTypeInv ==
    /\ S!SensorTypeOK
    /\ sensor # "off" => latest \in sampled

LEMMA SensorTypesInit == SystemInit => SensorTypeInv
<1> SUFFICES ASSUME SystemInit PROVE SensorTypeInv
  OBVIOUS
<1>1. sensorFailures \in 0..SensorWarnAfter /\ generated \in Nat /\ successes \in Nat
  BY DeliveryAssumption DEF SystemInit, S!SensorInit
<1>2. sensor = "off" /\ latest = NoMessage /\ sampled = {} /\ dropped = {}
  BY DEF SystemInit, S!SensorInit
<1> QED
  BY <1>1, <1>2 DEF SensorTypeInv, S!SensorTypeOK

LEMMA SensorTypeStep ==
    ASSUME SensorTypeInv, [S!SensorNext]_(S!sensorVars)
    PROVE  SensorTypeInv'
<1> USE DeliveryAssumption DEF SensorTypeInv, S!SensorTypeOK
<1>1. ASSUME NEW m \in Messages, S!SensorStart(m) \/ S!PostNext(m)
      PROVE  SensorTypeInv'
  BY <1>1 DEF S!SensorStart, S!PostNext, S!Sample
<1>2. CASE S!SensorStop
  BY <1>2 DEF S!SensorStop
<1>3. CASE S!Post \/ S!PostAccepted \/ S!PostFailed
  BY <1>3 DEF S!Post, S!PostAccepted, S!PostFailed
<1>4. CASE UNCHANGED S!sensorVars
  BY <1>4 DEF S!sensorVars
<1> QED
  BY <1>1, <1>2, <1>3, <1>4 DEF S!SensorNext

PinTyped == pinned \in BOOLEAN

LEMMA PinStep ==
    ASSUME pinned \in BOOLEAN, [SystemNext]_systemVars
    PROVE  pinned' \in BOOLEAN
<1>1. CASE GatewayStarts
  BY <1>1 DEF GatewayStarts
<1>2. CASE ~GatewayStarts
  <2>1. pinned' = pinned
    BY <1>2 DEF SystemNext, systemVars, SensorStarts, SensorStops, SensorPosts, SensorAccepted,
       SensorFailed, ReadingArrives, EchoArrives, HandlerEnqueues, HandlerAnswers,
       GatewayCrashes, WorkerSteps, WorkerAlone, EnvelopeSent, PinMismatch, KeyRefused,
       KeyUnreachable, DeliveryFailed, TimeGoesOn, CloudStarts, CloudCrashes, CloudAnswers,
       StrayArrives
  <2> QED
    BY <2>1
<1> QED
  BY <1>1, <1>2

\* The three services and what is under way between them keep their types.
THEOREM SystemTypeCorrect == SystemSpec => []SystemTypeOK
<1>1. SystemSpec => []TypeOK
  BY SystemImplementsGateway, TypeCorrect, PTL
<1>2. SystemSpec => []C!CloudTypeOK
  <2>1. CP!IsFiniteSet(Messages)
    BY OutboxAssumption DEF CP!IsFiniteSet, IsFiniteSet
  <2>2. /\ CloudWarnAfter \in Nat \ {0} /\ MaxStarts \in Nat \ {0} /\ CloudMetricCap \in Nat
        /\ CP!IsFiniteSet(Messages)
    BY <2>1, DeliveryAssumption
  <2>3. CP!CloudSpec => []CP!CloudTypeOK
    BY <2>2, CP!CloudTypeCorrect
  <2> QED
    BY <2>3, OneCloud, SystemUsesCloud, PTL DEF C!CloudSpec, CP!CloudSpec
<1>3. SystemSpec => []SensorTypeInv
  <2>1. SensorTypeInv /\ [SystemNext]_systemVars => SensorTypeInv'
    BY SensorStep, SensorTypeStep
  <2> QED
    BY <2>1, SensorTypesInit, PTL DEF SystemSpec
<1>4. SystemSpec => []PinTyped
  <2>1. SystemInit => PinTyped
    BY DEF SystemInit, PinTyped
  <2>2. PinTyped /\ [SystemNext]_systemVars => PinTyped'
    BY PinStep DEF PinTyped
  <2> QED
    BY <2>1, <2>2, PTL DEF SystemSpec
<1>5. TypeOK /\ C!CloudTypeOK /\ SensorTypeInv /\ PinTyped /\ SystemInv => SystemTypeOK
  BY DEF SystemTypeOK, SensorTypeInv, PinTyped, SystemInv, WiresInv
<1> QED
  BY <1>1, <1>2, <1>3, <1>4, <1>5, SystemInvariant, PTL

------------------------------------------------------------------------------
(* what each service promises, among the others *)

\* The gateway keeps its word to this sensor with this cloud: nothing it has
\* answered with 202 is lost, no row goes before the cloud has the reading, and
\* no new reading waits for a wakeup that was missed.
THEOREM GatewayAmongOthers ==
    SystemSpec => KeepsPromise /\ OnlyStoredRowsLeave /\ [](NothingLost /\ NoLostWakeup)
BY SystemImplementsGateway, GatewayKeepsPromise, RowsLeaveStored, DurableHandoff, WakeupsKept, PTL

\* The cloud keeps its rows and its counters, whatever this gateway sends it,
\* repeats or sends too late.
THEOREM CloudAmongOthers ==
    SystemSpec => C!RowsStay /\ []C!CountersAgree
<1>1. /\ CloudWarnAfter \in Nat \ {0} /\ MaxStarts \in Nat \ {0} /\ CloudMetricCap \in Nat
      /\ CP!IsFiniteSet(Messages)
  BY OutboxAssumption, DeliveryAssumption DEF CP!IsFiniteSet, IsFiniteSet
<1>2. /\ CP!CloudSpec => CP!RowsStay
      /\ CP!CloudSpec => []CP!CountersAgree
  BY <1>1, CP!RowsKept, CP!CountersCorrect
<1>3. [stored \subseteq stored' /\ byMlkem' \cap stored = byMlkem]_(CP!cloudVars)
        => [stored \subseteq stored' /\ byMlkem' \cap stored = byMlkem]_(C!cloudVars)
  BY DEF C!cloudVars, CP!cloudVars, C!cloudOwnVars, CP!cloudOwnVars
<1>4. CP!Cardinality(stored) = C!Cardinality(stored)
  BY DEF CP!Cardinality, C!Cardinality, CP!IsFiniteSet, C!IsFiniteSet
<1>5. CP!CountersAgree => C!CountersAgree
  BY <1>4 DEF CP!CountersAgree, C!CountersAgree
<1>6. SystemSpec => CP!CloudSpec
  BY SystemUsesCloud, OneCloud, PTL DEF C!CloudSpec, CP!CloudSpec
<1>7. CP!RowsStay => C!RowsStay
  BY <1>3, PTL DEF CP!RowsStay, C!RowsStay
<1> QED
  BY <1>2, <1>5, <1>6, <1>7, PTL

==============================================================================
