-------------------------- MODULE ReadingPathProofs --------------------------
(***************************************************************************)
(* The system of Delivery implements ReadingPath, for any set of readings,  *)
(* any number of request threads, and faults without end.  A step of the    *)
(* system is one of the sensor, or one the gateway's promise                *)
(* (StoreAndForward) allows; each moves a reading along the path or none.   *)
(***************************************************************************)
EXTENDS DeliveryProofs

\* What is in the sensor's hands, on the wire, in a handler or in the outbox
\* is a reading that the sensor has sampled.
OwnReadings ==
    /\ sensor # "off" => latest \in sampled
    /\ echoes \subseteq sampled
    /\ \A c \in Callers : request[c].pc # "idle" => request[c].msg \in sampled
    /\ pending \subseteq sampled

LEMMA OwnReadingsQuiet ==
    ASSUME OwnReadings, sampled \subseteq sampled', sensor' # "off" => latest' \in sampled',
           echoes' \subseteq sampled, pending' \subseteq sampled,
           \A c \in Callers :
             \/ request'[c].pc = "idle"
             \/ request'[c].msg \in sampled
             \/ request'[c] = request[c]
    PROVE  OwnReadings'
BY DEF OwnReadings

LEMMA OwnReadingsStep ==
    ASSUME SystemInv, OwnReadings, [SystemNext]_systemVars
    PROVE  OwnReadings'
<1> USE NoRequestFields
<1>1. request \in [Callers -> Request]
  BY DEF SystemInv, ProcessTypeOK
<1>2. CASE \/ \E m \in Messages : SensorStarts(m)
           \/ SensorStops \/ SensorPosts \/ SensorAccepted \/ SensorFailed
  <2>1. UNCHANGED <<request, pending>>
    BY <1>2, SensorIsElsewhere DEF vars, processVars, queueVars
  <2>2. sampled \subseteq sampled' /\ (sensor' # "off" => latest' \in sampled')
    BY <1>2 DEF OwnReadings, SensorStarts, SensorStops, SensorPosts, SensorAccepted,
       SensorFailed, S!SensorStart, S!SensorStop, S!Post, S!PostNext, S!PostAccepted,
       S!PostFailed, S!Sample
  <2>3. echoes' \subseteq sampled
    <3>1. CASE SensorStops \/ SensorFailed
      <4>1. hop = "wire" => sensor # "off"
        BY DEF SystemInv, WiresInv, WiresAgree
      <4> QED
        BY <3>1, <4>1 DEF SensorStops, SensorFailed, AbandonHop, OwnReadings
    <3>2. CASE (\E m \in Messages : SensorStarts(m)) \/ SensorPosts \/ SensorAccepted
      BY <3>2 DEF SensorStarts, SensorPosts, SensorAccepted, OwnReadings, wires
    <3> QED
      BY <1>2, <3>1, <3>2
  <2> QED
    BY <2>1, <2>2, <2>3, OwnReadingsQuiet DEF OwnReadings
<1>3. ASSUME NEW c \in Callers,
             ReadingArrives(c) \/ EchoArrives(c) \/ HandlerEnqueues(c) \/ HandlerAnswers(c)
      PROVE  OwnReadings'
  <2>1. UNCHANGED <<sampled, sensor, latest>> /\ echoes' \subseteq echoes
    BY <1>3 DEF ReadingArrives, EchoArrives, HandlerEnqueues, HandlerAnswers, sensorVars, wires
  <2>2. CASE ReadingArrives(c) \/ EchoArrives(c)
    <3>1. PICK m \in sampled : Receive(c, m)
      <4>1. hop = "wire" => sensor # "off"
        BY DEF SystemInv, WiresInv, WiresAgree
      <4> QED
        BY <2>2, <4>1 DEF ReadingArrives, EchoArrives, OwnReadings
    <3>2. /\ pending' = pending
          /\ request' = [request EXCEPT ![c] = [pc |-> "enqueueing", msg |-> m]]
      BY <3>1 DEF Receive, StampCall
    <3>3. \A d \in Callers : request'[d] = request[d] \/ request'[d].msg \in sampled
      BY <1>1, <3>1, <3>2
    <3> QED
      BY <2>1, <3>2, <3>3, OwnReadingsQuiet DEF OwnReadings
  <2>3. CASE HandlerEnqueues(c)
    <3>1. PICK outcome \in {"inserted", "existing", "rejected"} :
            request' = [request EXCEPT ![c].pc = outcome]
      BY <2>3 DEF HandlerEnqueues, EnqueueInserts, EnqueueFindsRow, EnqueueIsFull, EnqueueFails,
                  EnqueueReturns
    <3>2. /\ request[c].pc = "enqueueing"
          /\ pending' \in {pending, pending \cup {request[c].msg}}
      BY <2>3 DEF HandlerEnqueues, EnqueueInserts, EnqueueFindsRow, EnqueueIsFull, EnqueueFails,
                  InsertRow, EndCall
    <3>3. request[c] = [pc |-> request[c].pc, msg |-> request[c].msg]
      BY <1>1, <3>2 DEF Request, NoRequest
    <3>4. request[c].msg \in sampled
      BY <3>2 DEF OwnReadings
    <3>5. \A d \in Callers : request'[d] = request[d] \/ request'[d].msg \in sampled
      BY <1>1, <3>1, <3>3, <3>4
    <3> QED
      BY <2>1, <3>2, <3>4, <3>5, OwnReadingsQuiet DEF OwnReadings
  <2>4. CASE HandlerAnswers(c)
    <3>1. pending' = pending /\ request' = [request EXCEPT ![c] = NoRequest]
      BY <2>4 DEF HandlerAnswers, Accept, Reject, queueVars
    <3>2. \A d \in Callers : request'[d] = request[d] \/ request'[d].pc = "idle"
      BY <1>1, <3>1
    <3> QED
      BY <2>1, <3>1, <3>2, OwnReadingsQuiet DEF OwnReadings
  <2> QED
    BY <1>3, <2>2, <2>3, <2>4
<1>4. CASE \/ GatewayStarts \/ GatewayCrashes \/ TimeGoesOn \/ WorkerSteps
           \/ CloudAnswers \/ StrayArrives \/ CloudStarts \/ CloudCrashes \/ UNCHANGED systemVars
  <2>1. UNCHANGED <<sampled, sensor, latest, echoes>>
    BY <1>4, CloudIsElsewhere
       DEF GatewayStarts, GatewayCrashes, TimeGoesOn, WorkerSteps, WorkerAlone, EnvelopeSent,
           PinMismatch, KeyRefused, KeyUnreachable, DeliveryFailed, CloudAnswers, StrayArrives,
           systemVars, sensorVars, wires
  <2>2. ASSUME request' = request, pending' \subseteq pending
        PROVE  OwnReadings'
    BY <2>1, <2>2, OwnReadingsQuiet DEF OwnReadings
  <2>3. CASE GatewayCrashes
    <3>1. pending' = pending /\ \A c \in Callers : request'[c].pc = "idle"
      BY <2>3 DEF GatewayCrashes, Crash, AbandonCalls
    <3> QED
      BY <2>1, <3>1, OwnReadingsQuiet DEF OwnReadings
  <2>4. CASE WorkerSteps
    <3>1. WorkerNext /\ request' = request
      BY <2>4 DEF WorkerSteps, WorkerAlone, EnvelopeSent, PinMismatch, KeyRefused,
                  KeyUnreachable, DeliveryFailed, WorkerNext, ClearAndRead, ReadFails,
                  ReadingRaises, NothingDue, TakeOldest, Woken, PollExpires, PostEnvelope,
                  KeyRejected, KeyFetchFails, PostFails, PostSucceeds, Delivered,
                  RetryScheduled, OutcomeNotRecorded, FailedAttempt, WorkerGoes
    <3>2. pending' \subseteq pending
      BY <3>1, WorkerLeavesRows DEF Delivered, DeleteRow
    <3> QED
      BY <2>2, <3>1, <3>2
  <2>5. CASE GatewayStarts \/ TimeGoesOn
    BY <2>2, <2>5 DEF GatewayStarts, TimeGoesOn, Start, RecoverRows, RowsBecomeDue, TimePasses,
                      processVars
  <2>6. CASE CloudAnswers \/ StrayArrives
    BY <2>2, <2>6 DEF CloudAnswers, CloudStores, CloudFindsDuplicate, CloudRefuses, CloudResponds,
                      StrayArrives, gatewayOwnVars, queueVars, processVars
  <2>7. CASE CloudStarts \/ CloudCrashes \/ UNCHANGED systemVars
    BY <2>2, <2>7, CloudIsElsewhere DEF systemVars, vars, queueVars, processVars
  <2> QED
    BY <1>4, <2>3, <2>4, <2>5, <2>6, <2>7
<1> QED
  BY <1>2, <1>3, <1>4 DEF SystemNext

------------------------------------------------------------------------------
(* the path *)

\* Readings that keep their place, and a reading that goes on.
LEMMA PathStutter ==
    ASSUME \A m \in Messages : Place(m)' = Place(m)
    PROVE  UNCHANGED Places
BY DEF Places

LEMMA PathMoves ==
    ASSUME NEW m \in Messages, NEW from, NEW to,
           Place(m) \in from, Place(m)' = to,
           \A n \in Messages \ {m} : Place(n)' = Place(n)
    PROVE  Path!Moves(m, from, to)
<1>1. Places[m] \in from /\ Places' = [Places EXCEPT ![m] = to]
  BY DEF Places
<1> QED
  BY <1>1 DEF Path!Moves

\* A reading sampled anew: the last one is in other hands, or gone.
LEMMA PathSamples ==
    ASSUME SampledInv, NothingLost, OwnReadings, dropped \subseteq sampled,
           NEW m \in Messages, sensor \in {"off", "pausing"}, S!Sample(m),
           UNCHANGED <<pending, stored, dropped>>
    PROVE  [Path!PathNext]_Places
<1>1. \A n \in Messages : Place(n) # "sensor"
  BY DEF SampledInv, NothingLost, Place
<1>2. m \notin sampled /\ sampled' = sampled \cup {m} /\ m \notin dropped /\ m \notin pending
  BY DEF S!Sample, OwnReadings
<1>3. \A n \in Messages \ {m} : Place(n)' = Place(n)
  BY <1>2 DEF Place
<1>4. CASE m \in stored
  BY <1>3, <1>4, PathStutter DEF Place
<1>5. CASE m \notin stored
  <2>1. Place(m) = "new" /\ Place(m)' = "sensor"
    BY <1>2, <1>5 DEF Place
  <2>2. Path!Moves(m, {"new"}, "sensor")
    BY <1>3, <2>1, PathMoves
  <2>3. Path!Sample(m)
    BY <1>1, <2>2 DEF Path!Sample, Places
  <2> QED
    BY <2>3 DEF Path!PathNext
<1> QED
  BY <1>4, <1>5

\* The sensor's process goes, and with it a reading that nobody has taken.
LEMMA PathLoses ==
    ASSUME SensorTypeInv, S!SensorStop, UNCHANGED <<pending, stored>>
    PROVE  [Path!PathNext]_Places
<1>1. PICK m \in Messages : m = latest /\ m \in sampled
  BY DEF SensorTypeInv, S!SensorTypeOK, S!SensorStop
<1>2. sampled' = sampled /\ dropped' \in {dropped, dropped \cup {m}}
  BY <1>1 DEF S!SensorStop
<1>3. \A n \in Messages \ {m} : Place(n)' = Place(n)
  BY <1>2 DEF Place
<1>4. CASE Place(m)' = Place(m)
  BY <1>3, <1>4, PathStutter
<1>5. CASE Place(m)' # Place(m)
  <2>1. Place(m) = "sensor" /\ Place(m)' = "lost"
    BY <1>1, <1>2, <1>5 DEF Place
  <2>2. Path!Moves(m, {"sensor"}, "lost")
    BY <1>3, <2>1, PathMoves
  <2> QED
    BY <2>2 DEF Path!Lose, Path!PathNext
<1> QED
  BY <1>4, <1>5

\* What the gateway and the cloud do to a reading is what StoreAndForward
\* allows: it is taken from the sensor when its row is inserted, and stored.
LEMMA PathFollowsPromise ==
    ASSUME [Promise!PromiseNext]_(Promise!promiseVars), OwnReadings',
           UNCHANGED <<sampled, dropped>>
    PROVE  [Path!PathNext]_Places
<1>1. ASSUME NEW m \in Messages, Status(m)' = Status(m)
      PROVE  Place(m)' = Place(m)
  BY <1>1 DEF Status, Place
<1>2. CASE AllStatus' = AllStatus
  <2>1. \A m \in Messages : Status(m)' = Status(m)
    BY <1>2 DEF AllStatus
  <2> QED
    BY <1>1, <2>1, PathStutter
<1>3. ASSUME NEW m \in Messages, Promise!Queue(m)
      PROVE  [Path!PathNext]_Places
  <2>1. AllStatus[m] = "new" /\ AllStatus' = [AllStatus EXCEPT ![m] = "queued"]
    BY <1>3 DEF Promise!Queue, AllStatus, Status
  <2>2. /\ Status(m) = "new" /\ Status(m)' = "queued"
        /\ \A n \in Messages \ {m} : Status(n)' = Status(n)
    BY <2>1 DEF AllStatus
  <2>3. m \in sampled
    BY <2>2 DEF Status, OwnReadings
  <2>4. Place(m) \in {"sensor", "lost"} /\ Place(m)' = "gateway"
    BY <2>2, <2>3 DEF Status, Place
  <2>5. Path!Take(m)
    BY <1>1, <2>2, <2>4, PathMoves DEF Path!Take
  <2> QED
    BY <2>5 DEF Path!PathNext
<1>4. ASSUME NEW m \in Messages, Promise!Deliver(m)
      PROVE  [Path!PathNext]_Places
  <2>1. AllStatus[m] = "queued" /\ AllStatus' = [AllStatus EXCEPT ![m] = "delivered"]
    BY <1>4 DEF Promise!Deliver, AllStatus, Status
  <2>2. /\ Status(m) = "queued" /\ Status(m)' = "delivered"
        /\ \A n \in Messages \ {m} : Status(n)' = Status(n)
    BY <2>1 DEF AllStatus
  <2>3. Place(m) \in {"gateway"} /\ Place(m)' = "cloud"
    BY <2>2 DEF Status, Place
  <2>4. Path!Store(m)
    BY <1>1, <2>2, <2>3, PathMoves DEF Path!Store
  <2> QED
    BY <2>4 DEF Path!PathNext
<1>5. CASE \/ \E m \in Messages : Promise!Acknowledge(m)
           \/ UNCHANGED Promise!promiseVars
  BY <1>2, <1>5 DEF Promise!Acknowledge, Promise!promiseVars, AllStatus, Status
<1> QED
  BY <1>3, <1>4, <1>5 DEF Promise!PromiseNext

\* What the refinement needs of the sensor and the wires.
PathInv == SystemInv /\ SampledInv /\ SensorTypeInv /\ OwnReadings

LEMMA PathStep ==
    ASSUME PathInv, GatewayInv, OwnReadings', [SystemNext]_systemVars
    PROVE  [Path!PathNext]_Places
<1> USE DEF PathInv
<1>1. NothingLost /\ dropped \subseteq sampled
  BY DEF GatewayInv, HandoffInv, SensorTypeInv, S!SensorTypeOK
<1>2. CASE UNCHANGED S!sensorVars
  <2>1. [Promise!PromiseNext]_(Promise!promiseVars)
    BY SystemStepIsGatewayStep, PromiseStep DEF SystemInv
  <2> QED
    BY <1>2, <2>1, PathFollowsPromise DEF S!sensorVars
<1>3. CASE \/ \E m \in Messages : SensorStarts(m)
           \/ SensorStops \/ SensorPosts \/ SensorAccepted \/ SensorFailed
  <2>1. UNCHANGED <<pending, stored>>
    BY <1>3, SensorIsElsewhere DEF vars, queueVars, outsideVars
  <2>2. ASSUME NEW m \in Messages, S!SensorStart(m) \/ S!PostNext(m)
        PROVE  [Path!PathNext]_Places
    BY <1>1, <2>1, <2>2, PathSamples DEF S!SensorStart, S!PostNext
  <2>3. CASE SensorStops
    BY <2>1, <2>3, PathLoses DEF SensorStops
  <2>4. CASE S!Post \/ SensorAccepted \/ SensorFailed
    <3>1. UNCHANGED <<sampled, dropped>>
      BY <2>4 DEF S!Post, SensorAccepted, S!PostAccepted, SensorFailed, S!PostFailed
    <3> QED
      BY <2>1, <3>1, PathStutter DEF Place
  <2> QED
    BY <1>3, <2>2, <2>3, <2>4 DEF SensorStarts, SensorPosts
<1> QED
  BY <1>2, <1>3, SensorSteps

LEMMA PathInvInit == SystemInit => PathInv /\ Path!PathInit
<1> SUFFICES ASSUME SystemInit PROVE PathInv /\ Path!PathInit
  OBVIOUS
<1>1. SampledInv /\ OwnReadings /\ Path!PathInit
  BY NoRequestFields
     DEF SystemInit, S!SensorInit, Init, QueueInit, SampledInv, OwnReadings, Path!PathInit,
         Places, Place
<1>2. SensorTypeInv
  BY SensorTypesInit
<1>3. SystemInv
  BY SystemInvInit
<1> QED
  BY <1>1, <1>2, <1>3 DEF PathInv

\* The three services implement ReadingPath: whatever crashes, times out or
\* arrives late, each reading goes from the sensor to the gateway to the cloud
\* and never back, and the sensor samples the next one only when the last has
\* been taken or has gone with its process.
THEOREM PathKept == SystemSpec => KeepsPath
<1>1. PathInv /\ [SystemNext]_systemVars => PathInv'
  BY SystemStepInv, SampledStep, SensorStep, SensorTypeStep, OwnReadingsStep DEF PathInv
<1>2. PathInv' => OwnReadings'
  BY DEF PathInv
<1>3. PathInv /\ GatewayInv /\ OwnReadings' /\ [SystemNext]_systemVars => [Path!PathNext]_Places
  BY PathStep
<1>4. SystemSpec => []GatewayInv
  BY SystemImplementsGateway, GatewayInvariant, PTL
<1> QED
  BY <1>1, <1>2, <1>3, <1>4, PathInvInit, PTL DEF SystemSpec, KeepsPath, Path!PathSpec

=============================================================================
