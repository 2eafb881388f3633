------------------------------ MODULE Delivery ------------------------------
(***************************************************************************)
(* The three services together: the sensor (Sensor.tla) posts its readings  *)
(* to the gateway (Gateway.tla), whose worker fetches the cloud's key and   *)
(* posts envelopes to the cloud (Cloud.tla).  Every step is a step of one   *)
(* service, or of two that exchange a request or a response; each service   *)
(* may crash and be started again with other settings.  Gateway's "any      *)
(* client" becomes the sensor here, and its "any answer" what this cloud    *)
(* answers to this envelope.                                                *)
(***************************************************************************)
EXTENDS Gateway

CONSTANTS
    NoEnvelope,      \* no POST of the worker is under way
    CloudWarnAfter,  \* CLOUD_VALIDATION_FAILURE_WARNING_THRESHOLD
    SensorWarnAfter, \* SENSOR_FAILURE_WARNING_THRESHOLD
    MaxStarts,       \* bound: starts of the cloud
    CloudMetricCap,  \* bound: the cloud's metrics counters stop here
    MaxStrays        \* bound: given-up envelopes under way at a time

VARIABLES
    cloudUp, allowRsa, rsaKey, column, byMlkem, invalidRun, cloudMetrics,   \* Cloud
    sensor, latest, sensorFailures, generated, successes, sampled, dropped, \* Sensor
    pinned,  \* EXPECTED_MLKEM_KEY_ID is the cloud's ML-KEM key_id
    post,    \* the envelope of the worker's POST until the cloud has answered it
    strays,  \* envelopes of POSTs the worker has given up, not yet arrived
    hop,     \* where the sensor's POST is
    echoes   \* readings of POSTs the sensor has given up, not yet arrived

C == INSTANCE Cloud
S == INSTANCE Sensor

cloudOwnVars == <<cloudUp, allowRsa, rsaKey, column, byMlkem, invalidRun, cloudMetrics>>
sensorVars == <<sensor, latest, sensorFailures, generated, successes, sampled, dropped>>
wires == <<post, strays, hop, echoes>>
gatewayOwnVars == <<queueVars, processVars, acked>>
systemVars == <<vars, cloudOwnVars, sensorVars, wires, pinned>>

ASSUME DeliveryAssumption == /\ NoEnvelope \notin C!Envelope
                             /\ CloudWarnAfter \in Nat \ {0}
                             /\ SensorWarnAfter \in Nat \ {0}
                             /\ MaxStarts \in Nat \ {0}
                             /\ CloudMetricCap \in Nat
                             /\ MaxStrays \in Nat
                             /\ {"none", "wire", "accepted", "refused", "lost"} \cap Callers = {}

\* A POST of the sensor is on its way, in the hands of a caller thread, answered
\* with 202 or 503, or its connection is gone.
Hops == {"none", "wire", "accepted", "refused", "lost"} \cup Callers

SystemTypeOK ==
    /\ TypeOK
    /\ C!CloudTypeOK
    /\ S!SensorTypeOK
    /\ pinned \in BOOLEAN
    /\ post \in C!Envelope \cup {NoEnvelope}
    /\ strays \subseteq C!Envelope
    /\ hop \in Hops
    /\ echoes \subseteq Messages

SystemInit ==
    /\ Init
    /\ C!CloudInit
    /\ S!SensorInit
    /\ pinned = FALSE
    /\ post = NoEnvelope
    /\ strays = {}
    /\ hop = "none"
    /\ echoes = {}

------------------------------------------------------------------------------
(* the sensor's POST *)

\* The sensor lets go of its POST; a request the gateway has not received yet
\* is lost or may still arrive.
AbandonHop ==
    /\ hop' = "none"
    /\ \/ echoes' = echoes
       \/ hop = "wire" /\ echoes' = echoes \cup {latest}

SensorStarts(m) ==
    /\ S!SensorStart(m)
    /\ UNCHANGED <<vars, cloudOwnVars, wires, pinned>>

SensorStops ==
    /\ S!SensorStop
    /\ AbandonHop
    /\ UNCHANGED <<vars, cloudOwnVars, post, strays, pinned>>

SensorPosts ==
    /\ S!Post \/ \E m \in Messages : S!PostNext(m)
    /\ hop' = "wire"
    /\ UNCHANGED <<vars, cloudOwnVars, post, strays, echoes, pinned>>

\* Mutant of SensorAccepted: raise_for_status is missing.
SensorAccepted_AnyStatus ==
    /\ hop \in {"accepted", "refused"}
    /\ S!PostAccepted
    /\ hop' = "none"
    /\ UNCHANGED <<vars, cloudOwnVars, post, strays, echoes, pinned>>

SensorAccepted ==
    /\ hop = "accepted"
    /\ S!PostAccepted
    /\ hop' = "none"
    /\ UNCHANGED <<vars, cloudOwnVars, post, strays, echoes, pinned>>

\* A refusal, a broken connection, or a timeout wherever the request is.
SensorFailed ==
    /\ S!PostFailed
    /\ AbandonHop
    /\ UNCHANGED <<vars, cloudOwnVars, post, strays, pinned>>

ReadingArrives(c) ==
    /\ hop = "wire"
    /\ Receive(c, latest)
    /\ hop' = c
    /\ UNCHANGED <<cloudOwnVars, sensorVars, post, strays, echoes, pinned>>

EchoArrives(c) ==
    /\ \E m \in echoes : Receive(c, m) /\ echoes' = echoes \ {m}
    /\ UNCHANGED <<cloudOwnVars, sensorVars, post, strays, hop, pinned>>

HandlerEnqueues(c) ==
    /\ EnqueueInserts(c) \/ EnqueueFindsRow(c) \/ EnqueueIsFull(c) \/ EnqueueFails(c)
    /\ UNCHANGED <<cloudOwnVars, sensorVars, wires, pinned>>

\* Nobody waits for the answer of a handler whose request was given up.
HandlerAnswers(c) ==
    /\ \/ Accept(c) /\ hop' = IF hop = c THEN "accepted" ELSE hop
       \/ Reject(c) /\ hop' = IF hop = c THEN "refused" ELSE hop
    /\ UNCHANGED <<cloudOwnVars, sensorVars, post, strays, echoes, pinned>>

------------------------------------------------------------------------------
(* the gateway's process and its worker *)

\* The pin counts in ML-KEM mode only.
GatewayStarts ==
    /\ Start
    /\ pinned' \in BOOLEAN
    /\ pinned' => mode' = "mlkem"
    /\ UNCHANGED <<cloudOwnVars, sensorVars, wires>>

GiveUpPost ==
    /\ \/ strays' = strays
       \/ worker.http = "sent" /\ strays' = strays \cup {post}
    /\ Cardinality(strays') <= MaxStrays
    /\ late' = {e.msg : e \in strays'}
    /\ post' = NoEnvelope

GatewayCrashes ==
    /\ Crash
    /\ GiveUpPost
    /\ hop' = IF hop \in Callers THEN "lost" ELSE hop
    /\ UNCHANGED <<cloudOwnVars, sensorVars, echoes, pinned>>

\* What the worker does between its requests to the cloud.
WorkerAlone ==
    /\ \/ ClearAndRead \/ ReadFails \/ ReadingRaises \/ NothingDue \/ TakeOldest
       \/ Woken \/ PollExpires
       \/ PostSucceeds \/ Delivered \/ RetryScheduled \/ OutcomeNotRecorded
    /\ UNCHANGED <<cloudOwnVars, sensorVars, wires, pinned>>

\* The cloud serves a key of the gateway's mode, and the one it is pinned to.
KeyServed ==
    /\ cloudUp
    /\ mode = "rsa" => allowRsa
    /\ mode = "mlkem" => pinned

\* encrypt_for_cloud and encrypt_for_cloud_mlkem, with the key just served.
RsaEnvelope(m) == [msg |-> m, alg |-> "rsa", key |-> rsaKey]

MlKemEnvelope(m) == [msg |-> m, alg |-> "mlkem", key |-> 1]

\* The GET brings the cloud's key of the gateway's mode, and the envelope made
\* with it goes out before anything else can happen in the gateway.
EnvelopeSent ==
    /\ KeyServed
    /\ PostEnvelope
    /\ post' = IF mode = "rsa" THEN RsaEnvelope(worker.msg) ELSE MlKemEnvelope(worker.msg)
    /\ UNCHANGED <<cloudOwnVars, sensorVars, strays, hop, echoes, pinned>>

PinMismatch ==
    /\ cloudUp
    /\ ~pinned
    /\ KeyRejected
    /\ UNCHANGED <<cloudOwnVars, sensorVars, wires, pinned>>

\* HTTP 403 on the GET
KeyRefused ==
    /\ mode = "rsa"
    /\ C!RefuseRsaKey
    /\ KeyFetchFails
    /\ UNCHANGED <<sensorVars, wires, pinned>>

KeyUnreachable ==
    /\ KeyFetchFails
    /\ UNCHANGED <<cloudOwnVars, sensorVars, wires, pinned>>

DeliveryFailed ==
    /\ PostFails
    /\ GiveUpPost
    /\ UNCHANGED <<cloudOwnVars, sensorVars, hop, echoes, pinned>>

\* The worker's task may end in ReadingRaises.  KeyNotRsa needs another cloud: the
\* document of this one holds its own RSA key, and what is not a document of that
\* form is a ValueError, which is KeyUnreachable.
WorkerSteps ==
    WorkerAlone \/ EnvelopeSent \/ PinMismatch \/ KeyRefused \/ KeyUnreachable \/ DeliveryFailed

TimeGoesOn ==
    /\ RowsBecomeDue
    /\ UNCHANGED <<cloudOwnVars, sensorVars, wires, pinned>>

------------------------------------------------------------------------------
(* the cloud *)

CloudStarts ==
    /\ \E allow \in BOOLEAN : C!CloudStart(allow)
    /\ UNCHANGED <<gatewayOwnVars, late, sensorVars, wires, pinned>>

CloudCrashes ==
    /\ C!CloudCrash
    /\ UNCHANGED <<gatewayOwnVars, late, sensorVars, wires, pinned>>

\* store_reading for the worker's POST; the answer is on its way.
CloudAnswers ==
    /\ \/ CloudStores /\ C!StoreRow(post)
       \/ CloudFindsDuplicate /\ C!ReportDuplicate(post)
       \/ CloudRefuses /\ (C!RefuseRsa(post) \/ C!RefuseInvalid(post) \/ C!InsertFails(post))
    /\ post' = NoEnvelope
    /\ UNCHANGED <<sensorVars, strays, hop, echoes, pinned>>

\* An envelope given up arrives after all, at whichever process is then there.
StrayArrives ==
    /\ \E e \in strays : C!StoreReading(e) /\ strays' = strays \ {e}
    /\ late' = {e.msg : e \in strays'}
    /\ UNCHANGED <<gatewayOwnVars, sensorVars, post, hop, echoes, pinned>>

SystemNext ==
    \/ \E m \in Messages : SensorStarts(m)
    \/ SensorStops
    \/ SensorPosts
    \/ SensorAccepted
    \/ SensorFailed
    \/ \E c \in Callers : ReadingArrives(c) \/ EchoArrives(c) \/ HandlerEnqueues(c) \/ HandlerAnswers(c)
    \/ GatewayStarts
    \/ GatewayCrashes
    \/ WorkerSteps
    \/ TimeGoesOn
    \/ CloudStarts
    \/ CloudCrashes
    \/ CloudAnswers
    \/ StrayArrives

SystemSpec == SystemInit /\ [][SystemNext]_systemVars

------------------------------------------------------------------------------
(* faults and fairness *)

\* What goes wrong by itself: a process stops, SQLite reports an error, a reading
\* ends the worker, or a request or its response is lost or late between processes
\* that are up.  What follows from it, or from the settings, is no further fault,
\* nor is the restart of a gateway whose worker has ended.
SystemFault ==
    \/ SensorStops
    \/ worker.pc # "dead" /\ GatewayCrashes
    \/ CloudCrashes
    \/ ReadFails
    \/ ReadingRaises
    \/ OutcomeNotRecorded
    \/ \E c \in Callers : EnqueueFails(c) /\ ~OutboxFull(request[c].msg)
    \/ up /\ SensorFailed /\ hop \notin {"refused", "lost"}
    \/ KeyServed /\ KeyUnreachable
    \/ cloudUp /\ DeliveryFailed /\ worker.http # "refused"
    \/ CloudRefuses /\ C!InsertFails(post) /\ column = "cloud_received_at"

\* The tasks of the services that are up go on, the network carries a request
\* between them, and rows become due.
SystemFairness ==
    /\ WF_systemVars(WorkerSteps)
    /\ WF_systemVars(TimeGoesOn)
    /\ WF_systemVars(CloudAnswers)
    /\ WF_systemVars(SensorPosts \/ SensorAccepted \/ SensorFailed)
    /\ WF_systemVars(\E c \in Callers : ReadingArrives(c))
    /\ \A c \in Callers : WF_systemVars(HandlerEnqueues(c) \/ HandlerAnswers(c))

------------------------------------------------------------------------------
(* properties *)

\* No reading is skipped: one that the sensor has ever sampled is the one it is
\* still posting, or in the outbox, or in the cloud, or was the one in the
\* memory of a sensor that stopped before it saw the 202.
NoneSkipped ==
    sampled \subseteq dropped \cup pending \cup stored
                      \cup {m \in {latest} : sensor # "pausing"}

SensorAccounted == S!SensorAccounted

\* Who answers for a reading: the furthest of the services it has come to.
Place(m) ==
    IF m \in stored THEN "cloud"
    ELSE IF m \in pending THEN "gateway"
    ELSE IF m \in dropped THEN "lost"
    ELSE IF m \in sampled THEN "sensor"
    ELSE "new"

Places == [m \in Messages |-> Place(m)]

Path == INSTANCE ReadingPath WITH place <- Places

\* The three services are one path for readings: none changes hands but
\* forward, none is in no one's hands, and the sensor samples the next only when
\* the last has been taken or lost, with crashes and restarts of each service,
\* POSTs given up that arrive later, and repeats of what was delivered.
KeepsPath == Path!PathSpec

\* From some point on gateway and cloud are up, with settings that go together and
\* a worker that does not end, and nothing else goes wrong.
Settled ==
    /\ <>[](worker.pc \notin {"off", "dead"} /\ KeyServed)
    /\ <>[][~SystemFault]_systemVars

\* Then every reading the sensor has sampled gets to the cloud, unless it went
\* with a sensor that stopped: whatever was refused, lost or late before, and
\* however long an RSA gateway was kept waiting by a cloud without RSA, and
\* whatever ended the worker of an earlier gateway process.
EveryReadingArrives ==
    Settled => \A m \in Messages : m \in sampled ~> m \in stored \cup dropped

==============================================================================
