------------------------------- MODULE Sensor -------------------------------
(***************************************************************************)
(* The sensor (services/sensor.py): it samples a reading, posts it to the   *)
(* gateway until it is accepted, waits, and samples the next.  The reading  *)
(* is in memory only.  A POST is two steps, the request and its outcome.    *)
(***************************************************************************)
EXTENDS Naturals

CONSTANTS
    Messages,        \* bound: the message_ids there are to be drawn
    NoMessage,       \* there is no reading
    SensorWarnAfter  \* SENSOR_FAILURE_WARNING_THRESHOLD

VARIABLES
    sensor,         \* _forward_readings: where it is
    latest,         \* application.state.latest_reading
    sensorFailures, \* consecutive_gateway_failures, up to the warning threshold
    generated,      \* readings_generated_total
    successes,      \* gateway_send_successes_total
    sampled,        \* (history) readings sampled by this or an earlier process
    dropped         \* (history) readings that went with their process

sensorVars == <<sensor, latest, sensorFailures, generated, successes, sampled, dropped>>

SensorTypeOK ==
    /\ sensor \in {"off", "starting", "posting", "pausing", "backing_off"}
    /\ latest \in Messages \cup {NoMessage}
    /\ sensorFailures \in 0..SensorWarnAfter
    /\ generated \in Nat
    /\ successes \in Nat
    /\ sampled \subseteq Messages
    /\ dropped \subseteq sampled

SensorInit ==
    /\ sensor = "off"
    /\ latest = NoMessage
    /\ sensorFailures = 0
    /\ generated = 0
    /\ successes = 0
    /\ sampled = {}
    /\ dropped = {}

------------------------------------------------------------------------------

\* sample_reading: message_id is a fresh uuid4.
Sample(m) ==
    /\ m \notin sampled
    /\ latest' = m
    /\ sampled' = sampled \cup {m}
    /\ generated' = generated + 1

\* lifespan up to its yield
SensorStart(m) ==
    /\ sensor = "off"
    /\ Sample(m)
    /\ sensor' = "starting"
    /\ UNCHANGED <<sensorFailures, successes, dropped>>

\* A crash, or forward_task.cancel(): the reading goes with the process unless
\* the gateway's answer has arrived.
SensorStop ==
    /\ sensor # "off"
    /\ sensor' = "off"
    /\ latest' = NoMessage
    /\ sensorFailures' = 0
    /\ generated' = 0
    /\ successes' = 0
    /\ dropped' = IF sensor = "pausing" THEN dropped ELSE dropped \cup {latest}
    /\ UNCHANGED sampled

\* client.post goes out for the first time, or again with the same reading.
Post ==
    /\ sensor \in {"starting", "backing_off"}
    /\ sensor' = "posting"
    /\ UNCHANGED <<latest, sensorFailures, generated, successes, sampled, dropped>>

\* Mutant of PostNext: whatever the last answer was, the next POST has a new
\* reading.
PostNext_AfterFailure(m) ==
    /\ sensor \in {"pausing", "backing_off"}
    /\ Sample(m)
    /\ sensor' = "posting"
    /\ UNCHANGED <<sensorFailures, successes, dropped>>

\* The interval is over: the loop samples and goes round to client.post.
PostNext(m) ==
    /\ sensor = "pausing"
    /\ Sample(m)
    /\ sensor' = "posting"
    /\ UNCHANGED <<sensorFailures, successes, dropped>>

PostAccepted ==
    /\ sensor = "posting"
    /\ sensor' = "pausing"
    /\ successes' = successes + 1
    /\ sensorFailures' = 0
    /\ UNCHANGED <<latest, generated, sampled, dropped>>

\* httpx.HTTPError: no connection, a timeout, or a refusal such as 503.
PostFailed ==
    /\ sensor = "posting"
    /\ sensor' = "backing_off"
    /\ sensorFailures' = IF sensorFailures < SensorWarnAfter THEN sensorFailures + 1
                         ELSE sensorFailures
    /\ UNCHANGED <<latest, generated, successes, sampled, dropped>>

SensorNext ==
    \/ \E m \in Messages : SensorStart(m) \/ PostNext(m)
    \/ SensorStop
    \/ Post
    \/ PostAccepted
    \/ PostFailed

SensorSpec == SensorInit /\ [][SensorNext]_sensorVars

------------------------------------------------------------------------------
(* properties *)

\* No reading is passed over while the process lives: all that it has sampled
\* but the latest have been accepted, the latest too while it pauses, and the
\* failures it counts are those of a reading it still has.
SensorAccounted ==
    sensor # "off" =>
        /\ generated = successes + (IF sensor = "pausing" THEN 0 ELSE 1)
        /\ sensorFailures > 0 => sensor \in {"posting", "backing_off"}

==============================================================================
