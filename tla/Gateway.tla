------------------------------ MODULE Gateway ------------------------------
(***************************************************************************)
(* The edge gateway (services/gateway.py): request handlers that put        *)
(* readings in the durable outbox and answer 202, and the one asyncio       *)
(* worker that takes the oldest due reading, fetches the cloud's key,       *)
(* encrypts, posts, and then deletes the row or backs it off.  Every await  *)
(* of the code is a point between two actions here.                         *)
(*                                                                         *)
(* The outbox is OutboxQueue.  The cloud and the network are environment:   *)
(* a request may be refused, lost, or answered too late, and an envelope    *)
(* whose response was given up may still reach the cloud.  Payloads, keys   *)
(* and ciphertext are left out; the outcomes of the cryptographic calls     *)
(* that the worker tells apart are actions.                                 *)
(***************************************************************************)
EXTENDS OutboxQueue

CONSTANTS
    Modes,      \* the values of CRYPTO_MODE the operator starts the gateway with
    NoMessage,  \* the worker holds no reading
    WarnAfter,  \* GATEWAY_DELIVERY_FAILURE_WARNING_THRESHOLD
    Counted,    \* bound: the metrics counters that are kept, the others stay at 0
    MetricCap   \* bound: the metrics counters stop here

Counters == {"received", "accepted", "rejected", "successes", "failures",
             "duplicates", "key_failures"}

ASSUME GatewayAssumption == /\ Modes \subseteq {"rsa", "mlkem"}
                            /\ NoMessage \notin Messages
                            /\ WarnAfter \in Nat \ {0}
                            /\ Counted \subseteq Counters
                            /\ IsFiniteSet(Callers)
                            /\ MetricCap \in Nat

VARIABLES
    up,           \* the process serves requests (lifespan has been entered)
    mode,         \* CRYPTO_MODE, fixed while the process lives
    request,      \* the handler of POST /v1/readings on each caller thread
    worker,       \* _outbox_worker: where it is, its reading, its POST
    wakeup,       \* application.state.outbox_wakeup is set
    cryptoReady,  \* application.state.crypto_ready
    consecutive,  \* consecutive_delivery_failures, up to the warning threshold
    metrics,      \* MetricsRegistry
    late,         \* readings of envelopes given up by the worker that may still arrive
    stored,       \* message_ids the cloud has stored
    acked         \* (history) message_ids answered with 202

processVars == <<up, mode, request, worker, wakeup, cryptoReady, consecutive, metrics>>
outsideVars == <<late, stored, acked>>
vars == <<queueVars, processVars, outsideVars>>

NoRequest == [pc |-> "idle", msg |-> NoMessage]

Request == {NoRequest} \cup
           [pc : {"enqueueing", "inserted", "existing", "rejected"}, msg : Messages]

Idle(pc) == [pc |-> pc, msg |-> NoMessage, http |-> "none"]

\* http is the fate of the POST: sent, or handled by the cloud with the
\* response on its way back.
WorkerState ==
    {Idle(pc) : pc \in {"off", "top", "selecting", "waiting", "sleeping", "dead"}}
      \cup [pc : {"fetching_key", "retrying"}, msg : Messages, http : {"none"}]
      \cup [pc : {"posting"}, msg : Messages, http : {"sent", "stored", "conflict", "refused"}]
      \cup [pc : {"committing"}, msg : Messages, http : {"stored", "conflict"}]

TypeOK ==
    /\ QueueTypeOK
    /\ up \in BOOLEAN
    /\ mode \in Modes
    /\ request \in [Callers -> Request]
    /\ worker \in WorkerState
    /\ wakeup \in BOOLEAN
    /\ cryptoReady \in BOOLEAN
    /\ consecutive \in 0..WarnAfter
    /\ metrics \in [Counters -> 0..MetricCap]
    /\ late \subseteq Messages
    /\ stored \subseteq Messages
    /\ acked \subseteq Messages

NoMetrics == [c \in Counters |-> 0]

Init ==
    /\ QueueInit
    /\ up = FALSE
    /\ mode \in Modes
    /\ request = [c \in Callers |-> NoRequest]
    /\ worker = Idle("off")
    /\ wakeup = FALSE
    /\ cryptoReady = FALSE
    /\ consecutive = 0
    /\ metrics = NoMetrics
    /\ late = {}
    /\ stored = {}
    /\ acked = {}

\* metrics.increment, for each of the named counters.
Count(names) ==
    metrics' = [c \in Counters |->
                  IF c \in names \cap Counted /\ metrics[c] < MetricCap THEN metrics[c] + 1
                  ELSE metrics[c]]

------------------------------------------------------------------------------
(* the process *)

\* lifespan up to its yield: initialize(), a fresh Event, the worker's task.
\* A start that fails leaves no trace and is not a step.
Start ==
    /\ ~up
    /\ RecoverRows
    /\ up' = TRUE
    /\ mode' \in Modes
    /\ worker' = Idle("top")
    /\ cryptoReady' = TRUE
    /\ UNCHANGED <<request, wakeup, consecutive, metrics, outsideVars>>

\* The worker lets go of its POST; an envelope not yet handled is lost or may
\* still arrive.
AbandonPost ==
    \/ late' = late
    \/ worker.http = "sent" /\ late' = late \cup {worker.msg}

\* A crash, or a stop: worker.cancel() at any await is no different to the
\* database.  Everything in memory is gone, the rows stay.
Crash ==
    /\ up
    /\ AbandonCalls
    /\ up' = FALSE
    /\ request' = [c \in Callers |-> NoRequest]
    /\ worker' = Idle("off")
    /\ wakeup' = FALSE
    /\ cryptoReady' = FALSE
    /\ consecutive' = 0
    /\ metrics' = NoMetrics
    /\ AbandonPost
    /\ UNCHANGED <<mode, stored, acked>>

------------------------------------------------------------------------------
(* POST /v1/readings *)

\* Any client may post any reading at any time, also one it has posted before.
Receive(c, m) ==
    /\ up
    /\ request[c] = NoRequest
    /\ StampCall(c)
    /\ request' = [request EXCEPT ![c] = [pc |-> "enqueueing", msg |-> m]]
    /\ Count({"received"})
    /\ UNCHANGED <<up, mode, worker, wakeup, cryptoReady, consecutive, outsideVars>>

EnqueueReturns(c, outcome) ==
    /\ request' = [request EXCEPT ![c].pc = outcome]
    /\ UNCHANGED <<up, mode, worker, wakeup, cryptoReady, consecutive, metrics, outsideVars>>

EnqueueInserts(c) ==
    /\ request[c].pc = "enqueueing"
    /\ InsertRow(c, request[c].msg)
    /\ EnqueueReturns(c, "inserted")

EnqueueFindsRow(c) ==
    /\ request[c].pc = "enqueueing"
    /\ request[c].msg \in pending
    /\ EndCall(c)
    /\ EnqueueReturns(c, "existing")

\* OutboxFullError
EnqueueIsFull(c) ==
    /\ request[c].pc = "enqueueing"
    /\ OutboxFull(request[c].msg)
    /\ EndCall(c)
    /\ EnqueueReturns(c, "rejected")

\* sqlite3.Error
EnqueueFails(c) ==
    /\ request[c].pc = "enqueueing"
    /\ EndCall(c)
    /\ EnqueueReturns(c, "rejected")

\* Mutant of Accept: the 202 goes out while the row is still being written.
Accept_Early(c) ==
    /\ request[c].pc \in {"enqueueing", "inserted", "existing"}
    /\ request' = [request EXCEPT ![c] = NoRequest]
    /\ Count({"accepted"})
    /\ wakeup' = TRUE
    /\ acked' = acked \cup {request[c].msg}
    /\ UNCHANGED <<queueVars, up, mode, worker, cryptoReady, consecutive, late, stored>>

\* The handler runs on from the await to its 202 in one go.
Accept(c) ==
    /\ request[c].pc \in {"inserted", "existing"}
    /\ request' = [request EXCEPT ![c] = NoRequest]
    /\ Count({"accepted"})
    /\ wakeup' = TRUE
    /\ acked' = acked \cup {request[c].msg}
    /\ UNCHANGED <<queueVars, up, mode, worker, cryptoReady, consecutive, late, stored>>

\* Mutant of Reject: the client is told 202 when the outbox is full.
Reject_Silently(c) ==
    /\ request[c].pc = "rejected"
    /\ request' = [request EXCEPT ![c] = NoRequest]
    /\ Count({"rejected"})
    /\ acked' = acked \cup {request[c].msg}
    /\ UNCHANGED <<queueVars, up, mode, worker, wakeup, cryptoReady, consecutive, late, stored>>

\* Mutant of Reject: the counter is forgotten.
Reject_Uncounted(c) ==
    /\ request[c].pc = "rejected"
    /\ request' = [request EXCEPT ![c] = NoRequest]
    /\ UNCHANGED <<queueVars, up, mode, worker, wakeup, cryptoReady, consecutive, metrics,
                   outsideVars>>

\* HTTP 503
Reject(c) ==
    /\ request[c].pc = "rejected"
    /\ request' = [request EXCEPT ![c] = NoRequest]
    /\ Count({"rejected"})
    /\ UNCHANGED <<queueVars, up, mode, worker, wakeup, cryptoReady, consecutive, outsideVars>>

------------------------------------------------------------------------------
(* _outbox_worker: reading the outbox, waiting *)

WorkerGoes(pc) ==
    /\ worker' = Idle(pc)
    /\ UNCHANGED <<up, mode, request, cryptoReady, consecutive, metrics, outsideVars>>

\* wakeup.clear(), and next_due starts in a thread and reads the clock.
ClearAndRead ==
    /\ worker.pc = "top"
    /\ BeginRead
    /\ wakeup' = FALSE
    /\ WorkerGoes("selecting")

\* sqlite3.Error from next_due: the worker sleeps and polls again.
ReadFails ==
    /\ worker.pc = "selecting"
    /\ EndRead
    /\ WorkerGoes("sleeping")
    /\ UNCHANGED wakeup

\* A due row whose reading raises what no except clause names ends the task: its
\* payload does not validate (ValidationError, in next_due), or CLOUD_URL does not
\* parse (httpx.InvalidURL, before the first await of _deliver_reading).  The row
\* stays, and may do the same to the next process.
ReadingRaises ==
    /\ worker.pc = "selecting"
    /\ \E m \in Messages : IsOldest(m)
    /\ EndRead
    /\ WorkerGoes("dead")
    /\ UNCHANGED wakeup

\* Mutant of NothingDue: wakeup.clear() after next_due, before the wait.
NothingDue_ClearsLate ==
    /\ worker.pc = "selecting"
    /\ visible = {}
    /\ EndRead
    /\ wakeup' = FALSE
    /\ WorkerGoes("waiting")

NothingDue ==
    /\ worker.pc = "selecting"
    /\ visible = {}
    /\ EndRead
    /\ WorkerGoes("waiting")
    /\ UNCHANGED wakeup

\* Mutant of TakeOldest: next_due removes the row it returns.
TakeOldest_Pops ==
    /\ worker.pc = "selecting"
    /\ \E m \in Messages :
         /\ IsOldest(m)
         /\ pending' = pending \ {m}
         /\ due' = due \ {m}
         /\ attempted' = attempted \ {m}
         /\ worker' = [pc |-> "fetching_key", msg |-> m, http |-> "none"]
    /\ reading' = FALSE
    /\ visible' = {}
    /\ UNCHANGED <<ahead, seen, up, mode, request, wakeup, cryptoReady, consecutive, metrics,
                   outsideVars>>

TakeOldest ==
    /\ worker.pc = "selecting"
    /\ \E m \in Messages :
         /\ IsOldest(m)
         /\ worker' = [pc |-> "fetching_key", msg |-> m, http |-> "none"]
    /\ EndRead
    /\ UNCHANGED <<up, mode, request, wakeup, cryptoReady, consecutive, metrics, outsideVars>>

Woken ==
    /\ worker.pc = "waiting"
    /\ wakeup
    /\ WorkerGoes("top")
    /\ UNCHANGED <<queueVars, wakeup>>

\* Mutant of PollExpires: the wait for the event has no timeout.
PollExpires_SleepOnly ==
    /\ worker.pc = "sleeping"
    /\ WorkerGoes("top")
    /\ UNCHANGED <<queueVars, wakeup>>

\* outbox_poll_seconds have passed, in wait_for or in a sleep after an error.
PollExpires ==
    /\ worker.pc \in {"waiting", "sleeping"}
    /\ WorkerGoes("top")
    /\ UNCHANGED <<queueVars, wakeup>>

------------------------------------------------------------------------------
(* _deliver_reading *)

\* The key is there, the envelope is built and the POST goes out.
PostEnvelope ==
    /\ worker.pc = "fetching_key"
    /\ worker' = [worker EXCEPT !.pc = "posting", !.http = "sent"]
    /\ UNCHANGED <<queueVars, up, mode, request, wakeup, cryptoReady, consecutive,
                   metrics, outsideVars>>

FailedAttempt(names) ==
    /\ Count(names)
    /\ consecutive' = IF consecutive < WarnAfter THEN consecutive + 1 ELSE consecutive
    /\ worker' = [worker EXCEPT !.pc = "retrying", !.http = "none"]
    /\ UNCHANGED <<queueVars, up, mode, request, wakeup, stored, acked>>

\* MlKemPublicKeyError: a malformed document, a pin or fingerprint mismatch.
\* Nothing is posted.
KeyRejected ==
    /\ worker.pc = "fetching_key"
    /\ mode = "mlkem"
    /\ cryptoReady' = FALSE
    /\ FailedAttempt({"failures", "key_failures"})
    /\ UNCHANGED late

\* httpx.HTTPError, or in RSA mode an invalid document: the GET timed out, was
\* refused (403 where RSA ingestion is off), or brought no usable key.
KeyFetchFails ==
    /\ worker.pc = "fetching_key"
    /\ FailedAttempt({"failures"})
    /\ UNCHANGED <<cryptoReady, late>>

\* encrypt_for_cloud raises TypeError, which no except clause of the worker
\* names either: the task ends, the process goes on without it.
KeyNotRsa ==
    /\ worker.pc = "fetching_key"
    /\ mode = "rsa"
    /\ WorkerGoes("dead")
    /\ UNCHANGED <<queueVars, wakeup>>

\* httpx.HTTPError on the POST: a refusal, or a response that is lost or late
\* whatever the cloud did.
PostFails ==
    /\ worker.pc = "posting"
    /\ AbandonPost
    /\ FailedAttempt({"failures"})
    /\ UNCHANGED cryptoReady

\* Mutant of PostSucceeds: raise_for_status is missing.
PostSucceeds_AnyStatus ==
    /\ worker.pc = "posting"
    /\ worker.http \in {"stored", "conflict", "refused"}
    /\ worker' = [worker EXCEPT !.pc = "committing"]
    /\ cryptoReady' = TRUE
    /\ consecutive' = 0
    /\ UNCHANGED <<queueVars, up, mode, request, wakeup, metrics, outsideVars>>

\* Mutant of PostSucceeds: crypto_ready is not set again.
PostSucceeds_StaysUnready ==
    /\ worker.pc = "posting"
    /\ worker.http \in {"stored", "conflict"}
    /\ worker' = [worker EXCEPT !.pc = "committing"]
    /\ consecutive' = 0
    /\ UNCHANGED <<queueVars, up, mode, request, wakeup, cryptoReady, metrics, outsideVars>>

\* 2xx, or 409 taken for delivered.
PostSucceeds ==
    /\ worker.pc = "posting"
    /\ worker.http \in {"stored", "conflict"}
    /\ worker' = [worker EXCEPT !.pc = "committing"]
    /\ cryptoReady' = TRUE
    /\ consecutive' = 0
    /\ UNCHANGED <<queueVars, up, mode, request, wakeup, metrics, outsideVars>>

------------------------------------------------------------------------------
(* _outbox_worker: recording the outcome *)

Delivered ==
    /\ worker.pc = "committing"
    /\ DeleteRow(worker.msg)
    /\ Count({"successes"} \cup {c \in {"duplicates"} : worker.http = "conflict"})
    /\ worker' = Idle("top")
    /\ UNCHANGED <<up, mode, request, wakeup, cryptoReady, consecutive, outsideVars>>

\* Mutant of RetryScheduled: a failed reading is given up.
RetryScheduled_GivesUp ==
    /\ worker.pc = "retrying"
    /\ DeleteRow(worker.msg)
    /\ WorkerGoes("top")
    /\ UNCHANGED wakeup

RetryScheduled ==
    /\ worker.pc = "retrying"
    /\ PostponeRow(worker.msg)
    /\ WorkerGoes("top")
    /\ UNCHANGED wakeup

\* sqlite3.Error from mark_delivered or schedule_retry: the row stays due.
OutcomeNotRecorded ==
    /\ worker.pc \in {"committing", "retrying"}
    /\ WorkerGoes("sleeping")
    /\ UNCHANGED <<queueVars, wakeup>>

------------------------------------------------------------------------------
(* the cloud and the network *)

CloudResponds(outcome) ==
    /\ worker' = [worker EXCEPT !.http = outcome]
    /\ UNCHANGED <<queueVars, up, mode, request, wakeup, cryptoReady, consecutive,
                   metrics, late, acked>>

CloudStores ==
    /\ worker.http = "sent"
    /\ worker.msg \notin stored
    /\ stored' = stored \cup {worker.msg}
    /\ CloudResponds("stored")

CloudFindsDuplicate ==
    /\ worker.http = "sent"
    /\ worker.msg \in stored
    /\ UNCHANGED stored
    /\ CloudResponds("conflict")

\* 400 for a key the cloud no longer has, 403 for RSA where it is off, 5xx.
CloudRefuses ==
    /\ worker.http = "sent"
    /\ UNCHANGED stored
    /\ CloudResponds("refused")

\* An envelope the worker has given up reaches the cloud after all, or never;
\* there may be others of the same reading.
LateArrives(m) ==
    /\ m \in late
    /\ late' \in {late, late \ {m}}
    /\ stored' \in {stored, stored \cup {m}}
    /\ UNCHANGED <<queueVars, processVars, acked>>

RowsBecomeDue ==
    /\ TimePasses
    /\ UNCHANGED <<processVars, outsideVars>>

RequestNext(c) ==
    \/ \E m \in Messages : Receive(c, m)
    \/ EnqueueInserts(c)
    \/ EnqueueFindsRow(c)
    \/ EnqueueIsFull(c)
    \/ EnqueueFails(c)
    \/ Accept(c)
    \/ Reject(c)

WorkerNext ==
    \/ ClearAndRead
    \/ ReadFails
    \/ ReadingRaises
    \/ NothingDue
    \/ TakeOldest
    \/ Woken
    \/ PollExpires
    \/ PostEnvelope
    \/ KeyRejected
    \/ KeyFetchFails
    \/ KeyNotRsa
    \/ PostFails
    \/ PostSucceeds
    \/ Delivered
    \/ RetryScheduled
    \/ OutcomeNotRecorded

CloudNext ==
    \/ CloudStores
    \/ CloudFindsDuplicate
    \/ CloudRefuses
    \/ \E m \in Messages : LateArrives(m)

Next ==
    \/ Start
    \/ Crash
    \/ \E c \in Callers : RequestNext(c)
    \/ WorkerNext
    \/ CloudNext
    \/ RowsBecomeDue

Spec == Init /\ [][Next]_vars

\* The event loop runs a task that can go on, and every await of the worker
\* ends: HTTP calls and SQLite's lock have timeouts, sleeps expire.  Time goes
\* on.  Nothing is assumed of clients, of the cloud or of restarts.
Fairness ==
    /\ WF_vars(WorkerNext)
    /\ WF_vars(RowsBecomeDue)

FairSpec == Spec /\ Fairness

------------------------------------------------------------------------------
(* safety *)

\* Durable handoff: a reading the gateway has answered with 202 is in the
\* outbox or in the cloud, whatever crashed, failed or arrived late since.
NothingLost == acked \subseteq pending \cup stored

\* A row leaves the outbox only when the cloud has the reading: the DELETE
\* follows a 2xx or a 409, never a refusal, a timeout or a key failure.
OnlyStoredRowsLeave == [][pending \ pending' \subseteq stored]_vars

\* A worker that waits with the event clear has missed no new reading: every
\* row never tried belongs to a handler that has yet to call wakeup.set().
\* (wakeup.clear() comes before next_due, so a set() in between is kept.)
NoLostWakeup ==
    worker.pc = "waiting" /\ ~wakeup =>
        \A m \in pending \ attempted :
            \E c \in Callers : request[c].msg = m /\ request[c].pc = "inserted"

\* An alarm can always clear: while the gateway reports crypto_ready false, or
\* counts consecutive failures, some reading is still queued whose delivery
\* resets both; and the failed key is among the failures counted.
AlarmCanClear ==
    up => /\ ~cryptoReady => pending # {} /\ consecutive > 0
          /\ consecutive > 0 => pending # {}

\* The reading in the worker's hands keeps its row until the worker records
\* the outcome, so schedule_retry and mark_delivered find it, and its row is
\* deleted only with the reading in the cloud.
RowIsHeld ==
    /\ worker.msg # NoMessage => worker.msg \in pending
    /\ worker.pc = "committing" => worker.msg \in stored

\* Every request counted as received is counted accepted or rejected, or its
\* handler is still at work (where these are kept, and below their bound).
RequestsAccounted ==
    {"received", "accepted", "rejected"} \subseteq Counted /\ metrics["received"] < MetricCap =>
        metrics["received"] = metrics["accepted"] + metrics["rejected"]
                                + Cardinality({c \in Callers : request[c] # NoRequest})

\* What /ready answers from: crypto_ready and the outbox, not the worker.
Ready == up /\ cryptoReady /\ Cardinality(pending) < MaxPending

\* docs/observability.md: /ready "answers whether the service can currently
\* perform its own role", which for the gateway is to forward what it accepts.
ReadyMeansForwarding == Ready => worker.pc # "dead"

------------------------------------------------------------------------------
(* refinement and liveness *)

Promise == INSTANCE StoreAndForward WITH
    status <- [m \in Messages |-> IF m \in stored THEN "delivered"
                                  ELSE IF m \in pending THEN "queued" ELSE "new"],
    acknowledged <- acked

\* The gateway keeps the promise of StoreAndForward: no reading is delivered
\* or acknowledged that was not queued first, and none goes back to being new.
KeepsPromise == Promise!PromiseSpec

Fault == \/ Crash \/ ReadFails \/ ReadingRaises \/ KeyRejected \/ KeyFetchFails \/ KeyNotRsa
         \/ PostFails \/ CloudRefuses \/ OutcomeNotRecorded

\* From some point on the process stays up with its worker, and nothing fails.
FairWeather ==
    /\ <>[](worker.pc \notin {"off", "dead"})
    /\ <>[][~Fault]_vars

\* Once the faults end, every queued reading gets to the cloud and out of the
\* outbox, however many newer requests, repeats of old ones included, go on
\* arriving: the oldest row goes first.
QueueDrains ==
    FairWeather => \A m \in Messages : m \in pending ~> (m \in stored /\ m \notin pending)

\* ... and the readiness the key failures took away comes back.
ReadinessReturns == FairWeather => ((up /\ ~cryptoReady) ~> cryptoReady)

==============================================================================
