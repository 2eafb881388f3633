# Verification of the temperature pipeline

Formal models of the sensor - gateway - cloud system in `src/src/temperature_pqc`,
checked with TLC on small instances and, where it matters most, proved with TLAPS
for every size. Source lines below are relative to `src/src/temperature_pqc`.

## 1. The system

A simulated **sensor** samples a reading every few seconds and posts it to the
**gateway** until it is accepted. The gateway puts it in a durable SQLite
**outbox**, answers 202, and forwards it from one background worker: fetch the
cloud's public key, encrypt (RSA or ML-KEM, fixed when the process starts), POST,
delete the row on 2xx or 409, back it off on failure. The **cloud** decrypts,
validates and inserts into its **reading store**, whose primary key turns a repeat
into 409. Everything is FastAPI on asyncio; database calls of the gateway run in
threads (`asyncio.to_thread`).

| Component | State | Operations | What is hard |
|---|---|---|---|
| Outbox (`outbox.py`) | table `gateway_outbox` (created_at, attempt_count, next_attempt_at per message_id), `total_retries` | initialize, enqueue, next_due, mark_delivered, schedule_retry, status | threads on one write lock, stamps taken before the lock, rollback, restart, capacity, wall clock |
| Gateway (`services/gateway.py`) | worker task, wakeup event, `crypto_ready`, consecutive failures, counters, one handler per request | POST /v1/readings, worker loop, lifespan, /ready | wakeups, awaits, crash between POST and DELETE, lost and late responses, failed database writes, the task ending |
| Cloud (`services/cloud.py`) | RSA pair (new at every start), ML-KEM pair, RSA policy, counters | key documents, POST /v1/readings | key replaced between GET and POST, envelopes from before a policy change, duplicates |
| Seed file (`crypto.py` 133-161) | one file of 64 bytes | load_or_create | concurrent starts, crash between create and write |
| Reading store (`storage.py`) | table `readings` | initialize with migration, insert, list | primary key, old schema |
| Envelopes (`crypto.py`, `models.py`) | none | encrypt, decrypt, key checks | which key opens which envelope |
| Sensor (`services/sensor.py`) | `latest_reading`, counters | forwarding loop | same reading retried after a timeout, reading lost at restart |
| Metrics, monitoring (`observability.py`) | counters under a lock | increment, snapshot | adding up over awaits |
| Configuration (`config.py`) | immutable settings | checks at start | |

What makes each correct: the outbox never exceeds its capacity, loses or reorders
nothing, and follows the backoff schedule; the gateway never loses what it has
acknowledged, deletes only what the cloud has, never sleeps through a new reading
and drains once faults end; the cloud stores each message once and has one ML-KEM
key for ever; the sensor repeats a reading until it is accepted. The hazards
behind these, each with its line, are listed in `PROJECT.json`.

## 2. Modules

| Module | Models | State and actions |
|---|---|---|
| `OutboxQueue` | what the outbox promises: a set of pending readings in one line, each due or backed off, no clock | `ahead[m]` is the place of m in `ORDER BY created_at, rowid`; `seen[c]` the rows present when call c took its stamp |
| `GatewayOutbox` | `outbox.py` with SQLite's write lock and `time.time()` | `rows` is the table, `writer` the holder of the lock; a transaction is its BEGIN with the SELECTs, and its commit; `clock` counts ticks |
| `OutboxRefinement` | the mapping from the second to the first | adds the history variable `seen` |
| `Gateway` | `services/gateway.py` over `OutboxQueue` | one action per stretch of code between two awaits; `worker.pc` names the await the worker is in, `worker.http` the fate of its POST |
| `StoreAndForward` | what the gateway promises its clients | each reading is new, queued or delivered; acknowledged only after it was queued |
| `MCGateway` | symmetry sets for TLC | |
| `SeedFile` | `load_or_create` | one action per system call on the file |
| `OneSeed` | what `load_or_create` promises the processes of the cloud | a seed that is settled once, and what each process serves; `SeedFile!Settled` maps a missing and an empty file to "not yet" |
| `Cloud` | `services/cloud.py`, `storage.py`, the key pairs of `crypto.py` | one action per outcome of a request: `store_reading` has no await. `rsaKey` numbers the starts, `column` is the table's timestamp column, `byMlkem` the rows with that `security_mode` |
| `Sensor` | `services/sensor.py` | `sensor` is the await `_forward_readings` is in, `latest` the reading in memory |
| `Delivery` | `Gateway`, `Cloud` and `Sensor` together with what is between them | joint actions of the services that exchange a message; `hop` is the sensor's POST, `post` the worker's, `echoes` and `strays` those given up by their senders but still on their way |
| `ReadingPath` | what the three services promise together | each reading is new, with the sensor, the gateway or the cloud, or lost with a sensor that stopped; `Delivery!Place` is the furthest of those it has come to |
| `MCDelivery` | `Delivery` with a bound on faults, and the order of the first starts in `docker-compose.yml` | |
| `OutboxQueueProofs`, `GatewayOutboxProofs`, `OutboxRefinementProofs`, `GatewayProofs`, `SeedFileProofs`, `CloudProofs`, `DeliveryProofs` | theorems about the module of that name | |
| `ReadingPathProofs` | `Delivery` implements `ReadingPath` | |

Definitions named `<Action>_<Defect>` are mutants: the action as it would be with
a plausible bug. Nothing uses them; each shows, put in the place of its action,
that a property would notice the bug.

How code maps to actions, by example. `enqueue` takes its stamp (line 103),
opens a connection, takes the lock and reads (104-120), inserts and commits
(121-133): `EnqueueStamps`, `EnqueueBegins`, `EnqueueInserts` or
`EnqueueDeclines`, and `EnqueueFails` for a `sqlite3.Error` at any point. In the
worker, `wakeup.clear()` and the start of `next_due` are one action
(`ClearAndRead`) because no await separates them; a handler runs from its await
to the 202 in one action (`Accept`) for the same reason. `asyncio.to_thread`
calls take effect at a point of their own between those. In the cloud a request
is one action from its arrival to its answer. In the composition the worker's
GET, its envelope and the start of its POST are one action (`EnvelopeSent`): the
key is read at the cloud at some moment, and nothing the gateway does happens
between that moment and the POST. What the cloud does in between is not lost: a
restart right after `EnvelopeSent` is the restart between GET and POST.

Simplifications that lose nothing the properties tell apart:

- A reading is its message_id. Two POSTs with one id and different content are
  the same to the outbox, which looks at the id only, and to the primary key.
- A tick is one unit of delay; `created_at` and `next_attempt_at` are tick counts.
  Equal stamps happen and are ordered by rowid. A rowid is kept as the set of
  rows a row follows, since SQLite gives a new row the largest rowid plus one.
- Consecutive failures are counted up to the warning threshold, the only number
  anything compares them with.
- A stop of the process (`worker.cancel()`) and a crash are one action: both drop
  memory and roll back what is uncommitted.
- In `Gateway` alone the cloud is environment: it stores, reports a duplicate or
  refuses, and the response may be lost or late; an envelope given up by the
  worker may arrive at any later time or never. In `Delivery` the same actions
  are joined with those of `Cloud`, and clients are the `Sensor`.
- Of an envelope there is left its reading, its algorithm and the number of the
  key pair that opens it to a valid reading of that message_id. RSA pair n is that
  of the cloud's n-th start; the ML-KEM pair is 1 at every start, which is what
  `SeedFile!KeyIsStable` says of it; 0 is what no pair opens (tampered, another
  key_id, another reading inside).
- An envelope given up by the worker may reach any later process of the cloud,
  also one it had no connection to: more than TCP allows, never less.
- A pin (`EXPECTED_MLKEM_KEY_ID`) fits the cloud's key or does not, and is chosen
  anew at every start of the gateway, as are the mode and `ALLOW_RSA_INGEST`.
- Exceptions that end the worker's task are two actions of `Gateway`.
  `ReadingRaises` is a `ValidationError` of `next_due` for a payload it cannot read
  (`outbox.py` 157; `services/gateway.py` 159 catches `sqlite3.Error` only), or an
  `httpx.InvalidURL` for `CLOUD_URL` before the first await of the delivery (54);
  which payload or URL does so is not kept, so it may happen to any row or none.
  `KeyNotRsa` is the `TypeError` of `encrypt_for_cloud` for a key that is not RSA
  (`crypto.py` 203-204). `Delivery` has the first as one of its faults; the second
  takes another cloud than this one, whose RSA endpoint serves its own pair.
- Machines stay up: what SQLite has committed and the file system has accepted is
  not lost. Only processes die.

## 3. Runs

| Run | Instance | Shows |
|---|---|---|
| `outbox_contention` | 3 readings, 2 threads and the worker, room for 2 rows, clock 0..1 that may step back, 2 retries | `TypeOK`, `Capacity`, `VerdictHolds`, `HeldRowIsStored`, `LockHasOwner`, `RetriesAccounted` |
| `outbox_backoff` | 2 readings, 1 thread, delays 1, 2, 3 (cap), clock 0..6, 4 retries | `WaitFollowsSchedule`, `WaitIsBounded` |
| `outbox_refinement` | 2 readings, 2 threads, room for both, clock 0..2, 1 retry | `ImplementsQueue`, `QueueInvariants`, `RowsFormOneLine`, `HandsOutOldest` |
| `outbox_clock_step` | 1 reading, clock 0..4 that may step back | `WaitIsBounded` fails |
| `gateway_safety` | 2 readings, 2 handlers, room for 1 row, both modes, symmetry | `TypeOK`, `NothingLost`, `NoLostWakeup`, `AlarmCanClear`, `RowIsHeld`, `OnlyStoredRowsLeave`, `KeepsPromise` |
| `gateway_liveness` | 2 readings, 1 handler, room for 2 rows, ML-KEM | `QueueDrains`, `AlarmCanClear` with a second row behind the failing one |
| `gateway_recovery` | 1 reading, 2 handlers, both modes, request counters to 3 | `ReadinessReturns`, `RequestsAccounted` |
| `gateway_ready` | 1 reading, 1 handler | `ReadyMeansForwarding` fails |
| `seed_file` | 3 processes, 3 seeds | `TypeOK`, `KeyIsStable`, `ServedKeyIsStored`, `SettlesOneKey` |
| `seed_race` | 2 processes, 2 seeds | `StartsSucceed` fails |
| `cloud` | 2 readings, 2 starts, tables of any age and content, counters to 4 | `CloudTypeOK` (a process that serves has the table its INSERT names), `CountersAgree`, `RowsStay` |
| `delivery` | 2 readings, 1 handler, room for 1 row, both modes, 2 starts of the cloud over a table of an earlier version, 1 fault | `SystemTypeOK`, `NoneSkipped`, `SensorAccounted`, `KeepsPath`, `EveryReadingArrives` |

Deadlock is checked where processes can always restart; `cloud` and `delivery`
bound the starts or the faults. `cloud` so does stop (`CHECK_DEADLOCK FALSE`);
`delivery` does not: a gateway whose worker has ended can be restarted, and any
other that is up has a worker with a step to take.

Bounds, and why they suffice. Two readings show order, a duplicate and a full
outbox; two threads show every overlap of two calls, and the lock admits no third
party to a transaction. `MaxClock` and `MaxRetries` stop the clock and the
retries; the backoff reaches its cap at the third attempt in `outbox_backoff`. Two
instants are enough for the clock of `outbox_contention` to step back. On such a clock
the queue is not implemented, for a new row may sort before older ones. What is left
of its order then, `RowsFormOneLine` and `HandsOutOldest`, is proved for every clock;
`outbox_refinement` checks it on a steady one, where rows share a stamp.
`Counted` names the counters a gateway run keeps and `MetricCap` where they stop:
in `gateway_recovery` they reach 3, since `RequestsAccounted` is compared below the
bound and two requests have to overlap there; the other runs keep none, since
nothing reads the counters. `CloudMetricCap` is 4 in `cloud` for the same reason:
`CountersAgree` compares up to three requests, such as a stored reading, its
duplicate and a refusal. `WarnAfter` and its like are 1 or 2: the threshold is reached at once or after a second failure.
`MaxStarts` is 2: an envelope of the pair before and one of the pair now; it is
also where the policy changes. `MaxStrays` is 1: one given-up envelope on its way
next to the worker's own. `MaxFaults` is 1 in `delivery`: one crash, lost message,
timeout, SQLite error or end of the worker at any point, with all that follows from
it, which is never counted (the restart of a gateway whose worker has ended
included), and wrong settings at no charge; two at a time are beyond TLC, and
the safety theorems need no such bound. Symmetry is used only where no liveness
property is checked.

Fairness. `Gateway!FairSpec` has `WF(WorkerNext)`: the event loop runs a task that
can go on, and each of the worker's awaits ends, since httpx has a timeout,
SQLite's connection a timeout of 5 seconds, and the waits are timed; and
`WF(RowsBecomeDue)`: time goes on. Clients, the cloud and restarts get none.
`QueueDrains` and `ReadinessReturns` assume `FairWeather`: from some point on the
process stays up with its worker and nothing fails.

`Delivery!SystemFairness` is weak throughout as well: the worker and time as
above; the sensor's task, whose POST has a timeout and whose sleeps end; each
handler of the gateway; and the network and the event loop at the other end, in
that a request sent to a process that is up arrives. Nothing makes a process
start, fixes a setting or delivers what its sender has given up.
`EveryReadingArrives` assumes `Settled`: from some point on gateway and cloud are
up with settings that go together (ALLOW_RSA_INGEST for an RSA gateway, the right
pin for an ML-KEM one), the gateway's worker has not ended, and nothing goes wrong
by itself any more. A refusal is not such a fault: the 403 of a cloud without RSA,
the 400 for an envelope of an older pair and the 503 of a full outbox happen without
it and have to be overcome.

The mutants show what liveness rests on: without the timeout of the wait a
backed-off row is never tried again; without the reset in the success branch the
gateway stays unready; without the renaming of the old column no reading ever
gets into the table and the sensor is stuck behind a full outbox.

### Disagreements found

- `outbox_clock_step`: deadlines are wall-clock times (`outbox.py` 196, compared
  at 148). After the clock is set back by d, a backed-off row waits up to d longer
  than the maximum delay, and a new reading is not due for d, although line 17 of
  the README promises bounded backoff. A restart ends the wait.
- `gateway_ready`: an exception outside the two except clauses (`services/gateway.py`
  179, 190), such as the `TypeError` of `encrypt_for_cloud`, or one of `next_due` that
  is no `sqlite3.Error` (159), such as the `ValidationError` of `outbox.py` 157, ends
  the worker. `docs/ML-KEM-Phase3.md` line 46 says that on failure
  another attempt is scheduled, and `docs/observability.md` line 11 that /ready
  tells whether the service can perform its role; the gateway goes on accepting
  and answering ready. (Line 16 of the latter lists the checks the code makes;
  the sensor's, in line 15, include its task.)
- `seed_race`: `O_EXCL` decides who creates the seed file, but the file is visible
  before its bytes (`crypto.py` 146, 151). A process that reads in between fails,
  though a test says the loser reuses the winner's key; if the creator dies in
  between, the empty file makes all later starts fail. `KeyIsStable` holds all the
  same: no second key is ever served.

## 4. Proofs

All are for any sets of readings, threads, callers and processes, any capacity
and any number of faults, from the assumptions named in the modules: a positive
capacity, finitely many readings and callers, delays as `GatewaySettings` admits
them, distinct values for things that are distinct. `PowersAssumption` says that
powers of two are positive numbers; the provers know nothing of `^`.

- `OutboxQueueProofs!QueueCorrect`. The invariant is types, `OneLine`,
  `UntriedRowsAreDue` and `SeenRowsArePending` together: a new row is put behind a
  set of rows closed under `ahead`, and the line stays a total order because that
  set is an initial part of it, which takes `OneLine` and `SeenRowsArePending` of
  the state before.
- `GatewayProofs`. `GatewayUsesQueue` shows each step of the gateway to be a queue
  step or to leave the queue alone, so the queue's invariant carries over.
  `DurableHandoff` and `RowHeld` need that the reading of a request past its enqueue
  is pending or stored, that the worker's reading is pending, and that it is stored
  once the worker is about to delete its row (`HandoffInv`). From it follow
  `RowsLeaveStored`, and `GatewayKeepsPromise`: initial states map to initial
  states, every step to a step of `StoreAndForward` or a stutter. `AlarmsClear`
  needs the worker's place: between the failure and the next success the outbox
  cannot empty (`AlarmInv`). `WakeupsKept` follows a row from its INSERT to the
  handler's `set()`, over a `next_due` that has read the clock and may not see it
  (`WakeInv`). `RequestsAddUp` counts the handlers at work with the library's facts
  about finite sets; that the bound of a counter is not in the way follows from
  the equation itself.
- `GatewayOutboxProofs`. `OutboxInv` adds to the types that whoever is in a
  transaction holds the lock and nobody else does (`LockNeverLeaks`), without which
  an INSERT could meet the row in the worker's hands. `RetriesAddUp` counts the
  attempts as a set of pairs, to which a commit adds one and from which a delivery
  takes a row's; the row must be the one whose count `schedule_retry` has read,
  which is `HeldRowStays`. `CapacityKept` and `VerdictsHold` are one induction: the count
  stays within bounds because a verdict still holds at the commit.
  `ScheduleFollowed` and `WaitBounded` assume a clock that never steps back and use
  that stamps lie in the past and that a retry about to commit is on schedule
  (`ScheduleInv`).
- `OutboxRefinementProofs`. `OutboxImplementsQueue`, on a clock that is never set
  back, maps each step to a step of the queue or a stutter. `RefineInv` adds to
  `OutboxInv` that stamps lie in the past, a call's stamp is not before that of any
  row it remembers, a row follows only rows that are there, and the row in the
  worker's hands stays due; so an INSERT lands behind all that was there at its
  stamp even when another thread has overtaken it to the lock. From `QueueCorrect`
  follows `TableKeepsPromises`. `OneLineOnAnyClock` and `OldestHandedOut` assume nothing
  of the clock: a row's rowid sets it apart from those with the same stamp
  (`RowidOrder`: of two rows exactly one follows the other), so the lexicographic
  order is strict and total whatever the stamps are.
- `SeedFileProofs`. Until the winner of `O_EXCL` has written, the file is empty and
  nobody has a seed from it; afterwards nobody can create or write it (`SeedInv`).
  `SeedTypeCorrect`, `OneKey` and `ServedKeyKept` follow, and `KeySettledOnce`: the
  one write settles the seed of `OneSeed`, every other step leaves it.
- `CloudProofs`. `CloudTypeCorrect`; `RowsKept` from what a single request may do to
  the rows (`StoreReadingRows`); `CountersCorrect` from how each
  outcome moves the counters (`AgreeAfterRequest`), the policy being fixed while a
  process, and so its counters, live.
- `DeliveryProofs`. The wires' invariant (`WiresInv`: what is on them is readings and
  envelopes, and agrees with both ends) makes every system step a step of `Gateway`
  (`SystemImplementsGateway`): a late envelope, for one, is late in the gateway's
  books too. It is a lemma about the model's own wires and no property of the code.
  So `DurableHandoff` holds in the system, and `NothingSkipped` adds that the sensor
  lets go of a reading only with a 202 or with its process (`SampledInv`). `SystemUsesCloud` is the same for `Cloud`, `SensorCountsAgree` the
  sensor's own counters, and `SystemTypeCorrect` puts the types of all together.
  `GatewayAmongOthers` and `CloudAmongOthers` state for the system what the theorems
  about each service give there.
- `ReadingPathProofs`. `PathKept` maps a step of the sensor to a step of the path by
  `SampledInv` and `NothingLost` (it samples only when the last reading is in other
  hands), and every other step by way of `PromiseStep`: what `StoreAndForward` lets
  the gateway and the cloud do to a reading moves it along the path. For that the
  reading must have been the sensor's: whatever is on the wires, in a handler or in
  the outbox has been sampled (`OwnReadings`).

Every safety property that a passing run checks is stated by a theorem.
Model-checked only: liveness (`QueueDrains`, `ReadinessReturns`,
`EveryReadingArrives`), because fairness and ENABLED are out of the prover's
reach. That powers of two are positive stays an assumption, which TLC evaluates:
it would take induction over data.

## 5. Not modelled, and what could come next

Not modelled: the bytes of envelopes, keys and JSON; log lines; the layout of the
monitoring payloads; endpoints that only read (`/metrics`, `/monitoring`,
`GET /v1/readings` with its delivery delay); parsing of the environment; a
`GATEWAY_URL` that httpx cannot parse, which would end the sensor's task (its
readiness looks at that task); rotation of the ML-KEM seed, for which the code has
no operation; the deployment files beyond the order of first starts.

Next: `delivery` with a second fault, on a machine that has the memory for it.
