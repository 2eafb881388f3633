--------------------------- MODULE GatewayOutbox ---------------------------
(***************************************************************************)
(* The durable outbox of the gateway (outbox.py) down to SQLite's write    *)
(* lock and the wall clock.  Request threads run enqueue at the same time; *)
(* the one delivery worker runs next_due and then mark_delivered or        *)
(* schedule_retry for the row it was given.  BEGIN IMMEDIATE takes the     *)
(* write lock, the statements of the transaction read the database as it   *)
(* is then, and the commit applies them: two steps here, with other        *)
(* threads, the clock and a crash free to come in between.                 *)
(*                                                                         *)
(* Time is counted in ticks of one delay unit.  The payload, last_error    *)
(* and the log lines are left out.                                         *)
(***************************************************************************)
EXTENDS Integers, FiniteSets

CONSTANTS
    Messages,         \* message_ids
    Callers,          \* request threads
    Worker,           \* the thread that works for _outbox_worker
    Nobody,           \* holder of the write lock when it is free
    MaxPending,       \* GATEWAY_OUTBOX_MAX_PENDING
    RetryInitial,     \* GATEWAY_RETRY_INITIAL_SECONDS, in ticks
    RetryMax,         \* GATEWAY_RETRY_MAX_SECONDS, in ticks
    MaxDoublings,     \* 20 in the code
    ClockMayStepBack, \* whether time.time() may be set back (NTP, operator)
    MaxClock,         \* bound: the clock stops here
    MaxRetries        \* bound: retries recorded in the metrics row

ASSUME OutboxAssumption ==
    /\ MaxPending \in Nat \ {0}
    /\ IsFiniteSet(Messages)
    /\ RetryInitial \in Nat \ {0}
    /\ RetryMax \in Nat
    /\ RetryInitial <= RetryMax
    /\ MaxDoublings \in Nat
    /\ MaxClock \in Nat
    /\ MaxRetries \in Nat
    /\ ClockMayStepBack \in BOOLEAN
    /\ Worker \notin Callers
    /\ Nobody \notin Callers \cup {Worker}

\* Every power of two the backoff uses is a positive number.
ASSUME PowersAssumption == \A k \in 0..MaxDoublings : 2^k \in Nat \ {0}

VARIABLES
    clock,         \* time.time()
    rows,          \* the table gateway_outbox, indexed by message_id
    totalRetries,  \* gateway_outbox_metrics.total_retries
    writer,        \* who holds SQLite's write lock
    call,          \* the enqueue call of each request thread
    worker         \* the outbox call of the delivery worker

vars == <<clock, rows, totalRetries, writer, call, worker>>

\* A rowid only ever breaks a tie between equal created_at values.  SQLite gives
\* a new row the largest rowid plus one, so it is kept as the rows it follows.
Row == [created : Nat, follows : SUBSET Messages, attempts : Nat, next : Nat]

NoCall == [pc |-> "idle"]

Call == {NoCall} \cup [pc : {"stamped", "inserting", "declining"}, msg : Messages, now : Nat]

WorkerState ==
    [pc : {"down", "idle"}] \cup [pc : {"selecting"}, now : Nat]
      \cup [pc : {"holding"}, msg : Messages]
      \cup [pc : {"updating"}, msg : Messages, attempts : Nat, next : Nat]

TypeOK ==
    /\ clock \in Nat
    /\ DOMAIN rows \subseteq Messages
    /\ rows \in [DOMAIN rows -> Row]
    /\ totalRetries \in Nat
    /\ writer \in Callers \cup {Worker, Nobody}
    /\ call \in [Callers -> Call]
    /\ worker \in WorkerState

Init ==
    /\ clock = 0
    /\ rows = [m \in {} |-> 0]
    /\ totalRetries = 0
    /\ writer = Nobody
    /\ call = [c \in Callers |-> NoCall]
    /\ worker = [pc |-> "down"]

Running == worker.pc # "down"

------------------------------------------------------------------------------
(* enqueue *)

\* Line 103: the stamp is taken before the connection is opened.
EnqueueStamps(c, m) ==
    /\ Running
    /\ call[c] = NoCall
    /\ call' = [call EXCEPT ![c] = [pc |-> "stamped", msg |-> m, now |-> clock]]
    /\ UNCHANGED <<clock, rows, totalRetries, writer, worker>>

\* Mutant of Verdict: the capacity test is off by one.
Verdict_OffByOne(m) ==
    IF m \in DOMAIN rows \/ Cardinality(DOMAIN rows) > MaxPending
      THEN "declining" ELSE "inserting"

\* What the two SELECTs of the transaction decide.
Verdict(m) ==
    IF m \in DOMAIN rows \/ Cardinality(DOMAIN rows) >= MaxPending
      THEN "declining" ELSE "inserting"

\* Mutant of EnqueueBegins: a deferred BEGIN, which takes no lock for the SELECTs.
EnqueueBegins_Deferred(c) ==
    /\ call[c].pc = "stamped"
    /\ writer' = c
    /\ call' = [call EXCEPT ![c].pc = Verdict(call[c].msg)]
    /\ UNCHANGED <<clock, rows, totalRetries, worker>>

EnqueueBegins(c) ==
    /\ call[c].pc = "stamped"
    /\ writer = Nobody
    /\ writer' = c
    /\ call' = [call EXCEPT ![c].pc = Verdict(call[c].msg)]
    /\ UNCHANGED <<clock, rows, totalRetries, worker>>

\* Mutant of EnqueueInserts: a new row waits for the first backoff delay.
EnqueueInserts_Backed(c) ==
    /\ call[c].pc = "inserting"
    /\ LET new == [created |-> call[c].now, follows |-> DOMAIN rows,
                   attempts |-> 0, next |-> call[c].now + RetryInitial]
       IN  rows' = [m \in DOMAIN rows \cup {call[c].msg} |->
                      IF m = call[c].msg THEN new ELSE rows[m]]
    /\ writer' = Nobody
    /\ call' = [call EXCEPT ![c] = NoCall]
    /\ UNCHANGED <<clock, totalRetries, worker>>

\* The INSERT and its commit.
EnqueueInserts(c) ==
    /\ call[c].pc = "inserting"
    /\ LET new == [created |-> call[c].now, follows |-> DOMAIN rows,
                   attempts |-> 0, next |-> call[c].now]
       IN  rows' = [m \in DOMAIN rows \cup {call[c].msg} |->
                      IF m = call[c].msg THEN new ELSE rows[m]]
    /\ writer' = Nobody
    /\ call' = [call EXCEPT ![c] = NoCall]
    /\ UNCHANGED <<clock, totalRetries, worker>>

\* Mutant of EnqueueDeclines: the connection stays open, and with it the
\* transaction, when OutboxFullError is raised.
EnqueueDeclines_LeavesOpen(c) ==
    /\ call[c].pc = "declining"
    /\ writer' = IF call[c].msg \in DOMAIN rows THEN Nobody ELSE writer
    /\ call' = [call EXCEPT ![c] = NoCall]
    /\ UNCHANGED <<clock, rows, totalRetries, worker>>

\* Lines 110-115 and 119-120: return False, or raise OutboxFullError.
EnqueueDeclines(c) ==
    /\ call[c].pc = "declining"
    /\ writer' = Nobody
    /\ call' = [call EXCEPT ![c] = NoCall]
    /\ UNCHANGED <<clock, rows, totalRetries, worker>>

\* SQLite reports an error, the lock timeout included: the transaction, if it
\* has begun, rolls back.
EnqueueFails(c) ==
    /\ call[c] # NoCall
    /\ writer' = IF writer = c THEN Nobody ELSE writer
    /\ call' = [call EXCEPT ![c] = NoCall]
    /\ UNCHANGED <<clock, rows, totalRetries, worker>>

------------------------------------------------------------------------------
(* next_due *)

\* Mutant of SortsBefore: ORDER BY created_at alone.
SortsBefore_NoRowid(x, m) == rows[x].created < rows[m].created

\* ORDER BY created_at ASC, rowid ASC
SortsBefore(x, m) ==
    \/ rows[x].created < rows[m].created
    \/ rows[x].created = rows[m].created /\ x \in rows[m].follows

DueAt(now) == {m \in DOMAIN rows : rows[m].next <= now}

\* Line 142: the clock is read before the SELECT.
NextDueReadsClock ==
    /\ worker.pc = "idle"
    /\ worker' = [pc |-> "selecting", now |-> clock]
    /\ UNCHANGED <<clock, rows, totalRetries, writer, call>>

\* Mutant of NextDueSelects: the row is taken out of the table when handed out.
NextDueSelects_Pops ==
    /\ worker.pc = "selecting"
    /\ \E m \in DueAt(worker.now) :
         /\ \A x \in DueAt(worker.now) \ {m} : SortsBefore(m, x)
         /\ rows' = [x \in DOMAIN rows \ {m} |-> rows[x]]
         /\ worker' = [pc |-> "holding", msg |-> m]
    /\ UNCHANGED <<clock, totalRetries, writer, call>>

\* Mutant of NextDueSelects: ORDER BY next_attempt_at.
NextDueSelects_ByNextAttempt ==
    /\ worker.pc = "selecting"
    /\ \E m \in DueAt(worker.now) :
         /\ \A x \in DueAt(worker.now) : rows[m].next <= rows[x].next
         /\ worker' = [pc |-> "holding", msg |-> m]
    /\ UNCHANGED <<clock, rows, totalRetries, writer, call>>

NextDueSelects ==
    /\ worker.pc = "selecting"
    /\ \E m \in DueAt(worker.now) :
         /\ \A x \in DueAt(worker.now) \ {m} : SortsBefore(m, x)
         /\ worker' = [pc |-> "holding", msg |-> m]
    /\ UNCHANGED <<clock, rows, totalRetries, writer, call>>

\* No row is due, or SQLite reports an error.
NextDueReturnsNothing ==
    /\ worker.pc = "selecting"
    /\ worker' = [pc |-> "idle"]
    /\ UNCHANGED <<clock, rows, totalRetries, writer, call>>

------------------------------------------------------------------------------
(* mark_delivered and schedule_retry *)

\* One DELETE: it takes the lock, and commits, by itself.
MarkDelivered ==
    /\ worker.pc = "holding"
    /\ writer = Nobody
    /\ rows' = [m \in DOMAIN rows \ {worker.msg} |->
                  [rows[m] EXCEPT !.follows = @ \ {worker.msg}]]
    /\ worker' = [pc |-> "idle"]
    /\ UNCHANGED <<clock, totalRetries, writer, call>>

\* Mutant of BackoffDelay: no cap.
BackoffDelay_Uncapped(previous) ==
    RetryInitial * 2^(IF previous < MaxDoublings THEN previous ELSE MaxDoublings)

\* Line 186: initial_seconds * 2**min(previous_attempts, 20), capped.
BackoffDelay(previous) ==
    LET doublings == IF previous < MaxDoublings THEN previous ELSE MaxDoublings
        delay == RetryInitial * 2^doublings
    IN  IF delay < RetryMax THEN delay ELSE RetryMax

\* Mutant of RetryBegins: the sign of the delay.
RetryBegins_Backwards ==
    /\ worker.pc = "holding"
    /\ writer = Nobody
    /\ totalRetries < MaxRetries
    /\ writer' = Worker
    /\ LET previous == rows[worker.msg].attempts
       IN  worker' = [pc |-> "updating", msg |-> worker.msg, attempts |-> previous + 1,
                      next |-> clock - BackoffDelay(previous)]
    /\ UNCHANGED <<clock, rows, totalRetries, call>>

\* Mutant of RetryBegins: the delay of the attempt after this one.
RetryBegins_NextDelay ==
    /\ worker.pc = "holding"
    /\ writer = Nobody
    /\ totalRetries < MaxRetries
    /\ writer' = Worker
    /\ LET previous == rows[worker.msg].attempts
       IN  worker' = [pc |-> "updating", msg |-> worker.msg, attempts |-> previous + 1,
                      next |-> clock + BackoffDelay(previous + 1)]
    /\ UNCHANGED <<clock, rows, totalRetries, call>>

\* The row is missing only if something but the worker deletes rows; nothing
\* does (see HeldRowIsStored), so "return None" is never taken.
RetryBegins ==
    /\ worker.pc = "holding"
    /\ writer = Nobody
    /\ totalRetries < MaxRetries
    /\ writer' = Worker
    /\ LET previous == rows[worker.msg].attempts
       IN  worker' = [pc |-> "updating", msg |-> worker.msg, attempts |-> previous + 1,
                      next |-> clock + BackoffDelay(previous)]
    /\ UNCHANGED <<clock, rows, totalRetries, call>>

\* Mutant of RetryCommits: the counter is left to a second transaction.
RetryCommits_RowOnly ==
    /\ worker.pc = "updating"
    /\ rows' = [rows EXCEPT ![worker.msg].attempts = worker.attempts,
                            ![worker.msg].next = worker.next]
    /\ writer' = Nobody
    /\ worker' = [pc |-> "idle"]
    /\ UNCHANGED <<clock, totalRetries, call>>

RetryCommits ==
    /\ worker.pc = "updating"
    /\ rows' = [rows EXCEPT ![worker.msg].attempts = worker.attempts,
                            ![worker.msg].next = worker.next]
    /\ totalRetries' = totalRetries + 1
    /\ writer' = Nobody
    /\ worker' = [pc |-> "idle"]
    /\ UNCHANGED <<clock, call>>

\* SQLite reports an error to mark_delivered or schedule_retry, or the worker
\* leaves the row without either call: the row stays as it is.
WorkerCallFails ==
    /\ worker.pc \in {"holding", "updating"}
    /\ writer' = IF writer = Worker THEN Nobody ELSE writer
    /\ worker' = [pc |-> "idle"]
    /\ UNCHANGED <<clock, rows, totalRetries, call>>

------------------------------------------------------------------------------
(* the process and the clock *)

\* A transaction under way rolls back; what is committed stays (WAL, fsync).
Crash ==
    /\ Running
    /\ writer' = Nobody
    /\ call' = [c \in Callers |-> NoCall]
    /\ worker' = [pc |-> "down"]
    /\ UNCHANGED <<clock, rows, totalRetries>>

\* Mutant of Initialize: recovery also forgets the failed attempts.
Initialize_Forgets ==
    /\ worker.pc = "down"
    /\ rows' = [m \in DOMAIN rows |->
                  [rows[m] EXCEPT !.attempts = 0,
                                  !.next = IF @ > clock THEN clock ELSE @]]
    /\ worker' = [pc |-> "idle"]
    /\ UNCHANGED <<clock, totalRetries, writer, call>>

\* The one transaction of initialize(): the tables are there already, or new
\* and empty; rows that are backed off become due.
Initialize ==
    /\ worker.pc = "down"
    /\ rows' = [m \in DOMAIN rows |->
                  [rows[m] EXCEPT !.next = IF @ > clock THEN clock ELSE @]]
    /\ worker' = [pc |-> "idle"]
    /\ UNCHANGED <<clock, totalRetries, writer, call>>

Tick ==
    /\ clock < MaxClock
    /\ clock' = clock + 1
    /\ UNCHANGED <<rows, totalRetries, writer, call, worker>>

ClockStepsBack ==
    /\ ClockMayStepBack
    /\ clock' \in {t \in 0..MaxClock : t < clock}
    /\ UNCHANGED <<rows, totalRetries, writer, call, worker>>

Next ==
    \/ \E c \in Callers :
         \/ \E m \in Messages : EnqueueStamps(c, m)
         \/ EnqueueBegins(c)
         \/ EnqueueInserts(c)
         \/ EnqueueDeclines(c)
         \/ EnqueueFails(c)
    \/ NextDueReadsClock
    \/ NextDueSelects
    \/ NextDueReturnsNothing
    \/ MarkDelivered
    \/ RetryBegins
    \/ RetryCommits
    \/ WorkerCallFails
    \/ Crash
    \/ Initialize
    \/ Tick
    \/ ClockStepsBack

Spec == Init /\ [][Next]_vars

------------------------------------------------------------------------------
(* properties *)

\* The outbox never holds more readings than GATEWAY_OUTBOX_MAX_PENDING,
\* however many requests have counted the rows before any of them inserts
\* (the count and the INSERT of enqueue are separate statements).
Capacity == Cardinality(DOMAIN rows) <= MaxPending

\* What an enqueue found out at the start of its transaction still holds when
\* it commits: no row has come to take its place or its message_id, so the
\* INSERT cannot hit the primary key nor the capacity.
VerdictHolds ==
    \A c \in Callers : call[c].pc = "inserting" =>
        /\ call[c].msg \notin DOMAIN rows
        /\ Cardinality(DOMAIN rows) < MaxPending

\* The row the worker was handed is still there, and its attempt_count still
\* the one schedule_retry has read, until the worker is done with it: only
\* the worker deletes or updates rows, and enqueue never touches an old one.
HeldRowIsStored ==
    /\ worker.pc \in {"holding", "updating"} => worker.msg \in DOMAIN rows
    /\ worker.pc = "updating" => worker.attempts = rows[worker.msg].attempts + 1

\* The backoff schedule, row by row: a row never tried is due at once, and one
\* that has failed n times comes up again within the n-th delay of the
\* schedule, also after restarts, which shorten waits and never lengthen them.
WaitFollowsSchedule ==
    \A m \in DOMAIN rows :
        rows[m].next <= clock + (IF rows[m].attempts = 0 THEN 0
                                 ELSE BackoffDelay(rows[m].attempts - 1))

\* "Bounded exponential backoff": no row waits longer than the maximum delay.
WaitIsBounded == \A m \in DOMAIN rows : rows[m].next <= clock + RetryMax

\* One pair for each failed attempt that a row records.
AttemptsOnRecord == UNION {{m} \X (1..rows[m].attempts) : m \in DOMAIN rows}

\* The retry counter that /v1/outbox/status reports covers every attempt the
\* rows record: the counter and the row change in one transaction, so a crash
\* or an error between the two UPDATEs cannot part them.
RetriesAccounted == Cardinality(AttemptsOnRecord) <= totalRetries

\* SQLite's write lock is held by a call in a transaction and by nobody else:
\* two transactions never overlap, and none is left open by a call that has
\* ended, by the OutboxFullError that enqueue raises in the middle of one, by
\* an SQLite error or by a crash, which would make every later write time out.
LockHasOwner ==
    /\ \A c \in Callers : writer = c <=> call[c].pc \in {"inserting", "declining"}
    /\ writer = Worker <=> worker.pc = "updating"

==============================================================================
