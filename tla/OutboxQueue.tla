---------------------------- MODULE OutboxQueue ----------------------------
(***************************************************************************)
(* What the gateway's durable outbox promises to the code around it: a set *)
(* of pending readings, at most MaxPending of them, each one either due or *)
(* backed off, handed out oldest first.  There is no clock here: time      *)
(* passing is the action TimePasses.  GatewayOutbox.tla is the detailed    *)
(* specification, with SQLite's lock and the wall clock, and implements    *)
(* this one; Gateway.tla uses this one.                                    *)
(*                                                                         *)
(* An enqueue is two steps, because the code stamps a row with time.time() *)
(* before it takes the database's write lock: StampCall, then one of the   *)
(* outcomes.  next_due is two steps for the same reason: it reads the      *)
(* clock first (BeginRead) and selects afterwards.                         *)
(***************************************************************************)
EXTENDS Naturals, FiniteSets

CONSTANTS
    Messages,   \* the message_ids of the readings
    Callers,    \* threads that run GatewayOutbox.enqueue
    MaxPending  \* GATEWAY_OUTBOX_MAX_PENDING

ASSUME OutboxAssumption == /\ MaxPending \in Nat \ {0}
                           /\ IsFiniteSet(Messages)

VARIABLES
    pending,    \* message_ids with a row in gateway_outbox
    due,        \* rows whose next_attempt_at has been reached
    attempted,  \* rows whose attempt_count is positive
    ahead,      \* ahead[m]: rows sorted before m's by created_at, rowid
    seen,       \* seen[c]: rows that were there when c took its stamp
    reading,    \* a next_due call has read the clock and not yet selected
    visible     \* rows that call will find due

queueVars == <<pending, due, attempted, ahead, seen, reading, visible>>

QueueTypeOK ==
    /\ pending \subseteq Messages
    /\ due \subseteq pending
    /\ attempted \subseteq pending
    /\ ahead \in [Messages -> SUBSET Messages]
    /\ seen \in [Callers -> SUBSET Messages]
    /\ reading \in BOOLEAN
    /\ visible \subseteq due
    /\ ~reading => visible = {}

QueueInit ==
    /\ pending = {}
    /\ due = {}
    /\ attempted = {}
    /\ ahead = [m \in Messages |-> {}]
    /\ seen = [c \in Callers |-> {}]
    /\ reading = FALSE
    /\ visible = {}

------------------------------------------------------------------------------
(* enqueue *)

\* enqueue line 103: now = time.time(), before the transaction begins.
StampCall(c) ==
    /\ seen' = [seen EXCEPT ![c] = pending]
    /\ UNCHANGED <<pending, due, attempted, ahead, reading, visible>>

\* The places in ORDER BY created_at, rowid that the stamp of c allows: after
\* every row that was there when the stamp was taken, and anywhere among the
\* rows that calls running at the same time have inserted since.
Placements(c) ==
    {before \in SUBSET pending :
        /\ seen[c] \subseteq before
        /\ \A x \in before : ahead[x] \subseteq before}

\* The INSERT.  A next_due call under way finds the new row only when the
\* stamp is not later than the clock value that call has read.
InsertRow(c, m) ==
    /\ m \notin pending
    /\ Cardinality(pending) < MaxPending
    /\ \E before \in Placements(c) :
         ahead' = [x \in Messages |->
                     IF x = m THEN before
                     ELSE IF x \in pending \ before THEN ahead[x] \cup {m}
                     ELSE ahead[x]]
    /\ pending' = pending \cup {m}
    /\ due' = due \cup {m}
    /\ \/ visible' = visible
       \/ reading /\ visible' = visible \cup {m}
    /\ seen' = [seen EXCEPT ![c] = {}]
    /\ UNCHANGED <<attempted, reading>>

\* The call ends without an INSERT: the message is already queued, the outbox
\* is full, or SQLite reports an error.
EndCall(c) ==
    /\ seen' = [seen EXCEPT ![c] = {}]
    /\ UNCHANGED <<pending, due, attempted, ahead, reading, visible>>

OutboxFull(m) == m \notin pending /\ Cardinality(pending) >= MaxPending

------------------------------------------------------------------------------
(* next_due, mark_delivered, schedule_retry: the delivery worker *)

BeginRead ==
    /\ reading' = TRUE
    /\ visible' = due
    /\ UNCHANGED <<pending, due, attempted, ahead, seen>>

EndRead ==
    /\ reading' = FALSE
    /\ visible' = {}
    /\ UNCHANGED <<pending, due, attempted, ahead, seen>>

\* m is the row that ORDER BY created_at ASC, rowid ASC LIMIT 1 returns.
IsOldest(m) == m \in visible /\ ahead[m] \cap visible = {}

DeleteRow(m) ==
    /\ pending' = pending \ {m}
    /\ due' = due \ {m}
    /\ attempted' = attempted \ {m}
    /\ ahead' = [x \in Messages |-> IF x = m THEN {} ELSE ahead[x] \ {m}]
    /\ seen' = [c \in Callers |-> seen[c] \ {m}]
    /\ visible' = visible \ {m}
    /\ UNCHANGED reading

\* The next attempt is a positive delay after the clock value schedule_retry
\* reads, but that delay may have run out by the time its commit is through.
PostponeRow(m) ==
    /\ \/ due' = due \ {m}
       \/ due' = due
    /\ visible' = visible \ {m}
    /\ attempted' = attempted \cup ({m} \cap pending)
    /\ UNCHANGED <<pending, ahead, seen, reading>>

------------------------------------------------------------------------------
(* time and restart *)

TimePasses ==
    /\ \E S \in SUBSET (pending \ due) : S # {} /\ due' = due \cup S
    /\ UNCHANGED <<pending, attempted, ahead, seen, reading, visible>>

\* The process dies: its calls are gone, a transaction under way rolls back.
AbandonCalls ==
    /\ seen' = [c \in Callers |-> {}]
    /\ reading' = FALSE
    /\ visible' = {}
    /\ UNCHANGED <<pending, due, attempted, ahead>>

\* initialize(): every row whose next_attempt_at lies ahead becomes due now.
RecoverRows ==
    /\ due' = pending
    /\ UNCHANGED <<pending, attempted, ahead, seen, reading, visible>>

QueueNext ==
    \/ \E c \in Callers : StampCall(c) \/ EndCall(c) \/ \E m \in Messages : InsertRow(c, m)
    \/ BeginRead
    \/ EndRead
    \/ \E m \in Messages : DeleteRow(m) \/ PostponeRow(m)
    \/ TimePasses
    \/ AbandonCalls
    \/ RecoverRows

QueueSpec == QueueInit /\ [][QueueNext]_queueVars

------------------------------------------------------------------------------
(* properties *)

\* The rows form one line: ahead is a strict total order on the pending rows
\* and mentions nothing else, so next_due always has exactly one oldest row
\* to return, whatever inserts and deletes came between.
OneLine ==
    /\ \A m \in Messages : ahead[m] \subseteq pending
    /\ \A m \in Messages \ pending : ahead[m] = {}
    /\ \A m \in pending : m \notin ahead[m]
    /\ \A m, n \in pending : m # n => (m \in ahead[n] <=> n \notin ahead[m])
    /\ \A m, n \in pending : m \in ahead[n] => ahead[m] \subseteq ahead[n]

\* A row that has never been tried is due: only a failed attempt backs a row
\* off, so a fresh reading never waits for a timer.
UntriedRowsAreDue == pending \ attempted \subseteq due

\* The rows recorded at a stamp are rows still there, so the new row goes
\* behind each of them and never behind one that has left the line.
SeenRowsArePending == \A c \in Callers : seen[c] \subseteq pending

==============================================================================
