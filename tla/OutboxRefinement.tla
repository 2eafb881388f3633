------------------------- MODULE OutboxRefinement -------------------------
(***************************************************************************)
(* GatewayOutbox implements OutboxQueue.  The abstract queue remembers, for *)
(* each enqueue, the rows that were there when it took its stamp; nothing   *)
(* in the code does, so the history variable seen is added here.  It reads  *)
(* the state and never constrains it.                                       *)
(***************************************************************************)
EXTENDS GatewayOutbox

VARIABLE seen

historyVars == <<clock, rows, totalRetries, writer, call, worker, seen>>

HistoryInit == Init /\ seen = [c \in Callers |-> {}]

HistoryNext ==
    /\ Next
    /\ seen' = [c \in Callers |->
                  IF call'[c] = NoCall THEN {}
                  ELSE IF call[c] = NoCall THEN DOMAIN rows
                  ELSE seen[c] \cap DOMAIN rows']

HistorySpec == HistoryInit /\ [][HistoryNext]_historyVars

------------------------------------------------------------------------------
\* Rows sorted before m's.
RowsBefore(m) ==
    IF m \in DOMAIN rows THEN {x \in DOMAIN rows \ {m} : SortsBefore(x, m)} ELSE {}

Selecting == worker.pc = "selecting"

Queue == INSTANCE OutboxQueue WITH
    pending   <- DOMAIN rows,
    due       <- DueAt(clock),
    attempted <- {m \in DOMAIN rows : rows[m].attempts > 0},
    ahead     <- [m \in Messages |-> RowsBefore(m)],
    reading   <- Selecting,
    visible   <- IF Selecting THEN DueAt(worker.now) ELSE {}

\* Every behaviour of the outbox, with a clock that does not step back, is one
\* of the abstract queue: an enqueue goes behind every row that was there
\* before it began, also when another call overtakes it to the write lock, a
\* wait only ends by time or restart, and a retry, a restart or an error
\* neither removes a row nor moves it in the line.
ImplementsQueue == Queue!QueueSpec

\* The row next_due hands out is the first in that line among those due when
\* it read the clock, whatever was inserted, deleted or backed off meanwhile.
HandsOutOldest ==
    [][worker.pc = "selecting" /\ worker'.pc = "holding"
         => Queue!IsOldest(worker'.msg)]_historyVars

\* created_at, rowid puts the rows of the table into one line: of any two one
\* comes first, also among stamps that a clock set back has put into the future
\* or out of order, so LIMIT 1 never has two rows to choose from.
RowsFormOneLine == Queue!OneLine

\* What else the abstract queue promises, seen on the table: a row never tried is
\* due, and what a SELECT under way may return is still in the table.
QueueInvariants ==
    /\ Queue!QueueTypeOK
    /\ Queue!UntriedRowsAreDue
    /\ Queue!SeenRowsArePending

==============================================================================
