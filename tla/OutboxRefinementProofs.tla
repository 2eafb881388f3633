----------------------- MODULE OutboxRefinementProofs -----------------------
(***************************************************************************)
(* GatewayOutbox implements OutboxQueue, for any number of readings and     *)
(* request threads, any capacity and any backoff settings, on a clock that  *)
(* is never set back.  On any clock the rows form one line, and next_due    *)
(* hands out the oldest due row.                                            *)
(***************************************************************************)
EXTENDS OutboxRefinement, GatewayOutboxProofs

\* The theorems about the abstract queue, read on the table.
QP == INSTANCE OutboxQueueProofs WITH
    pending   <- DOMAIN rows,
    due       <- DueAt(clock),
    attempted <- {m \in DOMAIN rows : rows[m].attempts > 0},
    ahead     <- [m \in Messages |-> RowsBefore(m)],
    reading   <- Selecting,
    visible   <- IF Selecting THEN DueAt(worker.now) ELSE {}

------------------------------------------------------------------------------
(* the invariant of the refinement *)

\* Stamps in the table lie in the past, and a row follows rows that are there.
RowsFit ==
    \A m \in DOMAIN rows : rows[m].created <= clock /\ rows[m].follows \subseteq DOMAIN rows

\* The clock value of next_due lies in the past, and the row it has handed out
\* is still due.
WorkerFits ==
    /\ worker.pc = "selecting" => worker.now <= clock
    /\ worker.pc \in {"holding", "updating"} => rows[worker.msg].next <= clock

\* A stamp is not before that of any row that was there when it was taken.
SeenFits ==
    /\ seen \in [Callers -> SUBSET Messages]
    /\ \A c \in Callers :
         IF call[c] = NoCall THEN seen[c] = {}
         ELSE /\ call[c].now <= clock
              /\ \A x \in seen[c] : x \in DOMAIN rows /\ rows[x].created <= call[c].now

RefineInv == OutboxInv /\ Capacity /\ VerdictHolds /\ RowsFit /\ WorkerFits /\ SeenFits

LEMMA StoredRowTyped ==
    ASSUME TypeOK, NEW m \in DOMAIN rows
    PROVE  /\ m \in Messages /\ rows[m] \in Row
           /\ rows[m].created \in Nat /\ rows[m].attempts \in Nat /\ rows[m].next \in Nat
           /\ rows[m].follows \subseteq Messages
           /\ rows[m] = [created |-> rows[m].created, follows |-> rows[m].follows,
                         attempts |-> rows[m].attempts, next |-> rows[m].next]
BY DEF TypeOK, Row

LEMMA RefineInit == HistoryInit => RefineInv
<1> SUFFICES ASSUME HistoryInit
             PROVE  RefineInv
  OBVIOUS
<1>1. OutboxInv
  BY OutboxInit DEF HistoryInit
<1>2. Capacity /\ VerdictHolds
  BY OutboxAssumption, FS_EmptySet DEF HistoryInit, Init, Capacity, VerdictHolds, NoCall
<1>3. RowsFit /\ WorkerFits /\ SeenFits
  BY DEF HistoryInit, Init, RowsFit, WorkerFits, SeenFits, NoCall
<1> QED
  BY <1>1, <1>2, <1>3 DEF RefineInv

\* Time does not go backwards, and a stamp once taken stays.
LEMMA ClockGoesOn ==
    ASSUME ~ClockMayStepBack, TypeOK, [Next]_vars
    PROVE  clock \in Nat /\ clock' \in Nat /\ clock <= clock'
<1>1. clock \in Nat
  BY DEF TypeOK
<1>2. CASE Tick
  BY <1>1, <1>2 DEF Tick
<1>3. CASE ~Tick
  <2>1. clock' = clock
    BY <1>3 DEF Next, vars, EnqueueStamps, EnqueueBegins, EnqueueInserts, EnqueueDeclines,
       EnqueueFails, NextDueReadsClock, NextDueSelects, NextDueReturnsNothing, MarkDelivered,
       RetryBegins, RetryCommits, WorkerCallFails, Crash, Initialize, ClockStepsBack
  <2> QED
    BY <1>1, <2>1
<1> QED
  BY <1>2, <1>3

LEMMA RowsFitStep ==
    ASSUME ~ClockMayStepBack, RefineInv, [Next]_vars
    PROVE  RowsFit'
<1> USE DEF RefineInv
<1>0. TypeOK /\ clock \in Nat /\ clock' \in Nat /\ clock <= clock'
  BY ClockGoesOn DEF OutboxInv
<1>1. ASSUME rows' = rows
      PROVE  RowsFit'
  BY <1>0, <1>1, StoredRowTyped DEF RowsFit
<1>2. ASSUME NEW c \in Callers, EnqueueInserts(c)
      PROVE  RowsFit'
  <2>1. /\ call[c] # NoCall /\ call[c].now \in Nat /\ call[c].now <= clock
        /\ clock' = clock
    BY <1>0, <1>2, CallFields DEF EnqueueInserts, SeenFits, TypeOK, NoCall
  <2>2. /\ DOMAIN rows' = DOMAIN rows \cup {call[c].msg}
        /\ \A m \in DOMAIN rows \ {call[c].msg} : rows'[m] = rows[m]
        /\ rows'[call[c].msg].created = call[c].now
        /\ rows'[call[c].msg].follows = DOMAIN rows
    BY <1>2 DEF EnqueueInserts
  <2> QED
    BY <2>1, <2>2 DEF RowsFit
<1>3. ASSUME MarkDelivered
      PROVE  RowsFit'
  <2>1. /\ clock' = clock /\ DOMAIN rows' = DOMAIN rows \ {worker.msg}
        /\ \A m \in DOMAIN rows' :
             rows'[m] = [rows[m] EXCEPT !.follows = @ \ {worker.msg}]
    BY <1>3 DEF MarkDelivered
  <2>2. \A m \in DOMAIN rows' : /\ rows'[m].created = rows[m].created
                                /\ rows'[m].follows = rows[m].follows \ {worker.msg}
    BY <1>0, <2>1, StoredRowTyped
  <2> QED
    BY <2>1, <2>2 DEF RowsFit
<1>4. ASSUME RetryCommits \/ Initialize
      PROVE  RowsFit'
  <2>1. clock' = clock /\ DOMAIN rows' = DOMAIN rows
    BY <1>0, <1>4 DEF RetryCommits, Initialize, TypeOK
  <2>2. \A m \in DOMAIN rows : rows[m] \in Row
    BY <1>0, StoredRowTyped
  <2>3. \A m \in DOMAIN rows : /\ rows'[m].created = rows[m].created
                               /\ rows'[m].follows = rows[m].follows
    BY <1>0, <1>4, <2>2 DEF RetryCommits, Initialize, TypeOK, Row
  <2> QED
    BY <2>1, <2>3 DEF RowsFit
<1> QED
  BY <1>1, <1>2, <1>3, <1>4
     DEF Next, vars, EnqueueStamps, EnqueueBegins, EnqueueDeclines, EnqueueFails,
         NextDueReadsClock, NextDueSelects, NextDueReturnsNothing, RetryBegins,
         WorkerCallFails, Crash, Tick, ClockStepsBack

LEMMA WorkerFitsStep ==
    ASSUME ~ClockMayStepBack, RefineInv, [Next]_vars
    PROVE  WorkerFits'
<1> USE DEF RefineInv
<1>0. /\ TypeOK /\ HeldRowIsStored
      /\ clock \in Nat /\ clock' \in Nat /\ clock <= clock'
  BY ClockGoesOn DEF OutboxInv
<1>1. ASSUME worker' = worker,
             worker.pc \in {"holding", "updating"} => rows'[worker.msg] = rows[worker.msg]
      PROVE  WorkerFits'
  <2>1. worker.pc = "selecting" => worker.now \in Nat
    BY <1>0, WorkerFields DEF TypeOK
  <2>2. worker.pc \in {"holding", "updating"} => rows[worker.msg].next \in Nat
    BY <1>0, StoredRowTyped DEF HeldRowIsStored
  <2> QED
    BY <1>0, <1>1, <2>1, <2>2 DEF WorkerFits
<1>2. ASSUME worker'.pc \in {"down", "idle"}
      PROVE  WorkerFits'
  BY <1>2 DEF WorkerFits
<1>3. ASSUME NEW c \in Callers, EnqueueInserts(c)
      PROVE  WorkerFits'
  <2>1. call[c].msg \notin DOMAIN rows
    BY <1>3 DEF EnqueueInserts, VerdictHolds
  <2>2. worker.pc \in {"holding", "updating"} => worker.msg \in DOMAIN rows
    BY <1>0 DEF HeldRowIsStored
  <2>3. worker.pc \in {"holding", "updating"} => rows'[worker.msg] = rows[worker.msg]
    BY <1>3, <2>1, <2>2 DEF EnqueueInserts
  <2> QED
    BY <1>1, <1>3, <2>3 DEF EnqueueInserts
<1>4. ASSUME NextDueReadsClock
      PROVE  WorkerFits'
  BY <1>0, <1>4 DEF NextDueReadsClock, WorkerFits
<1>5. ASSUME NextDueSelects
      PROVE  WorkerFits'
  <2>1. PICK m \in DueAt(worker.now) : worker' = [pc |-> "holding", msg |-> m]
    BY <1>5 DEF NextDueSelects
  <2>2. /\ worker.now <= clock /\ worker.now \in Nat /\ rows' = rows /\ clock' = clock
        /\ rows[m].next \in Nat /\ rows[m].next <= worker.now
    BY <1>0, <1>5, StoredRowTyped, WorkerFields
       DEF NextDueSelects, WorkerFits, DueAt, TypeOK
  <2>3. rows'[m].next <= clock'
    BY <1>0, <2>2
  <2> QED
    BY <2>1, <2>3 DEF WorkerFits
<1>6. ASSUME RetryBegins
      PROVE  WorkerFits'
  <2>1. /\ worker.pc = "holding" /\ worker'.pc = "updating" /\ worker'.msg = worker.msg
        /\ rows' = rows /\ clock' = clock
    BY <1>6 DEF RetryBegins
  <2> QED
    BY <2>1 DEF WorkerFits
<1>7. ASSUME \/ NextDueReturnsNothing \/ MarkDelivered \/ RetryCommits \/ WorkerCallFails
             \/ Crash \/ Initialize
      PROVE  WorkerFits'
  BY <1>2, <1>7 DEF NextDueReturnsNothing, MarkDelivered, RetryCommits, WorkerCallFails,
                    Crash, Initialize
<1>8. ASSUME worker' = worker, rows' = rows
      PROVE  WorkerFits'
  BY <1>1, <1>8
<1> QED
  BY <1>3, <1>4, <1>5, <1>6, <1>7, <1>8
     DEF Next, vars, EnqueueStamps, EnqueueBegins, EnqueueDeclines, EnqueueFails, Tick,
         ClockStepsBack

\* A stamp stays before those of the rows it remembers while no row changes its
\* own.
LEMMA SeenFitsKept ==
    ASSUME SeenFits, TypeOK, [Next]_vars, ~ClockMayStepBack,
           seen' = [c \in Callers |->
                      IF call'[c] = NoCall THEN {}
                      ELSE IF call[c] = NoCall THEN DOMAIN rows
                      ELSE seen[c] \cap DOMAIN rows'],
           \A m \in DOMAIN rows \cap DOMAIN rows' : rows'[m].created = rows[m].created,
           \A c \in Callers :
             \/ call'[c] = NoCall
             \/ call'[c].now = clock /\ call[c] = NoCall /\ rows' = rows /\ RowsFit
             \/ call'[c].now = call[c].now /\ call[c] # NoCall
    PROVE  SeenFits'
<1>1. clock \in Nat /\ clock' \in Nat /\ clock <= clock'
  BY ClockGoesOn
<1>2. seen' \in [Callers -> SUBSET Messages]
  BY DEF SeenFits, TypeOK
<1>3. ASSUME NEW c \in Callers, call'[c] = NoCall
      PROVE  seen'[c] = {}
  BY <1>3
<1>4. ASSUME NEW c \in Callers, call'[c] # NoCall
      PROVE  /\ call'[c].now <= clock'
             /\ \A x \in seen'[c] : x \in DOMAIN rows' /\ rows'[x].created <= call'[c].now
  <2>1. CASE call[c] = NoCall
    BY <1>1, <1>4, <2>1 DEF RowsFit
  <2>2. CASE call[c] # NoCall
    <3>1. /\ call'[c].now = call[c].now /\ call[c].now <= clock
          /\ seen'[c] = seen[c] \cap DOMAIN rows'
          /\ \A x \in seen[c] : x \in DOMAIN rows /\ rows[x].created <= call[c].now
      BY <1>4, <2>2 DEF SeenFits
    <3>2. call[c].now \in Nat
      BY <2>2, CallFields DEF TypeOK
    <3> QED
      BY <1>1, <3>1, <3>2
  <2> QED
    BY <2>1, <2>2
<1> QED
  BY <1>2, <1>3, <1>4 DEF SeenFits

LEMMA CreatedStays ==
    ASSUME RefineInv, [Next]_vars
    PROVE  \A m \in DOMAIN rows \cap DOMAIN rows' : rows'[m].created = rows[m].created
<1>0. TypeOK
  BY DEF RefineInv, OutboxInv
<1> SUFFICES ASSUME NEW m \in DOMAIN rows \cap DOMAIN rows'
             PROVE  rows'[m].created = rows[m].created
  OBVIOUS
<1>1. rows[m] \in Row
  BY <1>0, StoredRowTyped
<1>2. ASSUME NEW c \in Callers, EnqueueInserts(c)
      PROVE  rows'[m].created = rows[m].created
  BY <1>2 DEF EnqueueInserts, RefineInv, VerdictHolds
<1>3. ASSUME MarkDelivered
      PROVE  rows'[m].created = rows[m].created
  BY <1>1, <1>3 DEF MarkDelivered, Row
<1>4. ASSUME RetryCommits
      PROVE  rows'[m].created = rows[m].created
  BY <1>0, <1>1, <1>4 DEF RetryCommits, TypeOK, Row
<1>5. ASSUME Initialize
      PROVE  rows'[m].created = rows[m].created
  BY <1>1, <1>5 DEF Initialize, Row
<1>6. ASSUME rows' = rows
      PROVE  rows'[m].created = rows[m].created
  BY <1>6
<1> QED
  BY <1>2, <1>3, <1>4, <1>5, <1>6
     DEF Next, vars, EnqueueStamps, EnqueueBegins, EnqueueDeclines, EnqueueFails,
         NextDueReadsClock, NextDueSelects, NextDueReturnsNothing, RetryBegins,
         WorkerCallFails, Crash, Tick, ClockStepsBack

LEMMA SeenFitsStep ==
    ASSUME ~ClockMayStepBack, RefineInv, HistoryNext
    PROVE  SeenFits'
<1>0. TypeOK /\ SeenFits /\ RowsFit /\ Next
  BY DEF RefineInv, OutboxInv, HistoryNext
<1>1. /\ seen' = [c \in Callers |->
                   IF call'[c] = NoCall THEN {}
                   ELSE IF call[c] = NoCall THEN DOMAIN rows
                   ELSE seen[c] \cap DOMAIN rows']
      /\ \A m \in DOMAIN rows \cap DOMAIN rows' : rows'[m].created = rows[m].created
  BY <1>0, CreatedStays DEF HistoryNext
<1> DEFINE Goes(c) == \/ call'[c] = NoCall
                      \/ call'[c].now = clock /\ call[c] = NoCall /\ rows' = rows /\ RowsFit
                      \/ call'[c].now = call[c].now /\ call[c] # NoCall
<1>2. \A d \in Callers : call'[d] = call[d] => Goes(d)
  OBVIOUS
<1>3. ASSUME NEW c \in Callers, NEW m \in Messages, EnqueueStamps(c, m)
      PROVE  \A d \in Callers : Goes(d)
  <2>1. Goes(c)
    BY <1>0, <1>3 DEF EnqueueStamps, TypeOK
  <2>2. \A d \in Callers \ {c} : call'[d] = call[d]
    BY <1>0, <1>3 DEF EnqueueStamps, TypeOK
  <2> QED
    BY <1>2, <2>1, <2>2
<1>4. ASSUME NEW c \in Callers, EnqueueBegins(c)
      PROVE  \A d \in Callers : Goes(d)
  <2>1. call[c] # NoCall /\ call[c] \in Call
    BY <1>0, <1>4 DEF EnqueueBegins, TypeOK, NoCall
  <2>2. call' = [call EXCEPT ![c].pc = Verdict(call[c].msg)]
    BY <1>4 DEF EnqueueBegins
  <2>3. call'[c].now = call[c].now
    BY <1>0, <2>1, <2>2, CallFields DEF TypeOK, Call
  <2>4. \A d \in Callers \ {c} : call'[d] = call[d]
    BY <1>0, <2>2 DEF TypeOK
  <2> QED
    BY <1>2, <2>1, <2>3, <2>4
<1>5. ASSUME NEW c \in Callers, EnqueueInserts(c) \/ EnqueueDeclines(c) \/ EnqueueFails(c)
      PROVE  \A d \in Callers : Goes(d)
  <2>1. call'[c] = NoCall /\ \A d \in Callers \ {c} : call'[d] = call[d]
    BY <1>0, <1>5 DEF EnqueueInserts, EnqueueDeclines, EnqueueFails, TypeOK
  <2> QED
    BY <1>2, <2>1
<1>6. ASSUME Crash
      PROVE  \A d \in Callers : Goes(d)
  BY <1>6 DEF Crash
<1>7. ASSUME call' = call
      PROVE  \A d \in Callers : Goes(d)
  BY <1>2, <1>7
<1>8. \A d \in Callers : Goes(d)
  <2> HIDE DEF Goes
  <2> QED
    BY <1>0, <1>3, <1>4, <1>5, <1>6, <1>7
       DEF Next, NextDueReadsClock, NextDueSelects, NextDueReturnsNothing, MarkDelivered,
           RetryBegins, RetryCommits, WorkerCallFails, Initialize, Tick, ClockStepsBack
<1> QED
  BY <1>0, <1>1, <1>8, SeenFitsKept

LEMMA RefineStep ==
    ASSUME ~ClockMayStepBack, RefineInv, [HistoryNext]_historyVars
    PROVE  RefineInv'
<1>1. [Next]_vars
  BY DEF HistoryNext, historyVars, vars
<1>2. OutboxInv' /\ Capacity' /\ VerdictHolds'
  BY <1>1, OutboxStep, CapacityStep DEF RefineInv
<1>3. RowsFit' /\ WorkerFits'
  BY <1>1, RowsFitStep, WorkerFitsStep
<1>4. SeenFits'
  <2>1. CASE HistoryNext
    BY <2>1, SeenFitsStep
  <2>2. CASE UNCHANGED historyVars
    BY <2>2 DEF historyVars, SeenFits, RefineInv
  <2> QED
    BY <2>1, <2>2
<1> QED
  BY <1>2, <1>3, <1>4 DEF RefineInv

------------------------------------------------------------------------------
(* every step is a step of the queue *)

Attempted == {m \in DOMAIN rows : rows[m].attempts > 0}

Visible == IF Selecting THEN DueAt(worker.now) ELSE {}

\* What the queue sees of the table, the clock and the worker.
SameLine == UNCHANGED <<DOMAIN rows, Attempted, [m \in Messages |-> RowsBefore(m)]>>

SameRead == Selecting' = Selecting /\ Visible' = Visible

LEMMA LineOfRows ==
    ASSUME rows' = rows
    PROVE  SameLine
BY DEF SameLine, Attempted, RowsBefore, SortsBefore

LEMMA DueOfRows ==
    ASSUME rows' = rows, clock' = clock
    PROVE  DueAt(clock)' = DueAt(clock)
BY DEF DueAt

LEMMA NotSelecting ==
    ASSUME worker.pc # "selecting", worker'.pc # "selecting"
    PROVE  SameRead /\ ~Selecting /\ Visible = {} /\ Visible' = {}
BY DEF SameRead, Selecting, Visible

\* The history variable changes for the calls that begin or end.
LEMMA SeenSame ==
    ASSUME RefineInv, HistoryNext, DOMAIN rows \subseteq DOMAIN rows', NEW D \in SUBSET Callers,
           \A d \in D : call'[d] = call[d] \/ (call[d] # NoCall /\ call'[d] # NoCall)
    PROVE  \A d \in D : seen'[d] = seen[d]
BY DEF HistoryNext, RefineInv, SeenFits

LEMMA StampStep ==
    ASSUME RefineInv, HistoryNext, NEW c \in Callers, NEW m \in Messages, EnqueueStamps(c, m)
    PROVE  Queue!StampCall(c)
<1>1. TypeOK
  BY DEF RefineInv, OutboxInv
<1>2. /\ rows' = rows /\ clock' = clock /\ worker' = worker /\ call[c] = NoCall
      /\ call'[c] # NoCall /\ \A d \in Callers \ {c} : call'[d] = call[d]
  BY <1>1 DEF EnqueueStamps, TypeOK, NoCall
<1>3. seen' = [seen EXCEPT ![c] = DOMAIN rows]
  <2>1. seen'[c] = DOMAIN rows
    BY <1>2 DEF HistoryNext
  <2>2. \A d \in Callers \ {c} : seen'[d] = seen[d]
    BY <1>2, SeenSame
  <2> QED
    BY <2>1, <2>2 DEF HistoryNext, RefineInv, SeenFits
<1>4. SameLine /\ DueAt(clock)' = DueAt(clock) /\ SameRead
  BY <1>2, LineOfRows, DueOfRows DEF SameRead, Selecting, Visible, DueAt
<1> QED
  BY <1>3, <1>4 DEF Queue!StampCall, SameLine, SameRead, Attempted, Visible

\* The queue counts as the table does.
LEMMA SameCount == Queue!Cardinality(DOMAIN rows) = Cardinality(DOMAIN rows)
BY DEF Queue!Cardinality, Cardinality

\* An INSERT puts the row behind those with a stamp not after its own.
LEMMA InsertStep ==
    ASSUME RefineInv, HistoryNext, NEW c \in Callers, EnqueueInserts(c),
           NEW msg \in Messages, msg = call[c].msg
    PROVE  Queue!InsertRow(c, msg)
<1> DEFINE before == {x \in DOMAIN rows : rows[x].created <= call[c].now}
<1>1. TypeOK /\ RowsFit /\ SeenFits /\ VerdictHolds
  BY DEF RefineInv, OutboxInv
<1>2. /\ call[c] # NoCall /\ call[c].pc = "inserting"
      /\ call[c].now \in Nat
      /\ call[c].now <= clock /\ clock \in Nat
      /\ \A x \in seen[c] : x \in DOMAIN rows /\ rows[x].created <= call[c].now
  BY <1>1, CallFields DEF EnqueueInserts, SeenFits, TypeOK, NoCall
<1>3. msg \notin DOMAIN rows /\ Cardinality(DOMAIN rows) < MaxPending
  BY <1>1, <1>2 DEF VerdictHolds
<1>4. /\ DOMAIN rows' = DOMAIN rows \cup {msg}
      /\ \A m \in DOMAIN rows : rows'[m] = rows[m]
      /\ rows'[msg] = [created |-> call[c].now, follows |-> DOMAIN rows,
                       attempts |-> 0, next |-> call[c].now]
      /\ clock' = clock /\ worker' = worker
      /\ call'[c] = NoCall /\ \A d \in Callers \ {c} : call'[d] = call[d]
  BY <1>1, <1>3 DEF EnqueueInserts, TypeOK
<1>5. \A m \in DOMAIN rows : /\ rows[m].created \in Nat /\ m \in Messages
                             /\ rows[m].follows \subseteq DOMAIN rows
  BY <1>1, StoredRowTyped DEF RowsFit
<1>6. before \in Queue!Placements(c)
  <2>1. before \in SUBSET (DOMAIN rows) /\ seen[c] \subseteq before
    BY <1>2
  <2>2. ASSUME NEW x \in before, NEW y \in RowsBefore(x)
        PROVE  y \in before
    <3>1. y \in DOMAIN rows /\ rows[y].created <= rows[x].created
      BY <1>5, <2>2 DEF RowsBefore, SortsBefore
    <3> QED
      BY <1>2, <1>5, <3>1
  <2>3. \A x \in before : [m \in Messages |-> RowsBefore(m)][x] \subseteq before
    BY <1>5, <2>2
  <2> QED
    BY <2>1, <2>3 DEF Queue!Placements
<1>7. ASSUME NEW x \in Messages
      PROVE  RowsBefore(x)' = IF x = msg THEN before
                              ELSE IF x \in DOMAIN rows \ before THEN RowsBefore(x) \cup {msg}
                              ELSE RowsBefore(x)
  <2>1. CASE x = msg
    BY <1>2, <1>3, <1>4, <1>5, <2>1 DEF RowsBefore, SortsBefore
  <2>2. CASE x \in DOMAIN rows \ before
    <3>1. x # msg /\ rows'[x] = rows[x] /\ call[c].now < rows[x].created
      BY <1>2, <1>3, <1>4, <1>5, <2>2
    <3>2. SortsBefore(msg, x)'
      BY <1>4, <3>1 DEF SortsBefore
    <3>3. \A y \in DOMAIN rows : SortsBefore(y, x)' <=> SortsBefore(y, x)
      BY <1>4, <3>1 DEF SortsBefore
    <3> QED
      BY <1>3, <1>4, <2>2, <3>1, <3>2, <3>3 DEF RowsBefore
  <2>3. CASE x \in before
    <3>1. x # msg /\ rows'[x] = rows[x] /\ rows[x].created <= call[c].now
      BY <1>3, <1>4, <2>3
    <3>2. ~SortsBefore(msg, x)'
      BY <1>2, <1>3, <1>4, <1>5, <2>3, <3>1 DEF SortsBefore
    <3>3. \A y \in DOMAIN rows : SortsBefore(y, x)' <=> SortsBefore(y, x)
      BY <1>4, <3>1 DEF SortsBefore
    <3> QED
      BY <1>3, <1>4, <2>3, <3>1, <3>2, <3>3 DEF RowsBefore
  <2>4. CASE x # msg /\ x \notin DOMAIN rows
    BY <1>4, <2>4 DEF RowsBefore
  <2> QED
    BY <2>1, <2>2, <2>3, <2>4
<1>8. [m \in Messages |-> RowsBefore(m)]' =
        [x \in Messages |->
           IF x = msg THEN before
           ELSE IF x \in DOMAIN rows \ before THEN [m \in Messages |-> RowsBefore(m)][x] \cup {msg}
           ELSE [m \in Messages |-> RowsBefore(m)][x]]
  BY <1>7
<1>9. DueAt(clock)' = DueAt(clock) \cup {msg}
  BY <1>2, <1>3, <1>4 DEF DueAt
<1>10. Attempted' = Attempted
  BY <1>3, <1>4 DEF Attempted
<1>11. Selecting' = Selecting
  BY <1>4 DEF Selecting
<1>12. Visible' = Visible \/ (Selecting /\ Visible' = Visible \cup {msg})
  BY <1>3, <1>4 DEF Selecting, Visible, DueAt
<1>13. seen' = [seen EXCEPT ![c] = {}]
  <2>1. seen'[c] = {}
    BY <1>4 DEF HistoryNext
  <2>2. \A d \in Callers \ {c} : seen'[d] = seen[d]
    BY <1>4, SeenSame
  <2> QED
    BY <1>1, <2>1, <2>2 DEF HistoryNext, SeenFits
<1> QED
  BY <1>3, <1>4, <1>6, <1>8, <1>9, <1>10, <1>11, <1>12, <1>13, SameCount
     DEF Queue!InsertRow, Attempted, Visible

LEMMA CallsSame ==
    ASSUME RefineInv, HistoryNext, DOMAIN rows \subseteq DOMAIN rows', call' = call
    PROVE  seen' = seen
<1>1. \A d \in Callers : seen'[d] = seen[d]
  BY SeenSame
<1> QED
  BY <1>1 DEF HistoryNext, RefineInv, SeenFits

LEMMA EndStep ==
    ASSUME RefineInv, HistoryNext, NEW c \in Callers, EnqueueDeclines(c) \/ EnqueueFails(c)
    PROVE  Queue!EndCall(c)
<1>1. TypeOK
  BY DEF RefineInv, OutboxInv
<1>2. /\ rows' = rows /\ clock' = clock /\ worker' = worker
      /\ call'[c] = NoCall /\ \A d \in Callers \ {c} : call'[d] = call[d]
  BY <1>1 DEF EnqueueDeclines, EnqueueFails, TypeOK
<1>3. seen' = [seen EXCEPT ![c] = {}]
  <2>1. seen'[c] = {}
    BY <1>2 DEF HistoryNext
  <2>2. \A d \in Callers \ {c} : seen'[d] = seen[d]
    BY <1>2, SeenSame
  <2> QED
    BY <2>1, <2>2 DEF HistoryNext, RefineInv, SeenFits
<1>4. SameLine /\ DueAt(clock)' = DueAt(clock) /\ SameRead
  BY <1>2, LineOfRows, DueOfRows DEF SameRead, Selecting, Visible, DueAt
<1> QED
  BY <1>3, <1>4 DEF Queue!EndCall, SameLine, SameRead, Attempted, Visible

\* The lock, and what a call holds in its hands, is none of the queue's business.
LEMMA StutterStep ==
    ASSUME RefineInv, HistoryNext,
           (\E c \in Callers : EnqueueBegins(c)) \/ RetryBegins \/ WorkerCallFails
    PROVE  UNCHANGED Queue!queueVars
<1>1. TypeOK
  BY DEF RefineInv, OutboxInv
<1>2. rows' = rows /\ clock' = clock
  BY DEF EnqueueBegins, RetryBegins, WorkerCallFails
<1>3. SameRead
  <2>1. CASE worker' = worker
    BY <1>2, <2>1 DEF SameRead, Selecting, Visible, DueAt
  <2>2. CASE RetryBegins \/ WorkerCallFails
    BY <2>2, NotSelecting DEF RetryBegins, WorkerCallFails
  <2> QED
    BY <2>1, <2>2 DEF EnqueueBegins
<1>4. seen' = seen
  <2>1. ASSUME NEW c \in Callers, EnqueueBegins(c)
        PROVE  \A d \in Callers : seen'[d] = seen[d]
    <3>1. call[c] # NoCall /\ call'[c] # NoCall
      <4>1. call[c].pc = "stamped" /\ call'[c].pc = Verdict(call[c].msg)
        BY <1>1, <2>1 DEF EnqueueBegins, TypeOK, Call, NoCall
      <4> QED
        BY <4>1 DEF Verdict, NoCall
    <3>2. \A d \in Callers \ {c} : call'[d] = call[d]
      BY <1>1, <2>1 DEF EnqueueBegins, TypeOK
    <3> QED
      BY <1>2, <3>1, <3>2, SeenSame
  <2>2. CASE RetryBegins \/ WorkerCallFails
    BY <1>2, <2>2, CallsSame DEF RetryBegins, WorkerCallFails
  <2> QED
    BY <2>1, <2>2 DEF HistoryNext, RefineInv, SeenFits
<1>5. SameLine /\ DueAt(clock)' = DueAt(clock)
  BY <1>2, LineOfRows, DueOfRows
<1> QED
  BY <1>3, <1>4, <1>5 DEF Queue!queueVars, SameLine, SameRead, Attempted, Visible

LEMMA BeginStep ==
    ASSUME RefineInv, HistoryNext, NextDueReadsClock
    PROVE  Queue!BeginRead
<1>1. /\ rows' = rows /\ clock' = clock /\ call' = call
      /\ worker' = [pc |-> "selecting", now |-> clock]
  BY DEF NextDueReadsClock
<1>2. seen' = seen
  BY <1>1, CallsSame
<1>3. SameLine /\ DueAt(clock)' = DueAt(clock)
  BY <1>1, LineOfRows, DueOfRows
<1>4. Selecting' = TRUE
  BY <1>1 DEF Selecting
<1>5. Visible' = DueAt(clock)
  BY <1>1 DEF Selecting, Visible, DueAt
<1> QED
  BY <1>2, <1>3, <1>4, <1>5 DEF Queue!BeginRead, SameLine, Attempted, Visible

LEMMA EndReadStep ==
    ASSUME RefineInv, HistoryNext, NextDueSelects \/ NextDueReturnsNothing
    PROVE  Queue!EndRead
<1>1. rows' = rows /\ clock' = clock /\ call' = call /\ worker'.pc # "selecting"
  BY DEF NextDueSelects, NextDueReturnsNothing
<1>2. seen' = seen
  BY <1>1, CallsSame
<1>3. SameLine /\ DueAt(clock)' = DueAt(clock)
  BY <1>1, LineOfRows, DueOfRows
<1>4. Selecting' = FALSE
  BY <1>1 DEF Selecting
<1>5. Visible' = {}
  BY <1>4 DEF Visible
<1> QED
  BY <1>2, <1>3, <1>4, <1>5 DEF Queue!EndRead, SameLine, Attempted, Visible

\* A DELETE takes the row out of the line and moves no other.
LEMMA DeleteStep ==
    ASSUME RefineInv, HistoryNext, MarkDelivered, NEW msg \in Messages, msg = worker.msg
    PROVE  Queue!DeleteRow(msg)
<1>1. TypeOK
  BY DEF RefineInv, OutboxInv
<1>2. /\ DOMAIN rows' = DOMAIN rows \ {msg} /\ clock' = clock /\ call' = call
      /\ worker.pc # "selecting" /\ worker'.pc # "selecting"
      /\ \A m \in DOMAIN rows' : rows'[m] = [rows[m] EXCEPT !.follows = @ \ {msg}]
  BY DEF MarkDelivered
<1>3. \A m \in DOMAIN rows' :
        /\ m \in DOMAIN rows
        /\ rows'[m].created = rows[m].created /\ rows'[m].next = rows[m].next
        /\ rows'[m].attempts = rows[m].attempts
        /\ rows'[m].follows = rows[m].follows \ {msg}
  BY <1>1, <1>2, StoredRowTyped
<1>4. DueAt(clock)' = DueAt(clock) \ {msg} /\ Attempted' = Attempted \ {msg}
  BY <1>2, <1>3 DEF DueAt, Attempted
<1>5. ASSUME NEW x \in Messages
      PROVE  RowsBefore(x)' = IF x = msg THEN {} ELSE RowsBefore(x) \ {msg}
  <2>1. CASE x \in DOMAIN rows'
    <3>1. x \in DOMAIN rows /\ x # msg
      BY <1>2, <2>1
    <3>2. \A y \in DOMAIN rows' : SortsBefore(y, x)' <=> SortsBefore(y, x)
      BY <1>2, <1>3, <2>1 DEF SortsBefore
    <3> QED
      BY <1>2, <2>1, <3>1, <3>2 DEF RowsBefore
  <2>2. CASE x \notin DOMAIN rows'
    BY <1>2, <2>2 DEF RowsBefore
  <2> QED
    BY <2>1, <2>2
<1>6. [m \in Messages |-> RowsBefore(m)]' =
        [x \in Messages |-> IF x = msg THEN {} ELSE [m \in Messages |-> RowsBefore(m)][x] \ {msg}]
  BY <1>5
<1>7. seen' = [c \in Callers |-> seen[c] \ {msg}]
  BY <1>2 DEF HistoryNext, RefineInv, SeenFits
<1>8. Selecting' = Selecting /\ Visible = {} /\ Visible' = {}
  BY <1>2, NotSelecting DEF SameRead
<1> QED
  BY <1>2, <1>4, <1>6, <1>7, <1>8 DEF Queue!DeleteRow, Attempted, Visible

\* A retry moves no row: its place depends on created_at and rowid only.
LEMMA RetryStep ==
    ASSUME RefineInv, HistoryNext, RetryCommits, NEW msg \in Messages, msg = worker.msg
    PROVE  Queue!PostponeRow(msg)
<1>1. /\ TypeOK /\ msg \in DOMAIN rows /\ worker.pc = "updating"
      /\ worker.attempts \in Nat /\ worker.attempts = rows[msg].attempts + 1
      /\ rows[msg].next <= clock
  BY WorkerFields DEF RetryCommits, RefineInv, OutboxInv, HeldRowIsStored, WorkerFits, TypeOK
<1>2. /\ DOMAIN rows' = DOMAIN rows /\ clock' = clock /\ call' = call
      /\ worker'.pc # "selecting"
      /\ \A m \in DOMAIN rows \ {msg} : rows'[m] = rows[m]
      /\ rows'[msg].created = rows[msg].created /\ rows'[msg].follows = rows[msg].follows
      /\ rows'[msg].attempts = worker.attempts
  BY <1>1, StoredRowTyped DEF RetryCommits, TypeOK
<1>3. worker.attempts > 0
  BY <1>1, StoredRowTyped
<1>4. Attempted' = Attempted \cup ({msg} \cap DOMAIN rows)
  BY <1>1, <1>2, <1>3 DEF Attempted
<1>5. DueAt(clock)' = DueAt(clock) \/ DueAt(clock)' = DueAt(clock) \ {msg}
  BY <1>1, <1>2 DEF DueAt
<1>6. ASSUME NEW x \in Messages
      PROVE  RowsBefore(x)' = RowsBefore(x)
  BY <1>1, <1>2 DEF RowsBefore, SortsBefore
<1>7. [m \in Messages |-> RowsBefore(m)]' = [m \in Messages |-> RowsBefore(m)]
  BY <1>6
<1>8. seen' = seen
  BY <1>2, CallsSame
<1>9. Selecting' = Selecting /\ Visible = {} /\ Visible' = {}
  BY <1>1, <1>2, NotSelecting DEF SameRead
<1> QED
  BY <1>2, <1>4, <1>5, <1>7, <1>8, <1>9 DEF Queue!PostponeRow, Attempted, Visible

LEMMA TickStep ==
    ASSUME RefineInv, HistoryNext, Tick
    PROVE  Queue!TimePasses \/ UNCHANGED Queue!queueVars
<1>1. TypeOK /\ rows' = rows /\ call' = call /\ worker' = worker /\ clock' = clock + 1
  BY DEF Tick, RefineInv, OutboxInv
<1>2. SameLine
  BY <1>1, LineOfRows
<1>3. seen' = seen
  BY <1>1, CallsSame
<1>4. SameRead
  BY <1>1 DEF SameRead, Selecting, Visible, DueAt
<1>5. DueAt(clock) \subseteq DueAt(clock)' /\ DueAt(clock)' \subseteq DOMAIN rows
  BY <1>1, StoredRowTyped DEF DueAt, TypeOK
<1> DEFINE New == DueAt(clock)' \ DueAt(clock)
<1>6. New \in SUBSET (DOMAIN rows \ DueAt(clock)) /\ DueAt(clock)' = DueAt(clock) \cup New
  BY <1>5
<1>7. CASE New = {}
  BY <1>2, <1>3, <1>4, <1>6, <1>7 DEF Queue!queueVars, SameLine, SameRead, Attempted, Visible
<1>8. CASE New # {}
  <2> HIDE DEF New
  <2> QED
    BY <1>2, <1>3, <1>4, <1>6, <1>8
       DEF Queue!TimePasses, SameLine, SameRead, Attempted, Visible
<1> QED
  BY <1>7, <1>8

LEMMA CrashStep ==
    ASSUME RefineInv, HistoryNext, Crash
    PROVE  Queue!AbandonCalls
<1>1. /\ rows' = rows /\ clock' = clock /\ worker'.pc # "selecting"
      /\ \A c \in Callers : call'[c] = NoCall
  BY DEF Crash
<1>2. seen' = [c \in Callers |-> {}]
  BY <1>1 DEF HistoryNext
<1>3. SameLine /\ DueAt(clock)' = DueAt(clock)
  BY <1>1, LineOfRows, DueOfRows
<1>4. Selecting' = FALSE
  BY <1>1 DEF Selecting
<1>5. Visible' = {}
  BY <1>4 DEF Visible
<1> QED
  BY <1>2, <1>3, <1>4, <1>5 DEF Queue!AbandonCalls, SameLine, Attempted, Visible

\* initialize() makes every row due and moves none.
LEMMA RecoverStep ==
    ASSUME RefineInv, HistoryNext, Initialize
    PROVE  Queue!RecoverRows
<1>1. TypeOK /\ clock \in Nat
  BY DEF RefineInv, OutboxInv, TypeOK
<1>2. /\ DOMAIN rows' = DOMAIN rows /\ clock' = clock /\ call' = call
      /\ worker.pc # "selecting" /\ worker'.pc # "selecting"
      /\ \A m \in DOMAIN rows :
           rows'[m] = [rows[m] EXCEPT !.next = IF @ > clock THEN clock ELSE @]
  BY DEF Initialize
<1>3. \A m \in DOMAIN rows :
        /\ rows'[m].created = rows[m].created /\ rows'[m].follows = rows[m].follows
        /\ rows'[m].attempts = rows[m].attempts /\ rows'[m].next <= clock
  BY <1>1, <1>2, StoredRowTyped
<1>4. DueAt(clock)' = DOMAIN rows /\ Attempted' = Attempted
  BY <1>2, <1>3 DEF DueAt, Attempted
<1>5. ASSUME NEW x \in Messages
      PROVE  RowsBefore(x)' = RowsBefore(x)
  BY <1>2, <1>3 DEF RowsBefore, SortsBefore
<1>6. [m \in Messages |-> RowsBefore(m)]' = [m \in Messages |-> RowsBefore(m)]
  BY <1>5
<1>7. seen' = seen
  BY <1>2, CallsSame
<1>8. Selecting' = Selecting /\ Visible' = Visible
  BY <1>2, NotSelecting DEF SameRead
<1> QED
  BY <1>2, <1>4, <1>6, <1>7, <1>8 DEF Queue!RecoverRows, Attempted, Visible

LEMMA StepsAreQueueSteps ==
    ASSUME ~ClockMayStepBack, RefineInv, [HistoryNext]_historyVars
    PROVE  [Queue!QueueNext]_Queue!queueVars
<1>1. CASE UNCHANGED historyVars
  <2>1. rows' = rows /\ clock' = clock /\ worker' = worker /\ seen' = seen
    BY <1>1 DEF historyVars
  <2>2. SameLine /\ DueAt(clock)' = DueAt(clock) /\ SameRead
    BY <2>1, LineOfRows, DueOfRows DEF SameRead, Selecting, Visible, DueAt
  <2> QED
    BY <2>1, <2>2 DEF Queue!queueVars, SameLine, SameRead, Attempted, Visible
<1>2. CASE HistoryNext
  <2> USE <1>2
  <2>1. ASSUME NEW c \in Callers, NEW m \in Messages, EnqueueStamps(c, m)
        PROVE  Queue!QueueNext
    BY <2>1, StampStep DEF Queue!QueueNext
  <2>2. ASSUME NEW c \in Callers, EnqueueInserts(c)
        PROVE  Queue!QueueNext
    <3>1. call[c].msg \in Messages
      BY <2>2, CallFields DEF EnqueueInserts, RefineInv, OutboxInv, TypeOK
    <3> QED
      BY <2>2, <3>1, InsertStep DEF Queue!QueueNext
  <2>3. ASSUME NEW c \in Callers, EnqueueDeclines(c) \/ EnqueueFails(c)
        PROVE  Queue!QueueNext
    BY <2>3, EndStep DEF Queue!QueueNext
  <2>4. ASSUME NEW c \in Callers, EnqueueBegins(c)
        PROVE  UNCHANGED Queue!queueVars
    BY <2>4, StutterStep
  <2>5. CASE RetryBegins \/ WorkerCallFails
    BY <2>5, StutterStep
  <2>6. CASE NextDueReadsClock
    BY <2>6, BeginStep DEF Queue!QueueNext
  <2>7. CASE NextDueSelects \/ NextDueReturnsNothing
    BY <2>7, EndReadStep DEF Queue!QueueNext
  <2>8. CASE MarkDelivered \/ RetryCommits
    <3>1. worker.msg \in Messages
      BY <2>8, WorkerFields DEF MarkDelivered, RetryCommits, RefineInv, OutboxInv, TypeOK
    <3> QED
      BY <2>8, <3>1, DeleteStep, RetryStep DEF Queue!QueueNext
  <2>9. CASE Tick
    BY <2>9, TickStep DEF Queue!QueueNext
  <2>10. CASE Crash
    BY <2>10, CrashStep DEF Queue!QueueNext
  <2>11. CASE Initialize
    BY <2>11, RecoverStep DEF Queue!QueueNext
  <2>12. ~ClockStepsBack
    BY DEF ClockStepsBack
  <2>13. Next
    BY DEF HistoryNext
  <2> QED
    BY <2>1, <2>2, <2>3, <2>4, <2>5, <2>6, <2>7, <2>8, <2>9, <2>10, <2>11, <2>12, <2>13
       DEF Next
<1> QED
  BY <1>1, <1>2

LEMMA StartIsQueueStart == HistoryInit => Queue!QueueInit
<1> SUFFICES ASSUME HistoryInit
             PROVE  Queue!QueueInit
  OBVIOUS
<1>1. DOMAIN rows = {} /\ ~Selecting /\ seen = [c \in Callers |-> {}]
  BY DEF HistoryInit, Init, Selecting
<1>2. DueAt(clock) = {} /\ Attempted = {} /\ Visible = {}
  BY <1>1 DEF DueAt, Attempted, Visible
<1>3. [m \in Messages |-> RowsBefore(m)] = [m \in Messages |-> {}]
  BY <1>1 DEF RowsBefore
<1> QED
  BY <1>1, <1>2, <1>3 DEF Queue!QueueInit, Attempted, Visible

LEMMA RefineInvariant ==
    ASSUME ~ClockMayStepBack
    PROVE  HistorySpec => []RefineInv
<1>1. RefineInv /\ [HistoryNext]_historyVars => RefineInv'
  BY RefineStep
<1> QED
  BY <1>1, RefineInit, PTL DEF HistorySpec

\* On a clock that is never set back, the outbox over SQLite does what the
\* abstract queue allows and nothing else, whatever calls overlap and wherever
\* the process dies.
THEOREM OutboxImplementsQueue ==
    ASSUME ~ClockMayStepBack
    PROVE  HistorySpec => ImplementsQueue
<1>1. RefineInv /\ [HistoryNext]_historyVars => [Queue!QueueNext]_Queue!queueVars
  BY StepsAreQueueSteps
<1> QED
  BY <1>1, StartIsQueueStart, RefineInvariant, PTL
     DEF HistorySpec, ImplementsQueue, Queue!QueueSpec

------------------------------------------------------------------------------
(* what the queue promises, on the table *)

\* The two readings of OutboxQueue on the table, with its theorems and without,
\* are one.
LEMMA OneQueue ==
    /\ Queue!QueueInit => QP!QueueInit
    /\ [Queue!QueueNext]_Queue!queueVars => [QP!QueueNext]_QP!queueVars
    /\ QP!QueueInv => QueueInvariants
<1>1. Queue!QueueInit => QP!QueueInit
  BY DEF Queue!QueueInit, QP!QueueInit
<1>2. Queue!Cardinality(DOMAIN rows) = QP!Cardinality(DOMAIN rows)
  BY DEF Queue!Cardinality, QP!Cardinality
<1>3. [Queue!QueueNext]_Queue!queueVars => [QP!QueueNext]_QP!queueVars
  BY <1>2
     DEF Queue!QueueNext, QP!QueueNext, Queue!queueVars, QP!queueVars,
         Queue!StampCall, QP!StampCall, Queue!EndCall, QP!EndCall,
         Queue!InsertRow, QP!InsertRow, Queue!Placements, QP!Placements,
         Queue!BeginRead, QP!BeginRead, Queue!EndRead, QP!EndRead,
         Queue!DeleteRow, QP!DeleteRow, Queue!PostponeRow, QP!PostponeRow,
         Queue!TimePasses, QP!TimePasses, Queue!AbandonCalls, QP!AbandonCalls,
         Queue!RecoverRows, QP!RecoverRows
<1>4. QP!QueueInv => QueueInvariants
  BY DEF QP!QueueInv, QueueInvariants, Queue!QueueTypeOK, QP!QueueTypeOK,
         Queue!UntriedRowsAreDue, QP!UntriedRowsAreDue,
         Queue!SeenRowsArePending, QP!SeenRowsArePending
<1> QED
  BY <1>1, <1>3, <1>4

\* Rows of the table that were never tried are due, and what a SELECT under way
\* may return is still stored: an error or a crash never hides a new row.
THEOREM TableKeepsPromises ==
    ASSUME ~ClockMayStepBack
    PROVE  HistorySpec => []QueueInvariants
<1>1. HistorySpec => Queue!QueueSpec
  BY OutboxImplementsQueue DEF ImplementsQueue
<1>2. Queue!QueueSpec => QP!QueueSpec
  BY OneQueue, PTL DEF Queue!QueueSpec, QP!QueueSpec
<1>3. QP!QueueSpec => []QP!QueueInv
  <2>1. QP!IsFiniteSet(Messages)
    BY OutboxAssumption DEF QP!IsFiniteSet, IsFiniteSet
  <2>2. MaxPending \in Nat \ {0} /\ QP!IsFiniteSet(Messages)
    BY <2>1, OutboxAssumption
  <2> QED
    BY <2>2, QP!QueueCorrect
<1>4. QP!QueueInv => QueueInvariants
  BY OneQueue
<1> QED
  BY <1>1, <1>2, <1>3, <1>4, PTL

------------------------------------------------------------------------------
(* the line of rows on any clock *)

\* The rowids: what a row follows is there, of two rows one follows the other,
\* and what comes before a row comes before those that follow it.
RowidOrder ==
    /\ \A m \in DOMAIN rows : rows[m].follows \subseteq DOMAIN rows
    /\ \A m, n \in DOMAIN rows :
         m # n => (m \in rows[n].follows <=> n \notin rows[m].follows)
    /\ \A m, n \in DOMAIN rows :
         m \in rows[n].follows => rows[m].follows \subseteq rows[n].follows

LEMMA SameRowids ==
    ASSUME RowidOrder, DOMAIN rows' = DOMAIN rows,
           \A m \in DOMAIN rows : rows'[m].follows = rows[m].follows
    PROVE  RowidOrder'
BY DEF RowidOrder

LEMMA RowidStep ==
    ASSUME OutboxInv, VerdictHolds, RowidOrder, [Next]_vars
    PROVE  RowidOrder'
<1>0. TypeOK /\ \A m \in DOMAIN rows : rows[m] \in Row
  BY DEF OutboxInv, TypeOK
<1>1. ASSUME NEW c \in Callers, EnqueueInserts(c)
      PROVE  RowidOrder'
  <2>1. PICK msg : msg = call[c].msg
    OBVIOUS
  <2>2. /\ msg \notin DOMAIN rows
        /\ DOMAIN rows' = DOMAIN rows \cup {msg}
        /\ rows'[msg].follows = DOMAIN rows
        /\ \A m \in DOMAIN rows : rows'[m] = rows[m]
    BY <1>1, <2>1 DEF EnqueueInserts, VerdictHolds
  <2> QED
    BY <2>2 DEF RowidOrder
<1>2. ASSUME MarkDelivered
      PROVE  RowidOrder'
  <2>1. PICK msg : msg = worker.msg
    OBVIOUS
  <2>2. /\ DOMAIN rows' = DOMAIN rows \ {msg}
        /\ \A m \in DOMAIN rows' : rows'[m] = [rows[m] EXCEPT !.follows = @ \ {msg}]
    BY <1>2, <2>1 DEF MarkDelivered
  <2>3. ASSUME NEW m \in DOMAIN rows'
        PROVE  rows'[m].follows = rows[m].follows \ {msg}
    <3>1. rows[m] \in Row
      BY <1>0, <2>2
    <3> QED
      BY <2>2, <3>1 DEF Row
  <2> QED
    BY <2>2, <2>3 DEF RowidOrder
<1>3. ASSUME RetryCommits
      PROVE  RowidOrder'
  BY <1>0, <1>3, SameRowids DEF RetryCommits, TypeOK, Row
<1>4. ASSUME Initialize
      PROVE  RowidOrder'
  <2>1. DOMAIN rows' = DOMAIN rows
    BY <1>4 DEF Initialize
  <2>2. ASSUME NEW m \in DOMAIN rows
        PROVE  rows'[m].follows = rows[m].follows
    <3>1. rows[m] \in Row
      BY <1>0
    <3> QED
      BY <1>4, <3>1 DEF Initialize, Row
  <2> QED
    BY <2>1, <2>2, SameRowids
<1>5. ASSUME rows' = rows
      PROVE  RowidOrder'
  BY <1>5 DEF RowidOrder
<1> QED
  BY <1>1, <1>2, <1>3, <1>4, <1>5
     DEF Next, vars, EnqueueStamps, EnqueueBegins, EnqueueDeclines, EnqueueFails,
         NextDueReadsClock, NextDueSelects, NextDueReturnsNothing, RetryBegins,
         WorkerCallFails, Crash, Tick, ClockStepsBack

\* Rowids that are in order break every tie between stamps.
LEMMA RowidsMakeOneLine ==
    ASSUME TypeOK, RowidOrder
    PROVE  Queue!OneLine
<1> DEFINE Before(x, y) == x \in RowsBefore(y)
<1>1. \A m \in DOMAIN rows : m \in Messages /\ rows[m].created \in Nat
  BY StoredRowTyped
<1>2. \A x : \A y \in DOMAIN rows :
        Before(x, y) <=> x \in DOMAIN rows /\ x # y /\ SortsBefore(x, y)
  BY DEF RowsBefore
<1>3. \A m \in Messages : RowsBefore(m) \subseteq DOMAIN rows
  BY DEF RowsBefore
<1>4. \A m \in Messages \ DOMAIN rows : RowsBefore(m) = {}
  BY DEF RowsBefore
<1>5. ASSUME NEW m \in DOMAIN rows, NEW n \in DOMAIN rows, m # n
      PROVE  Before(m, n) <=> ~Before(n, m)
  <2>1. SortsBefore(m, n) <=> ~SortsBefore(n, m)
    BY <1>1, <1>5 DEF SortsBefore, RowidOrder
  <2> QED
    BY <1>2, <1>5, <2>1
<1>6. ASSUME NEW m \in DOMAIN rows, NEW n \in DOMAIN rows, Before(m, n)
      PROVE  \A x \in RowsBefore(m) : Before(x, n)
  <2> SUFFICES ASSUME NEW x \in RowsBefore(m)
               PROVE  Before(x, n)
    OBVIOUS
  <2>1. x \in DOMAIN rows /\ x # m /\ SortsBefore(x, m) /\ m # n /\ SortsBefore(m, n)
    BY <1>2, <1>6
  <2>2. x # n
    BY <1>5, <1>6, <2>1
  <2>3. SortsBefore(x, n)
    BY <1>1, <2>1 DEF SortsBefore, RowidOrder
  <2> QED
    BY <1>2, <2>1, <2>2, <2>3
<1>7. \A m \in DOMAIN rows : ~Before(m, m)
  BY <1>2
<1> QED
  BY <1>1, <1>3, <1>4, <1>5, <1>6, <1>7 DEF Queue!OneLine

LEMMA RowidInvariant == Spec => [](OutboxInv /\ RowidOrder)
<1>1. Init => RowidOrder
  BY DEF Init, RowidOrder
<1>2. OutboxInv /\ VerdictHolds /\ RowidOrder /\ [Next]_vars => RowidOrder'
  BY RowidStep
<1> QED
  BY <1>1, <1>2, OutboxInit, OutboxStep, CapacityInvariant, PTL DEF Spec

\* The rows form one line also when the clock is set back: stamps may then lie
\* in the future and out of order, but created_at, rowid still orders them.
THEOREM OneLineOnAnyClock == Spec => []RowsFormOneLine
<1>1. OutboxInv /\ RowidOrder => RowsFormOneLine
  BY RowidsMakeOneLine DEF OutboxInv, RowsFormOneLine
<1> QED
  BY <1>1, RowidInvariant, PTL

\* The row that next_due returns is the oldest that was due when it read the
\* clock: the line has one first row among any.  No clock is assumed.
THEOREM OldestHandedOut == HistorySpec => HandsOutOldest
<1>1. ASSUME OutboxInv, RowsFormOneLine, [HistoryNext]_historyVars,
             worker.pc = "selecting", worker'.pc = "holding"
      PROVE  Queue!IsOldest(worker'.msg)
  <2>1. NextDueSelects
    <3>1. [Next]_vars
      BY <1>1 DEF HistoryNext, historyVars, vars
    <3>2. worker' # worker
      BY <1>1
    <3>3. \A c \in Callers :
            /\ \A m \in Messages : ~EnqueueStamps(c, m)
            /\ ~EnqueueBegins(c) /\ ~EnqueueInserts(c) /\ ~EnqueueDeclines(c)
            /\ ~EnqueueFails(c)
      BY <3>2 DEF EnqueueStamps, EnqueueBegins, EnqueueInserts, EnqueueDeclines, EnqueueFails
    <3>4. /\ ~NextDueReadsClock /\ ~NextDueReturnsNothing /\ ~MarkDelivered /\ ~RetryBegins
          /\ ~RetryCommits /\ ~WorkerCallFails /\ ~Crash /\ ~Initialize
      BY <1>1 DEF NextDueReadsClock, NextDueReturnsNothing, MarkDelivered, RetryBegins,
                  RetryCommits, WorkerCallFails, Crash, Initialize
    <3>5. ~Tick /\ ~ClockStepsBack
      BY <3>2 DEF Tick, ClockStepsBack
    <3> QED
      BY <3>1, <3>2, <3>3, <3>4, <3>5 DEF Next, vars
  <2>2. PICK m \in DueAt(worker.now) :
          /\ \A x \in DueAt(worker.now) \ {m} : SortsBefore(m, x)
          /\ worker' = [pc |-> "holding", msg |-> m]
    BY <2>1 DEF NextDueSelects
  <2>3. TypeOK /\ DueAt(worker.now) \subseteq DOMAIN rows /\ DOMAIN rows \subseteq Messages
    BY <1>1 DEF OutboxInv, TypeOK, DueAt
  <2>4. ASSUME NEW x \in DueAt(worker.now), x \in RowsBefore(m)
        PROVE  FALSE
    <3>1. x # m /\ SortsBefore(m, x) /\ m \in RowsBefore(x)
      BY <2>2, <2>3, <2>4 DEF RowsBefore
    <3>2. x \in RowsBefore(m) <=> m \notin RowsBefore(x)
      BY <1>1, <2>3, <3>1 DEF RowsFormOneLine, Queue!OneLine
    <3> QED
      BY <2>4, <3>1, <3>2
  <2>5. Queue!IsOldest(m)
    BY <1>1, <2>3, <2>4 DEF Queue!IsOldest, Selecting
  <2> QED
    BY <2>2, <2>5
<1>2. OutboxInv /\ RowsFormOneLine /\ [HistoryNext]_historyVars
        => [worker.pc = "selecting" /\ worker'.pc = "holding"
              => Queue!IsOldest(worker'.msg)]_historyVars
  BY <1>1
<1>3. HistoryInit => Init
  BY DEF HistoryInit
<1>4. [HistoryNext]_historyVars => [Next]_vars
  BY DEF HistoryNext, historyVars, vars
<1> QED
  BY <1>2, <1>3, <1>4, RowidInvariant, OneLineOnAnyClock, PTL
     DEF HistorySpec, HandsOutOldest, Spec

==============================================================================
