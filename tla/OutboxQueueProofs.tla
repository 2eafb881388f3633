------------------------- MODULE OutboxQueueProofs -------------------------
(***************************************************************************)
(* Theorems about the abstract outbox, for any number of readings, threads *)
(* and rows.  Gateway.tla and GatewayOutbox.tla both implement QueueSpec,  *)
(* so what is proved here holds of their rows.                             *)
(***************************************************************************)
EXTENDS OutboxQueue, TLAPS

\* The four facts about the line of rows that hold in every state.
QueueInv == QueueTypeOK /\ OneLine /\ UntriedRowsAreDue /\ SeenRowsArePending

LEMMA QueueInitInv == QueueInit => QueueInv
BY DEF QueueInit, QueueInv, QueueTypeOK, OneLine, UntriedRowsAreDue, SeenRowsArePending

\* Every operation keeps its variables in their sets.
LEMMA QueueStepTyped ==
    ASSUME QueueTypeOK, [QueueNext]_queueVars
    PROVE  QueueTypeOK'
<1> USE DEF QueueTypeOK
<1>1. ASSUME NEW c \in Callers, StampCall(c)
      PROVE  QueueTypeOK'
  BY <1>1 DEF StampCall
<1>2. ASSUME NEW c \in Callers, EndCall(c)
      PROVE  QueueTypeOK'
  BY <1>2 DEF EndCall
<1>3. ASSUME NEW c \in Callers, NEW m \in Messages, InsertRow(c, m)
      PROVE  QueueTypeOK'
  <2>1. PICK before \in SUBSET pending :
          ahead' = [x \in Messages |->
                     IF x = m THEN before
                     ELSE IF x \in pending \ before THEN ahead[x] \cup {m}
                     ELSE ahead[x]]
    BY <1>3 DEF InsertRow, Placements
  <2>2. ahead' \in [Messages -> SUBSET Messages]
    BY <2>1
  <2>3. seen' \in [Callers -> SUBSET Messages]
    BY <1>3 DEF InsertRow
  <2>4. /\ pending' \subseteq Messages
        /\ due' \subseteq pending'
        /\ attempted' \subseteq pending'
        /\ reading' \in BOOLEAN
        /\ visible' \subseteq due'
        /\ ~reading' => visible' = {}
    BY <1>3 DEF InsertRow
  <2> QED
    BY <2>2, <2>3, <2>4
<1>4. CASE BeginRead
  BY <1>4 DEF BeginRead
<1>5. CASE EndRead
  BY <1>5 DEF EndRead
<1>6. ASSUME NEW m \in Messages, DeleteRow(m)
      PROVE  QueueTypeOK'
  BY <1>6 DEF DeleteRow
<1>7. ASSUME NEW m \in Messages, PostponeRow(m)
      PROVE  QueueTypeOK'
  BY <1>7 DEF PostponeRow
<1>8. CASE TimePasses
  BY <1>8 DEF TimePasses
<1>9. CASE AbandonCalls
  BY <1>9 DEF AbandonCalls
<1>10. CASE RecoverRows
  BY <1>10 DEF RecoverRows
<1>11. CASE UNCHANGED queueVars
  BY <1>11 DEF queueVars
<1> QED
  BY <1>1, <1>2, <1>3, <1>4, <1>5, <1>6, <1>7, <1>8, <1>9, <1>10, <1>11 DEF QueueNext

\* The operations that change the line of rows are the INSERT, which puts the
\* new row behind a prefix of the line, and the DELETE.
LEMMA InsertKeepsOneLine ==
    ASSUME QueueTypeOK, OneLine, NEW c \in Callers, NEW m \in Messages, InsertRow(c, m)
    PROVE  OneLine'
<1>1. PICK before \in Placements(c) :
        ahead' = [x \in Messages |->
                   IF x = m THEN before
                   ELSE IF x \in pending \ before THEN ahead[x] \cup {m}
                   ELSE ahead[x]]
  BY DEF InsertRow
<1>2. /\ m \notin pending
      /\ pending' = pending \cup {m}
      /\ before \subseteq pending
      /\ \A x \in before : ahead[x] \subseteq before
      /\ pending \subseteq Messages
  BY <1>1 DEF InsertRow, Placements, QueueTypeOK
<1>3. /\ \A x \in Messages : ahead[x] \subseteq pending
      /\ \A x \in Messages \ pending : ahead[x] = {}
      /\ \A x \in pending : x \notin ahead[x]
      /\ \A x, y \in pending : x # y => (x \in ahead[y] <=> y \notin ahead[x])
      /\ \A x, y \in pending : x \in ahead[y] => ahead[x] \subseteq ahead[y]
  BY DEF OneLine
<1>4. /\ ahead'[m] = before
      /\ \A x \in pending \ before : ahead'[x] = ahead[x] \cup {m}
      /\ \A x \in (Messages \ pending) \ {m} : ahead'[x] = {}
      /\ \A x \in before : ahead'[x] = ahead[x]
  BY <1>1, <1>2, <1>3
<1>5. \A x \in Messages : ahead'[x] \subseteq pending'
  BY <1>1, <1>2, <1>3
<1>6. \A x \in pending' : x \notin ahead'[x]
  BY <1>2, <1>3, <1>4
<1>7. ASSUME NEW x \in pending', NEW y \in pending', x # y
      PROVE  x \in ahead'[y] <=> y \notin ahead'[x]
  <2>1. CASE x = m
    BY <2>1, <1>2, <1>3, <1>4, <1>7
  <2>2. CASE y = m
    BY <2>2, <1>2, <1>3, <1>4, <1>7
  <2>3. CASE x # m /\ y # m
    BY <2>3, <1>2, <1>3, <1>4, <1>7
  <2> QED
    BY <2>1, <2>2, <2>3
<1>8. ASSUME NEW x \in pending', NEW y \in pending', x \in ahead'[y]
      PROVE  ahead'[x] \subseteq ahead'[y]
  <2>1. CASE x = m
    \* y is behind the new row, so it is not in the prefix put before it.
    <3>1. y \in pending \ before
      BY <2>1, <1>2, <1>3, <1>4, <1>8
    <3>2. ASSUME NEW z \in before
          PROVE  z \in ahead[y]
      BY <3>1, <1>2, <1>3
    <3> QED
      BY <2>1, <3>1, <3>2, <1>4
  <2>2. CASE x # m /\ y = m
    BY <2>2, <1>2, <1>3, <1>4, <1>8
  <2>3. CASE x # m /\ y # m
    <3>1. x \in pending /\ y \in pending /\ x \in ahead[y]
      BY <2>3, <1>2, <1>4, <1>8
    <3>2. ahead[x] \subseteq ahead[y]
      BY <3>1, <1>3
    <3>3. y \in before => x \in before
      BY <3>1, <1>2
    <3> QED
      BY <3>1, <3>2, <3>3, <1>4
  <2> QED
    BY <2>1, <2>2, <2>3
<1> QED
  BY <1>2, <1>4, <1>5, <1>6, <1>7, <1>8 DEF OneLine

LEMMA DeleteKeepsOneLine ==
    ASSUME QueueTypeOK, OneLine, NEW m \in Messages, DeleteRow(m)
    PROVE  OneLine'
<1>1. /\ pending' = pending \ {m}
      /\ \A x \in Messages : ahead'[x] = IF x = m THEN {} ELSE ahead[x] \ {m}
  BY DEF DeleteRow
<1>2. ASSUME NEW x \in pending', NEW y \in pending'
      PROVE  /\ x \in pending /\ y \in pending /\ x # m /\ y # m
             /\ ahead'[x] = ahead[x] \ {m}
             /\ ahead'[y] = ahead[y] \ {m}
  BY <1>1 DEF QueueTypeOK
<1>3. ASSUME NEW x \in Messages
      PROVE  ahead'[x] \subseteq pending'
  <2>1. ahead[x] \subseteq pending
    BY DEF OneLine
  <2>2. CASE x = m
    BY <2>2, <1>1
  <2>3. CASE x # m
    BY <2>1, <2>3, <1>1
  <2> QED
    BY <2>2, <2>3
<1>4. \A x \in Messages \ pending' : ahead'[x] = {}
  BY <1>1 DEF OneLine
<1>5. \A x \in pending' : x \notin ahead'[x]
  BY <1>2 DEF OneLine
<1>6. \A x, y \in pending' : x # y => (x \in ahead'[y] <=> y \notin ahead'[x])
  BY <1>2 DEF OneLine
<1>7. \A x, y \in pending' : x \in ahead'[y] => ahead'[x] \subseteq ahead'[y]
  BY <1>2 DEF OneLine
<1> QED
  BY <1>3, <1>4, <1>5, <1>6, <1>7 DEF OneLine

LEMMA QueueStepInv ==
    ASSUME QueueInv, [QueueNext]_queueVars
    PROVE  QueueInv'
<1> USE DEF QueueInv
<1>1. QueueTypeOK'
  BY QueueStepTyped
<1>2. OneLine'
  <2>1. ASSUME UNCHANGED <<pending, ahead>>
        PROVE  OneLine'
    BY <2>1 DEF OneLine
  <2> QED
    BY <2>1, InsertKeepsOneLine, DeleteKeepsOneLine
       DEF QueueNext, queueVars, StampCall, EndCall, BeginRead, EndRead, PostponeRow,
           TimePasses, AbandonCalls, RecoverRows
<1>3. UntriedRowsAreDue'
  BY DEF UntriedRowsAreDue, QueueTypeOK, QueueNext, queueVars, StampCall, EndCall, InsertRow,
         BeginRead, EndRead, DeleteRow, PostponeRow, TimePasses, AbandonCalls, RecoverRows
<1>4. SeenRowsArePending'
  BY DEF SeenRowsArePending, QueueTypeOK, QueueNext, queueVars, StampCall, EndCall, InsertRow,
         BeginRead, EndRead, DeleteRow, PostponeRow, TimePasses, AbandonCalls, RecoverRows
<1> QED
  BY <1>1, <1>2, <1>3, <1>4

\* The line of rows is a strict total order in every reachable state, rows
\* never tried are due, and stamps remember only rows that are there.
THEOREM QueueCorrect == QueueSpec => []QueueInv
<1>1. QueueInit => QueueInv
  BY QueueInitInv
<1>2. QueueInv /\ [QueueNext]_queueVars => QueueInv'
  BY QueueStepInv
<1> QED
  BY <1>1, <1>2, PTL DEF QueueSpec

==============================================================================
