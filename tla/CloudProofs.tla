----------------------------- MODULE CloudProofs -----------------------------
(***************************************************************************)
(* Theorems about Cloud, for any set of readings and any number of starts:  *)
(* types, the table a serving process has, rows that stay as they came, and *)
(* counters that agree with the rows and the policy of their process.       *)
(***************************************************************************)
EXTENDS Cloud, FiniteSetTheorems, TLAPS

LEMMA NoCloudMetricsTyped == NoCloudMetrics \in [CloudCounters -> 0..CloudMetricCap]
BY CloudAssumption DEF NoCloudMetrics

LEMMA CountCloudTyped ==
    ASSUME cloudMetrics \in [CloudCounters -> 0..CloudMetricCap], NEW names, CountCloud(names)
    PROVE  cloudMetrics' \in [CloudCounters -> 0..CloudMetricCap]
BY CloudAssumption DEF CountCloud

\* All that the outcomes of store_reading share, and what each does to the rows.
LEMMA StoreReadingRows ==
    ASSUME NEW e \in Envelope, StoreReading(e)
    PROVE  /\ cloudUp /\ UNCHANGED <<cloudUp, allowRsa, rsaKey, column>>
           /\ \E names : CountCloud(names)
           /\ invalidRun' \in {0, invalidRun, OneMoreInvalid}
           /\ \/ UNCHANGED <<stored, byMlkem>>
              \/ /\ StoreRow(e)
                 /\ e.msg \notin stored
                 /\ stored' = stored \cup {e.msg}
                 /\ byMlkem' = byMlkem \cup {m \in {e.msg} : e.alg = "mlkem"}
<1>1. CASE RefuseRsa(e)
  BY <1>1 DEF RefuseRsa, Answer
<1>2. CASE RefuseInvalid(e)
  BY <1>2 DEF RefuseInvalid, Answer
<1>3. CASE ReportDuplicate(e)
  BY <1>3 DEF ReportDuplicate, Answer
<1>4. CASE StoreRow(e)
  BY <1>4 DEF StoreRow, Answer
<1>5. CASE InsertFails(e)
  BY <1>5 DEF InsertFails, Answer
<1> QED
  BY <1>1, <1>2, <1>3, <1>4, <1>5 DEF StoreReading

LEMMA CloudInitTyped == CloudInit => CloudTypeOK
<1> SUFFICES ASSUME CloudInit PROVE CloudTypeOK
  OBVIOUS
<1>1. stored \subseteq Messages /\ byMlkem \subseteq stored
  <2>1. stored \in SUBSET Messages
    BY DEF CloudInit
  <2> QED
    BY <2>1 DEF CloudInit
<1>2. rsaKey \in 0..MaxStarts /\ invalidRun \in 0..CloudWarnAfter
  BY CloudAssumption DEF CloudInit
<1>3. cloudMetrics \in [CloudCounters -> 0..CloudMetricCap]
  BY NoCloudMetricsTyped DEF CloudInit
<1>4. cloudUp = FALSE /\ allowRsa \in BOOLEAN
      /\ column \in {"none", "received_at", "cloud_received_at"}
  BY DEF CloudInit
<1> QED
  BY <1>1, <1>2, <1>3, <1>4 DEF CloudTypeOK

LEMMA CloudStepTyped ==
    ASSUME CloudTypeOK, [CloudNext]_cloudVars
    PROVE  CloudTypeOK'
<1> USE CloudAssumption DEF CloudTypeOK
<1>1. ASSUME NEW allow \in BOOLEAN, CloudStart(allow)
      PROVE  CloudTypeOK'
  BY <1>1 DEF CloudStart
<1>2. CASE CloudCrash
  <2>1. cloudMetrics' \in [CloudCounters -> 0..CloudMetricCap]
    BY <1>2, NoCloudMetricsTyped DEF CloudCrash
  <2>2. cloudUp' = FALSE
    BY <1>2 DEF CloudCrash
  <2>3. invalidRun' \in 0..CloudWarnAfter
    BY <1>2 DEF CloudCrash
  <2>4. UNCHANGED <<allowRsa, rsaKey, column, stored, byMlkem>>
    BY <1>2 DEF CloudCrash
  <2> QED
    BY <2>1, <2>2, <2>3, <2>4
<1>3. CASE RefuseRsaKey
  BY <1>3, CountCloudTyped DEF RefuseRsaKey
<1>4. CASE RejectMalformed
  <2>1. invalidRun' \in 0..CloudWarnAfter
    BY <1>4 DEF RejectMalformed, Answer, OneMoreInvalid
  <2> QED
    BY <1>4, <2>1, CountCloudTyped DEF RejectMalformed, Answer
<1>5. ASSUME NEW e \in Envelope, StoreReading(e)
      PROVE  CloudTypeOK'
  <2>1. cloudMetrics' \in [CloudCounters -> 0..CloudMetricCap]
    BY <1>5, StoreReadingRows, CountCloudTyped
  <2>2. invalidRun' \in 0..CloudWarnAfter
    BY <1>5, StoreReadingRows DEF OneMoreInvalid
  <2>3. stored' \subseteq Messages /\ byMlkem' \subseteq stored'
    BY <1>5, StoreReadingRows DEF Envelope
  <2>4. UNCHANGED <<cloudUp, allowRsa, rsaKey, column>>
    BY <1>5, StoreReadingRows
  <2> QED
    BY <2>1, <2>2, <2>3, <2>4
<1>6. CASE UNCHANGED cloudVars
  BY <1>6 DEF cloudVars, cloudOwnVars
<1> QED
  BY <1>1, <1>2, <1>3, <1>4, <1>5, <1>6 DEF CloudNext

\* Every variable of the cloud keeps to its set, and a process that serves has
\* the table that its INSERT names, whatever database it was started on.
THEOREM CloudTypeCorrect == CloudSpec => []CloudTypeOK
<1>1. CloudTypeOK /\ [CloudNext]_cloudVars => CloudTypeOK'
  BY CloudStepTyped
<1> QED
  BY <1>1, CloudInitTyped, PTL DEF CloudSpec

\* What any step may do to the rows: nothing, or add one.
LEMMA StepRows ==
    ASSUME CloudTypeOK, [CloudNext]_cloudVars
    PROVE  stored \subseteq stored' /\ byMlkem' \cap stored = byMlkem
<1>1. ASSUME UNCHANGED <<stored, byMlkem>>
      PROVE  stored \subseteq stored' /\ byMlkem' \cap stored = byMlkem
  BY <1>1 DEF CloudTypeOK
<1>2. ASSUME NEW e \in Envelope, StoreReading(e)
      PROVE  stored \subseteq stored' /\ byMlkem' \cap stored = byMlkem
  BY <1>2, StoreReadingRows DEF CloudTypeOK
<1>3. \/ UNCHANGED <<stored, byMlkem>>
      \/ \E e \in Envelope : StoreReading(e)
  BY DEF CloudNext, CloudStart, CloudCrash, RefuseRsaKey, RejectMalformed, cloudVars, cloudOwnVars
<1> QED
  BY <1>1, <1>2, <1>3

\* Rows stay, with the mode they came with: through restarts, the migration of
\* the table and duplicates in the other mode.
THEOREM RowsKept == CloudSpec => RowsStay
<1>1. CloudTypeOK /\ [CloudNext]_cloudVars
        => [stored \subseteq stored' /\ byMlkem' \cap stored = byMlkem]_cloudVars
  BY StepRows
<1> QED
  BY <1>1, CloudTypeCorrect, PTL DEF CloudSpec, RowsStay

------------------------------------------------------------------------------
(* the counters *)

\* CountersAgree compares the counters of one process with the policy of that
\* process, so it needs that a process starts with none.
CountersInv ==
    /\ CountersAgree
    /\ ~cloudUp => cloudMetrics = NoCloudMetrics /\ invalidRun = 0

LEMMA CountersTyped ==
    ASSUME CloudTypeOK
    PROVE  /\ \A c \in CloudCounters : cloudMetrics[c] \in Nat
           /\ CloudMetricCap \in Nat /\ invalidRun \in Nat
BY CloudAssumption DEF CloudTypeOK

LEMMA NoCountersAgree ==
    ASSUME cloudMetrics = NoCloudMetrics, invalidRun = 0, stored \subseteq Messages
    PROVE  CountersAgree
<1>1. \A c \in CloudCounters : cloudMetrics[c] = 0
  BY DEF NoCloudMetrics
<1>2. Cardinality(stored) \in Nat
  BY CloudAssumption, FS_Subset, FS_CardinalityType
<1> QED
  BY <1>1, <1>2 DEF CountersAgree, CloudCounters

LEMMA NoCountersAgreeAfter ==
    ASSUME cloudMetrics' = NoCloudMetrics, invalidRun' = 0, stored' \subseteq Messages
    PROVE  CountersAgree'
<1>1. \A c \in CloudCounters : cloudMetrics'[c] = 0
  BY DEF NoCloudMetrics
<1>2. Cardinality(stored') \in Nat
  BY CloudAssumption, FS_Subset, FS_CardinalityType
<1> QED
  BY <1>1, <1>2 DEF CountersAgree, CloudCounters

\* Below the bound a counter that is named grows by one: it cannot have reached
\* the bound, since no counter of requests is ahead of received.
LEMMA CountsByOne ==
    ASSUME CloudTypeOK, CountersAgree, NEW names, CountCloud({"received"} \cup names),
           cloudMetrics'["received"] < CloudMetricCap,
           NEW c \in CloudCounters \ {"rsa_rejections"}
    PROVE  /\ cloudMetrics["received"] < CloudMetricCap
           /\ cloudMetrics'[c] = cloudMetrics[c] + (IF c \in {"received"} \cup names THEN 1 ELSE 0)
<1>1. \A d \in CloudCounters :
         cloudMetrics'[d] = IF d \in {"received"} \cup names /\ cloudMetrics[d] < CloudMetricCap
                            THEN cloudMetrics[d] + 1 ELSE cloudMetrics[d]
  BY DEF CountCloud
<1>2. \A d \in CloudCounters : cloudMetrics[d] \in Nat
  BY CountersTyped
<1>3. {"received", "rsa", "mlkem", "persisted", "duplicates", "invalid"} \subseteq CloudCounters
  BY DEF CloudCounters
<1>4. cloudMetrics["received"] < CloudMetricCap
  BY <1>1, <1>2, <1>3, CountersTyped
<1>5. cloudMetrics[c] <= cloudMetrics["received"]
  BY <1>2, <1>3, <1>4 DEF CountersAgree, CloudCounters
<1> QED
  BY <1>1, <1>2, <1>3, <1>4, <1>5, CountersTyped

\* One more request, of one algorithm or malformed, with at most one outcome.
LEMMA AgreeAfterRequest ==
    ASSUME CloudTypeOK, CountersAgree, NEW names, CountCloud({"received"} \cup names),
           cloudMetrics'["received"] < CloudMetricCap,
           allowRsa' = allowRsa, stored \subseteq stored', IsFiniteSet(stored'),
           "rsa" \in names => "mlkem" \notin names,
           "rsa" \notin names /\ "mlkem" \notin names => "invalid" \in names,
           "persisted" \in names => "duplicates" \notin names /\ "invalid" \notin names,
           "duplicates" \in names => "invalid" \notin names,
           "persisted" \in names \/ "duplicates" \in names => "mlkem" \in names \/ allowRsa,
           "persisted" \in names => Cardinality(stored') = Cardinality(stored) + 1,
           \/ invalidRun' \in {0, invalidRun}
           \/ invalidRun' = invalidRun + 1 /\ "invalid" \in names
    PROVE  CountersAgree'
<1>1. /\ cloudMetrics["received"] < CloudMetricCap
      /\ cloudMetrics'["received"] = cloudMetrics["received"] + 1
  BY CountsByOne DEF CloudCounters
<1> DEFINE Grows(c) == cloudMetrics'[c] = cloudMetrics[c] + (IF c \in names THEN 1 ELSE 0)
<1>2. Grows("rsa") /\ Grows("mlkem") /\ Grows("persisted") /\ Grows("duplicates") /\ Grows("invalid")
  BY CountsByOne DEF CloudCounters
<1>3. \A c \in CloudCounters : cloudMetrics[c] \in Nat
  BY CountersTyped
<1>4. {"received", "rsa", "mlkem", "persisted", "duplicates", "invalid"} \subseteq CloudCounters
  BY DEF CloudCounters
<1>5. Cardinality(stored') \in Nat /\ Cardinality(stored) \in Nat
      /\ Cardinality(stored) <= Cardinality(stored')
  BY FS_Subset, FS_CardinalityType
<1>6. invalidRun \in Nat
  BY CountersTyped
<1>7. cloudMetrics'["persisted"] <= Cardinality(stored')
  BY <1>1, <1>2, <1>3, <1>4, <1>5 DEF CountersAgree
<1>8. invalidRun' <= cloudMetrics'["invalid"]
  BY <1>1, <1>2, <1>3, <1>4, <1>6 DEF CountersAgree
<1>9. cloudMetrics'["rsa"] + cloudMetrics'["mlkem"] <= cloudMetrics'["received"]
  BY <1>1, <1>2, <1>3, <1>4 DEF CountersAgree
<1>10. cloudMetrics'["persisted"] + cloudMetrics'["duplicates"] + cloudMetrics'["invalid"]
         <= cloudMetrics'["received"]
  BY <1>1, <1>2, <1>3, <1>4 DEF CountersAgree
<1>11. cloudMetrics'["received"]
         <= cloudMetrics'["rsa"] + cloudMetrics'["mlkem"] + cloudMetrics'["invalid"]
  BY <1>1, <1>2, <1>3, <1>4 DEF CountersAgree
<1>12. ~allowRsa' => cloudMetrics'["persisted"] + cloudMetrics'["duplicates"]
                       <= cloudMetrics'["mlkem"]
  BY <1>1, <1>2, <1>3, <1>4 DEF CountersAgree
<1> QED
  BY <1>7, <1>8, <1>9, <1>10, <1>11, <1>12 DEF CountersAgree

LEMMA CountersStep ==
    ASSUME CloudTypeOK, CloudTypeOK', CountersInv, [CloudNext]_cloudVars
    PROVE  CountersInv'
<1>1. ASSUME NEW allow \in BOOLEAN, CloudStart(allow)
      PROVE  CountersInv'
  \* The counters are those of no process yet, and fit any policy.
  <2>1. cloudMetrics' = NoCloudMetrics /\ invalidRun' = 0
    BY <1>1 DEF CloudStart, CountersInv
  <2>2. CountersAgree'
    BY <2>1, NoCountersAgreeAfter DEF CloudTypeOK
  <2> QED
    BY <2>1, <2>2 DEF CountersInv
<1>2. CASE CloudCrash
  <2>1. cloudMetrics' = NoCloudMetrics /\ invalidRun' = 0
    BY <1>2 DEF CloudCrash
  <2>2. CountersAgree'
    BY <2>1, NoCountersAgreeAfter DEF CloudTypeOK
  <2> QED
    BY <2>1, <2>2 DEF CountersInv
<1>3. CASE RefuseRsaKey
  <2>1. \A c \in CloudCounters \ {"rsa_rejections"} : cloudMetrics'[c] = cloudMetrics[c]
    BY <1>3 DEF RefuseRsaKey, CountCloud
  <2>2. CountersAgree'
    BY <1>3, <2>1 DEF RefuseRsaKey, CountersInv, CountersAgree, CloudCounters
  <2> QED
    BY <1>3, <2>2 DEF RefuseRsaKey, CountersInv
<1>4. ASSUME NEW names, NEW run, Answer(names, run),
             cloudMetrics'["received"] < CloudMetricCap => CountersAgree'
      PROVE  CountersInv'
  <2>1. CountersAgree'
    BY <1>4 DEF CountersAgree
  <2> QED
    BY <1>4, <2>1 DEF Answer, CountersInv
<1>5. CASE RejectMalformed
  <2>1. OneMoreInvalid \in {invalidRun, invalidRun + 1}
    BY DEF OneMoreInvalid
  <2>2. IsFiniteSet(stored')
    BY CloudAssumption, FS_Subset DEF CloudTypeOK
  <2> QED
    BY <1>4, <1>5, <2>1, <2>2, AgreeAfterRequest DEF RejectMalformed, Answer, CountersInv
<1>6. ASSUME NEW e \in Envelope, StoreReading(e)
      PROVE  CountersInv'
  <2>1. e.alg \in {"rsa", "mlkem"} /\ (e.alg = "mlkem" \/ allowRsa <=> Admits(e))
    BY DEF Envelope, Algorithms, Admits
  <2>2. OneMoreInvalid \in {invalidRun, invalidRun + 1}
    BY DEF OneMoreInvalid
  <2>3. IsFiniteSet(stored) /\ IsFiniteSet(stored')
    BY CloudAssumption, FS_Subset DEF CloudTypeOK
  <2>4. CASE RefuseRsa(e)
    BY <1>4, <2>1, <2>3, <2>4, AgreeAfterRequest DEF RefuseRsa, Answer, CountersInv
  <2>5. CASE RefuseInvalid(e)
    BY <1>4, <2>1, <2>2, <2>3, <2>5, AgreeAfterRequest DEF RefuseInvalid, Answer, CountersInv
  <2>6. CASE ReportDuplicate(e)
    BY <1>4, <2>1, <2>3, <2>6, AgreeAfterRequest DEF ReportDuplicate, Answer, CountersInv
  <2>7. CASE StoreRow(e)
    <3>1. Cardinality(stored') = Cardinality(stored) + 1
      BY <2>3, <2>7, FS_AddElement DEF StoreRow
    <3> QED
      BY <1>4, <2>1, <2>3, <2>7, <3>1, AgreeAfterRequest DEF StoreRow, Answer, CountersInv
  <2>8. CASE InsertFails(e)
    BY <1>4, <2>1, <2>3, <2>8, AgreeAfterRequest DEF InsertFails, Answer, CountersInv
  <2> QED
    BY <1>6, <2>4, <2>5, <2>6, <2>7, <2>8 DEF StoreReading
<1>7. CASE UNCHANGED cloudVars
  BY <1>7 DEF cloudVars, cloudOwnVars, CountersInv, CountersAgree
<1> QED
  BY <1>1, <1>2, <1>3, <1>5, <1>6, <1>7 DEF CloudNext

\* The counters of a process agree with each other, with the rows and with the
\* policy of that process, below any bound.
THEOREM CountersCorrect == CloudSpec => []CountersAgree
<1>1. CloudInit => CountersInv
  <2>1. CloudInit => CloudTypeOK
    BY CloudInitTyped
  <2> QED
    BY <2>1, NoCountersAgree DEF CloudInit, CloudTypeOK, CountersInv
<1>2. CloudTypeOK /\ CloudTypeOK' /\ CountersInv /\ [CloudNext]_cloudVars => CountersInv'
  BY CountersStep
<1>3. CountersInv => CountersAgree
  BY DEF CountersInv
<1> QED
  BY <1>1, <1>2, <1>3, CloudTypeCorrect, PTL DEF CloudSpec

==============================================================================
