------------------------------- MODULE Cloud -------------------------------
(***************************************************************************)
(* The cloud (services/cloud.py) with its table of readings (storage.py)    *)
(* and its key pairs (crypto.py).  store_reading has no await, so a request *)
(* is one step of the process, whoever else is sending.                     *)
(*                                                                         *)
(* Of an envelope there is left what decides its fate: the algorithm, and   *)
(* the key pair that opens it to a valid reading with the envelope's        *)
(* message_id.  Every start makes a new RSA pair, known here by the number  *)
(* of the start; the ML-KEM pair is the seed file's (SeedFile.tla), number  *)
(* 1 at every start.  What no pair opens, because it was tampered with, has *)
(* another key_id or holds another reading, has number 0.                   *)
(***************************************************************************)
EXTENDS Naturals, FiniteSets

CONSTANTS
    Messages,       \* message_ids
    CloudWarnAfter, \* CLOUD_VALIDATION_FAILURE_WARNING_THRESHOLD
    MaxStarts,      \* bound: starts of the process
    CloudMetricCap  \* bound: the metrics counters stop here

ASSUME CloudAssumption == /\ CloudWarnAfter \in Nat \ {0}
                          /\ MaxStarts \in Nat \ {0}
                          /\ CloudMetricCap \in Nat
                          /\ IsFiniteSet(Messages)

VARIABLES
    cloudUp,      \* the process serves requests
    allowRsa,     \* ALLOW_RSA_INGEST, fixed while the process lives
    rsaKey,       \* LegacyCloudKeyPair: the pair of this start
    column,       \* the timestamp column of the table readings, "none" without a table
    stored,       \* message_ids with a row in readings
    byMlkem,      \* rows whose security_mode is mlkem; the others say rsa
    invalidRun,   \* consecutive_validation_failures, up to the warning threshold
    cloudMetrics  \* MetricsRegistry

cloudOwnVars == <<cloudUp, allowRsa, rsaKey, column, byMlkem, invalidRun, cloudMetrics>>
cloudVars == <<cloudOwnVars, stored>>

Algorithms == {"rsa", "mlkem"}

Envelope == [msg : Messages, alg : Algorithms, key : 0..MaxStarts]

CloudCounters == {"received", "rsa", "mlkem", "persisted", "duplicates", "invalid",
                  "rsa_rejections"}

\* Types; and a process that serves has the table its INSERT names, however old
\* the database it was started on.
CloudTypeOK ==
    /\ cloudUp \in BOOLEAN
    /\ allowRsa \in BOOLEAN
    /\ rsaKey \in 0..MaxStarts
    /\ column \in {"none", "received_at", "cloud_received_at"}
    /\ cloudUp => column = "cloud_received_at"
    /\ stored \subseteq Messages
    /\ byMlkem \subseteq stored
    /\ invalidRun \in 0..CloudWarnAfter
    /\ cloudMetrics \in [CloudCounters -> 0..CloudMetricCap]

NoCloudMetrics == [c \in CloudCounters |-> 0]

\* The database may be missing, or be there with the rows of an earlier
\* version, which called the column received_at.
CloudInit ==
    /\ cloudUp = FALSE
    /\ allowRsa = TRUE
    /\ rsaKey = 0
    /\ column \in {"none", "received_at", "cloud_received_at"}
    /\ stored \in IF column = "none" THEN {{}} ELSE SUBSET Messages
    /\ byMlkem \in SUBSET stored
    /\ invalidRun = 0
    /\ cloudMetrics = NoCloudMetrics

CountCloud(names) ==
    cloudMetrics' = [c \in CloudCounters |->
                       IF c \in names /\ cloudMetrics[c] < CloudMetricCap
                       THEN cloudMetrics[c] + 1 ELSE cloudMetrics[c]]

------------------------------------------------------------------------------
(* the process *)

\* Mutant of CloudStart: a table with the old column is created anew.
CloudStart_Recreates(allow) ==
    /\ ~cloudUp
    /\ rsaKey < MaxStarts
    /\ cloudUp' = TRUE
    /\ allowRsa' = allow
    /\ rsaKey' = rsaKey + 1
    /\ column' = "cloud_received_at"
    /\ stored' = IF column = "received_at" THEN {} ELSE stored
    /\ byMlkem' = byMlkem \cap stored'
    /\ UNCHANGED <<invalidRun, cloudMetrics>>

\* Mutant of CloudStart: an old table keeps its column.
CloudStart_NoRename(allow) ==
    /\ ~cloudUp
    /\ rsaKey < MaxStarts
    /\ cloudUp' = TRUE
    /\ allowRsa' = allow
    /\ rsaKey' = rsaKey + 1
    /\ column' = IF column = "none" THEN "cloud_received_at" ELSE column
    /\ UNCHANGED <<stored, byMlkem, invalidRun, cloudMetrics>>

\* lifespan up to its yield: initialize() creates the table or renames its
\* column, and the key pairs are made.
CloudStart(allow) ==
    /\ ~cloudUp
    /\ rsaKey < MaxStarts
    /\ cloudUp' = TRUE
    /\ allowRsa' = allow
    /\ rsaKey' = rsaKey + 1
    /\ column' = "cloud_received_at"
    /\ UNCHANGED <<stored, byMlkem, invalidRun, cloudMetrics>>

CloudCrash ==
    /\ cloudUp
    /\ cloudUp' = FALSE
    /\ invalidRun' = 0
    /\ cloudMetrics' = NoCloudMetrics
    /\ UNCHANGED <<allowRsa, rsaKey, column, stored, byMlkem>>

------------------------------------------------------------------------------
(* GET /v1/crypto/public-key, POST /v1/readings *)

\* HTTP 403; where RSA is on, and for ML-KEM, the GET changes nothing.
RefuseRsaKey ==
    /\ cloudUp
    /\ ~allowRsa
    /\ CountCloud({"rsa_rejections"})
    /\ UNCHANGED <<cloudUp, allowRsa, rsaKey, column, stored, byMlkem, invalidRun>>

\* What every request of POST /v1/readings leaves alone, and what it does to
\* the run of invalid ones.
Answer(names, run) ==
    /\ cloudUp
    /\ CountCloud({"received"} \cup names)
    /\ invalidRun' = run
    /\ UNCHANGED <<cloudUp, allowRsa, rsaKey, column>>

OneMoreInvalid == IF invalidRun < CloudWarnAfter THEN invalidRun + 1 ELSE invalidRun

\* HTTP 422: no envelope at all.
RejectMalformed ==
    /\ Answer({"invalid"}, OneMoreInvalid)
    /\ UNCHANGED <<stored, byMlkem>>

Admits(e) == e.alg = "mlkem" \/ allowRsa

\* decrypt of either key pair, up to a valid reading of the envelope's id.
OpensRsa(e) == e.alg = "rsa" /\ e.key = rsaKey

OpensMlKem(e) == e.alg = "mlkem" /\ e.key = 1

Opens(e) == OpensRsa(e) \/ OpensMlKem(e)

\* HTTP 403
RefuseRsa(e) ==
    /\ ~Admits(e)
    /\ Answer({"rsa", "rsa_rejections"}, invalidRun)
    /\ UNCHANGED <<stored, byMlkem>>

\* HTTP 400: unknown key_id, failed decryption, invalid reading, other id.
RefuseInvalid(e) ==
    /\ Admits(e)
    /\ ~Opens(e)
    /\ Answer({e.alg, "invalid"}, OneMoreInvalid)
    /\ UNCHANGED <<stored, byMlkem>>

\* Mutant of ReportDuplicate: counted as persisted as well.
ReportDuplicate_CountsTwice(e) ==
    /\ Admits(e)
    /\ Opens(e)
    /\ e.msg \in stored
    /\ column = "cloud_received_at"
    /\ Answer({e.alg, "duplicates", "persisted"}, 0)
    /\ UNCHANGED <<stored, byMlkem>>

\* HTTP 409: sqlite3.IntegrityError on the primary key, in whichever mode the
\* row came.
ReportDuplicate(e) ==
    /\ Admits(e)
    /\ Opens(e)
    /\ e.msg \in stored
    /\ column = "cloud_received_at"
    /\ Answer({e.alg, "duplicates"}, 0)
    /\ UNCHANGED <<stored, byMlkem>>

StoreRow(e) ==
    /\ Admits(e)
    /\ Opens(e)
    /\ e.msg \notin stored
    /\ column = "cloud_received_at"
    /\ Answer({e.alg, "persisted"}, 0)
    /\ stored' = stored \cup {e.msg}
    /\ byMlkem' = byMlkem \cup {m \in {e.msg} : e.alg = "mlkem"}

\* HTTP 500: any other sqlite3.Error, such as a column that is not there.
InsertFails(e) ==
    /\ Admits(e)
    /\ Opens(e)
    /\ Answer({e.alg}, invalidRun)
    /\ UNCHANGED <<stored, byMlkem>>

StoreReading(e) ==
    \/ RefuseRsa(e)
    \/ RefuseInvalid(e)
    \/ ReportDuplicate(e)
    \/ StoreRow(e)
    \/ InsertFails(e)

CloudNext ==
    \/ \E allow \in BOOLEAN : CloudStart(allow)
    \/ CloudCrash
    \/ RefuseRsaKey
    \/ RejectMalformed
    \/ \E e \in Envelope : StoreReading(e)

CloudSpec == CloudInit /\ [][CloudNext]_cloudVars

------------------------------------------------------------------------------
(* properties *)

\* A row once there stays, with the security_mode it came with: through
\* restarts, the migration of an older table, and duplicates that arrive in
\* the other mode.
RowsStay == [][stored \subseteq stored' /\ byMlkem' \cap stored = byMlkem]_cloudVars

\* The counters of one process agree with each other, with the rows and with
\* the policy: each envelope ends in at most one of persisted, duplicates and
\* invalid, each is of one algorithm unless it was malformed, and with RSA off
\* nothing but ML-KEM gets past the door (below the counters' bound).
CountersAgree ==
    LET n(c) == cloudMetrics[c] IN
    n("received") < CloudMetricCap =>
        /\ n("persisted") + n("duplicates") + n("invalid") <= n("received")
        /\ n("rsa") + n("mlkem") <= n("received")
        /\ n("received") <= n("rsa") + n("mlkem") + n("invalid")
        /\ n("persisted") <= Cardinality(stored)
        /\ ~allowRsa => n("persisted") + n("duplicates") <= n("mlkem")
        /\ invalidRun <= n("invalid")

==============================================================================
