------------------------------ MODULE SeedFile ------------------------------
(***************************************************************************)
(* MlKemCloudKeyPair.load_or_create (crypto.py): cloud processes that start *)
(* on one seed file, at the same time or one after another, and either load *)
(* the seed or generate and persist one.  Every system call on the file is  *)
(* a step, and a process may die between any two; the machine stays up.     *)
(* Who is "ready" serves the key of its seed.                               *)
(***************************************************************************)
EXTENDS FiniteSets

CONSTANTS
    Starters,  \* processes that run load_or_create
    Seeds,     \* 64-byte seeds
    NoFile,    \* the path does not exist
    Empty      \* the file is there, with no bytes in it

ASSUME SeedAssumption == NoFile \notin Seeds /\ Empty \notin Seeds /\ NoFile # Empty

VARIABLES
    file,     \* what is at the path
    starter,  \* where each process is, and the local variable seed
    served    \* (history) seeds whose key some process has served

vars == <<file, starter, served>>

Off == [pc |-> "off", seed |-> Empty]

Starter ==
    {Off} \cup [pc : {"generated", "created", "written", "beaten"}, seed : Seeds]
          \cup [pc : {"checking"}, seed : Seeds \cup {Empty}]
          \cup [pc : {"ready"}, seed : Seeds]
          \cup [pc : {"failed"}, seed : {Empty}]

TypeOK ==
    /\ file \in Seeds \cup {NoFile, Empty}
    /\ starter \in [Starters -> Starter]
    /\ served \subseteq Seeds

Init ==
    /\ file = NoFile
    /\ starter = [p \in Starters |-> Off]
    /\ served = {}

Goes(p, pc, seed) == starter' = [starter EXCEPT ![p] = [pc |-> pc, seed |-> seed]]

\* path.read_bytes()
LoadSeed(p) ==
    /\ starter[p].pc = "off"
    /\ file # NoFile
    /\ Goes(p, "checking", file)
    /\ UNCHANGED <<file, served>>

\* FileNotFoundError: generate a key pair.
GenerateSeed(p) ==
    /\ starter[p].pc = "off"
    /\ file = NoFile
    /\ \E s \in Seeds : Goes(p, "generated", s)
    /\ UNCHANGED <<file, served>>

\* Mutant of CreateFile: without O_EXCL, over whatever is there.
CreateFile_Truncates(p) ==
    /\ starter[p].pc = "generated"
    /\ file' = Empty
    /\ Goes(p, "created", starter[p].seed)
    /\ UNCHANGED served

\* os.open with O_CREAT and O_EXCL
CreateFile(p) ==
    /\ starter[p].pc = "generated"
    /\ file = NoFile
    /\ file' = Empty
    /\ Goes(p, "created", starter[p].seed)
    /\ UNCHANGED served

\* FileExistsError: another process has created the file.
CreateLoses(p) ==
    /\ starter[p].pc = "generated"
    /\ file # NoFile
    /\ Goes(p, "beaten", starter[p].seed)
    /\ UNCHANGED <<file, served>>

\* Mutant of ReadWinnersSeed: the loser keeps the seed it has generated.
ReadWinnersSeed_KeepsOwn(p) ==
    /\ starter[p].pc = "beaten"
    /\ Goes(p, "checking", starter[p].seed)
    /\ UNCHANGED <<file, served>>

\* The loser's path.read_bytes()
ReadWinnersSeed(p) ==
    /\ starter[p].pc = "beaten"
    /\ Goes(p, "checking", file)
    /\ UNCHANGED <<file, served>>

\* write and flush: the bytes reach the file in one write(2).
WriteSeed(p) ==
    /\ starter[p].pc = "created"
    /\ file' = starter[p].seed
    /\ Goes(p, "written", starter[p].seed)
    /\ UNCHANGED served

\* os.fsync
SyncSeed(p) ==
    /\ starter[p].pc = "written"
    /\ Goes(p, "checking", starter[p].seed)
    /\ UNCHANGED <<file, served>>

\* Mutant of Serve: a seed file of the wrong length is served.
Serve_Unchecked(p) ==
    /\ starter[p].pc = "checking"
    /\ Goes(p, "ready", starter[p].seed)
    /\ served' = served \cup {starter[p].seed}
    /\ UNCHANGED file

\* len(seed) == 64: the process comes up and serves the key.
Serve(p) ==
    /\ starter[p].pc = "checking"
    /\ starter[p].seed # Empty
    /\ Goes(p, "ready", starter[p].seed)
    /\ served' = served \cup {starter[p].seed}
    /\ UNCHANGED file

\* ValueError("invalid ML-KEM-768 seed file"): the process does not come up.
RejectSeed(p) ==
    /\ starter[p].pc = "checking"
    /\ starter[p].seed = Empty
    /\ Goes(p, "failed", Empty)
    /\ UNCHANGED <<file, served>>

\* The process dies or stops; it may be started again.
Crash(p) ==
    /\ starter[p] # Off
    /\ starter' = [starter EXCEPT ![p] = Off]
    /\ UNCHANGED <<file, served>>

Next ==
    \/ \E p \in Starters :
         \/ LoadSeed(p)
         \/ GenerateSeed(p)
         \/ CreateFile(p)
         \/ CreateLoses(p)
         \/ ReadWinnersSeed(p)
         \/ WriteSeed(p)
         \/ SyncSeed(p)
         \/ Serve(p)
         \/ RejectSeed(p)
         \/ Crash(p)

Spec == Init /\ [][Next]_vars

------------------------------------------------------------------------------
\* The cloud has one ML-KEM key for ever: every process that has come up on
\* the seed file, at whatever time and after whatever crash, serves the same
\* key.  Gateways pin its fingerprint, so a second one would stop them all.
KeyIsStable == \A s, t \in served : s = t

\* A process that is up serves the key that is in the file, so the next start
\* serves it too: no winner's seed is replaced, and no loser goes its own way.
ServedKeyIsStored ==
    \A p \in Starters : starter[p].pc = "ready" => starter[p].seed = file

\* tests/test_crypto_validation.py: a process that loses the race to create
\* the seed file reuses the winner's key, so no start fails.
StartsSucceed == \A p \in Starters : starter[p].pc # "failed"

\* The seed is settled when it has been written, and then for ever.
Settled == IF file = NoFile THEN Empty ELSE file

Serving == [p \in Starters |-> IF starter[p].pc = "ready" THEN starter[p].seed ELSE Empty]

Key == INSTANCE OneSeed WITH NoSeed <- Empty, key <- Settled, serves <- Serving

\* However the system calls of the processes interleave and wherever one dies,
\* the file comes to have one seed, which is never replaced, not even before
\* anyone serves it, and a process that comes up serves that one.
SettlesOneKey == Key!KeySpec

==============================================================================
