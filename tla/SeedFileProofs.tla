--------------------------- MODULE SeedFileProofs ---------------------------
(***************************************************************************)
(* Theorems about SeedFile, for any number of processes.                    *)
(***************************************************************************)
EXTENDS SeedFile, TLAPS

LEMMA StarterFields ==
    ASSUME NEW x \in Starter
    PROVE  /\ x.pc \in {"generated", "created", "written", "beaten"} => x.seed \in Seeds
           /\ x.pc = "checking" => x.seed \in Seeds \cup {Empty}
           /\ x.pc = "ready" => x.seed \in Seeds
           /\ x.pc = "off" => x = Off
BY DEF Starter, Off

LEMMA StarterMade ==
    ASSUME NEW s \in Seeds
    PROVE  /\ \A pc \in {"generated", "created", "written", "beaten", "checking", "ready"} :
                [pc |-> pc, seed |-> s] \in Starter
           /\ [pc |-> "checking", seed |-> Empty] \in Starter
           /\ [pc |-> "failed", seed |-> Empty] \in Starter
BY DEF Starter

LEMMA GoesTyped ==
    ASSUME TypeOK, NEW p \in Starters, NEW pc, NEW seed, Goes(p, pc, seed),
           [pc |-> pc, seed |-> seed] \in Starter
    PROVE  /\ starter' \in [Starters -> Starter]
           /\ starter'[p] = [pc |-> pc, seed |-> seed]
           /\ \A q \in Starters \ {p} : starter'[q] = starter[q]
BY DEF Goes, TypeOK

\* A process past its reading or writing of the file has the file's seed.
Holds(p) == \/ starter[p].pc \in {"written", "ready"}
            \/ starter[p].pc = "checking" /\ starter[p].seed # Empty

\* The inductive invariant.  The winner of O_EXCL is alone: until it has
\* written, the file is empty and no process has a seed from it; afterwards
\* no process can create or write the file again.
SeedInv ==
    /\ TypeOK
    /\ \A p \in Starters : Holds(p) => starter[p].seed = file
    /\ served # {} => file \in Seeds /\ served = {file}
    /\ \A p \in Starters : starter[p].pc = "created" => file = Empty
    /\ \A p, q \in Starters : starter[p].pc = "created" /\ starter[q].pc = "created" => p = q
    /\ file = NoFile => \A p \in Starters : starter[p].pc \in {"off", "generated"}

LEMMA SeedInit == Init => SeedInv
BY DEF Init, SeedInv, TypeOK, Holds, Off, Starter

LEMMA SeedStep == SeedInv /\ [Next]_vars => SeedInv'
<1> SUFFICES ASSUME SeedInv, [Next]_vars
             PROVE  SeedInv'
  OBVIOUS
<1> USE SeedAssumption
<1>0. TypeOK
  BY DEF SeedInv
<1>1. ASSUME NEW p \in Starters, LoadSeed(p) \/ ReadWinnersSeed(p)
      PROVE  SeedInv'
  <2>1. file # NoFile /\ file' = file /\ served' = served
    BY <1>1 DEF LoadSeed, ReadWinnersSeed, SeedInv
  <2>2. [pc |-> "checking", seed |-> file] \in Starter
    BY <2>1, <1>0 DEF TypeOK, Starter
  <2>3. Goes(p, "checking", file)
    BY <1>1 DEF LoadSeed, ReadWinnersSeed
  <2>4. /\ starter' \in [Starters -> Starter]
        /\ starter'[p] = [pc |-> "checking", seed |-> file]
        /\ \A q \in Starters \ {p} : starter'[q] = starter[q]
    BY <2>2, <2>3, <1>0, GoesTyped
  <2> QED
    BY <2>1, <2>4 DEF SeedInv, TypeOK, Holds
<1>2. ASSUME NEW p \in Starters, GenerateSeed(p)
      PROVE  SeedInv'
  <2>1. PICK s \in Seeds : Goes(p, "generated", s)
    BY <1>2 DEF GenerateSeed
  <2>2. /\ starter' \in [Starters -> Starter]
        /\ starter'[p] = [pc |-> "generated", seed |-> s]
        /\ \A q \in Starters \ {p} : starter'[q] = starter[q]
    BY <2>1, <1>0, GoesTyped, StarterMade
  <2> QED
    BY <1>2, <2>2 DEF GenerateSeed, SeedInv, TypeOK, Holds
<1>3. ASSUME NEW p \in Starters, CreateFile(p)
      PROVE  SeedInv'
  <2>1. starter[p].pc = "generated" /\ file = NoFile /\ file' = Empty /\ served' = served
    BY <1>3 DEF CreateFile
  <2>2. /\ starter' \in [Starters -> Starter]
        /\ starter'[p] = [pc |-> "created", seed |-> starter[p].seed]
        /\ \A q \in Starters \ {p} : starter'[q] = starter[q]
    <3>1. [pc |-> "created", seed |-> starter[p].seed] \in Starter
      BY <2>1, <1>0, StarterFields, StarterMade DEF TypeOK
    <3> QED
      BY <3>1, <1>3, <1>0, GoesTyped DEF CreateFile
  <2>3. \A q \in Starters \ {p} : starter[q].pc \in {"off", "generated"}
    BY <2>1 DEF SeedInv
  <2> QED
    BY <2>1, <2>2, <2>3 DEF SeedInv, TypeOK, Holds
<1>4. ASSUME NEW p \in Starters, CreateLoses(p)
      PROVE  SeedInv'
  <2>1. starter[p].pc = "generated" /\ file # NoFile /\ file' = file /\ served' = served
    BY <1>4 DEF CreateLoses
  <2>2. /\ starter' \in [Starters -> Starter]
        /\ starter'[p] = [pc |-> "beaten", seed |-> starter[p].seed]
        /\ \A q \in Starters \ {p} : starter'[q] = starter[q]
    <3>1. [pc |-> "beaten", seed |-> starter[p].seed] \in Starter
      BY <2>1, <1>0, StarterFields, StarterMade DEF TypeOK
    <3> QED
      BY <3>1, <1>4, <1>0, GoesTyped DEF CreateLoses
  <2> QED
    BY <2>1, <2>2 DEF SeedInv, TypeOK, Holds
<1>5. ASSUME NEW p \in Starters, WriteSeed(p)
      PROVE  SeedInv'
  <2>1. /\ starter[p].pc = "created" /\ file = Empty /\ file' = starter[p].seed
        /\ served' = served /\ starter[p].seed \in Seeds
    BY <1>5, <1>0, StarterFields DEF WriteSeed, SeedInv, TypeOK
  <2>2. /\ starter' \in [Starters -> Starter]
        /\ starter'[p] = [pc |-> "written", seed |-> starter[p].seed]
        /\ \A q \in Starters \ {p} : starter'[q] = starter[q]
    BY <2>1, <1>5, <1>0, GoesTyped, StarterMade DEF WriteSeed
  <2>3. \A q \in Starters \ {p} : starter[q].pc # "created"
    BY <2>1 DEF SeedInv
  <2>4. \A q \in Starters : ~Holds(q)
    BY <2>1, <1>0, StarterFields DEF SeedInv, Holds, TypeOK
  <2>5. served = {}
    BY <2>1 DEF SeedInv
  <2> QED
    BY <2>1, <2>2, <2>3, <2>4, <2>5 DEF SeedInv, TypeOK, Holds
<1>6. ASSUME NEW p \in Starters, SyncSeed(p)
      PROVE  SeedInv'
  <2>1. /\ starter[p].pc = "written" /\ file' = file /\ served' = served
        /\ starter[p].seed = file /\ file \in Seeds
    BY <1>6, <1>0, StarterFields DEF SyncSeed, SeedInv, Holds, TypeOK
  <2>2. /\ starter' \in [Starters -> Starter]
        /\ starter'[p] = [pc |-> "checking", seed |-> starter[p].seed]
        /\ \A q \in Starters \ {p} : starter'[q] = starter[q]
    BY <2>1, <1>6, <1>0, GoesTyped, StarterMade DEF SyncSeed
  <2> QED
    BY <2>1, <2>2 DEF SeedInv, TypeOK, Holds
<1>7. ASSUME NEW p \in Starters, Serve(p)
      PROVE  SeedInv'
  <2>1. /\ starter[p].pc = "checking" /\ file' = file
        /\ starter[p].seed = file /\ file \in Seeds
        /\ served' = served \cup {file}
    BY <1>7, <1>0, StarterFields DEF Serve, SeedInv, Holds, TypeOK
  <2>2. /\ starter' \in [Starters -> Starter]
        /\ starter'[p] = [pc |-> "ready", seed |-> starter[p].seed]
        /\ \A q \in Starters \ {p} : starter'[q] = starter[q]
    BY <2>1, <1>7, <1>0, GoesTyped, StarterMade DEF Serve
  <2>3. served' = {file} /\ served' \subseteq Seeds
    BY <2>1, <1>0 DEF SeedInv
  <2> QED
    BY <2>1, <2>2, <2>3 DEF SeedInv, TypeOK, Holds
<1>8. ASSUME NEW p \in Starters, RejectSeed(p) \/ Crash(p)
      PROVE  SeedInv'
  <2>1. file' = file /\ served' = served
    BY <1>8 DEF RejectSeed, Crash
  <2>2. /\ starter' \in [Starters -> Starter]
        /\ starter'[p].pc \in {"off", "failed"}
        /\ \A q \in Starters \ {p} : starter'[q] = starter[q]
    BY <1>8, <1>0 DEF RejectSeed, Crash, Goes, TypeOK, Starter, Off
  <2>3. RejectSeed(p) => file # NoFile
    BY <1>0 DEF RejectSeed, SeedInv
  <2>4. Crash(p) => starter'[p].pc = "off"
    BY <1>0 DEF Crash, TypeOK, Off
  <2> QED
    BY <1>8, <2>1, <2>2, <2>3, <2>4 DEF SeedInv, TypeOK, Holds
<1>9. CASE UNCHANGED vars
  BY <1>9 DEF vars, SeedInv, TypeOK, Holds
<1> QED
  BY <1>1, <1>2, <1>3, <1>4, <1>5, <1>6, <1>7, <1>8, <1>9 DEF Next

LEMMA SeedInvariant == Spec => []SeedInv
BY SeedInit, SeedStep, PTL DEF Spec

\* The file is missing, empty or a whole seed, and nothing but whole seeds is
\* ever served: a start on an empty file fails.
THEOREM SeedTypeCorrect == Spec => []TypeOK
<1>1. SeedInv => TypeOK
  BY DEF SeedInv
<1> QED
  BY <1>1, SeedInvariant, PTL

\* One key for ever, however many processes start and crash in whatever order.
THEOREM OneKey == Spec => []KeyIsStable
<1>1. SeedInv => KeyIsStable
  BY DEF SeedInv, KeyIsStable
<1> QED
  BY <1>1, SeedInvariant, PTL

\* A process that serves a key serves the one in the file, also the loser of
\* the race for its creation.
THEOREM ServedKeyKept == Spec => []ServedKeyIsStored
<1>1. SeedInv => ServedKeyIsStored
  BY DEF SeedInv, ServedKeyIsStored, Holds
<1> QED
  BY <1>1, SeedInvariant, PTL

------------------------------------------------------------------------------
(* the refinement of OneSeed *)

\* A step of a process that neither serves before it nor after it.
LEMMA ServingStays ==
    ASSUME TypeOK, NEW p \in Starters, starter[p].pc # "ready",
           NEW pc, pc # "ready", NEW seed, Goes(p, pc, seed)
    PROVE  Serving' = Serving
<1>1. \A q \in Starters : /\ starter'[q].pc = "ready" <=> starter[q].pc = "ready"
                          /\ starter[q].pc = "ready" => starter'[q] = starter[q]
  BY DEF Goes, TypeOK
<1> QED
  BY <1>1 DEF Serving

LEMMA KeyStep ==
    ASSUME SeedInv, [Next]_vars
    PROVE  [Key!KeyNext]_(Key!keyVars)
<1> USE SeedAssumption
<1>0. TypeOK
  BY DEF SeedInv
<1>1. ASSUME Settled' = Settled, Serving' = Serving
      PROVE  [Key!KeyNext]_(Key!keyVars)
  BY <1>1 DEF Key!keyVars
<1>2. ASSUME NEW p \in Starters, LoadSeed(p) \/ GenerateSeed(p) \/ CreateFile(p) \/ CreateLoses(p)
                                   \/ ReadWinnersSeed(p) \/ SyncSeed(p) \/ RejectSeed(p)
      PROVE  [Key!KeyNext]_(Key!keyVars)
  <2>1. /\ starter[p].pc # "ready"
        /\ \E pc, seed : pc # "ready" /\ Goes(p, pc, seed)
    BY <1>2 DEF LoadSeed, GenerateSeed, CreateFile, CreateLoses, ReadWinnersSeed, SyncSeed,
                RejectSeed
  <2>2. Settled' = Settled
    BY <1>2 DEF LoadSeed, GenerateSeed, CreateFile, CreateLoses, ReadWinnersSeed, SyncSeed,
                RejectSeed, Settled
  <2> QED
    BY <1>0, <1>1, <2>1, <2>2, ServingStays
<1>3. ASSUME NEW p \in Starters, WriteSeed(p)
      PROVE  [Key!KeyNext]_(Key!keyVars)
  <2>1. Serving' = Serving
    BY <1>0, <1>3, ServingStays DEF WriteSeed
  <2>2. file = Empty /\ file' \in Seeds
    BY <1>0, <1>3, StarterFields DEF WriteSeed, SeedInv, TypeOK
  <2>3. Settled = Empty /\ Settled' \in Seeds
    BY <2>2 DEF Settled
  <2> QED
    BY <2>1, <2>3 DEF Key!Settle, Key!KeyNext
<1>4. ASSUME NEW p \in Starters, Serve(p)
      PROVE  [Key!KeyNext]_(Key!keyVars)
  <2>1. file \in Seeds /\ file' = file /\ starter[p].seed = file
    BY <1>0, <1>4, StarterFields DEF Serve, SeedInv, Holds, TypeOK
  <2>2. Settled' = Settled /\ Settled # Empty /\ Settled = file
    BY <2>1 DEF Settled
  <2>3. Serving' = [Serving EXCEPT ![p] = Settled]
    BY <1>0, <1>4, <2>1, <2>2 DEF Serve, Goes, TypeOK, Serving
  <2> QED
    BY <2>2, <2>3 DEF Key!ServeKey, Key!KeyNext
<1>5. ASSUME NEW p \in Starters, Crash(p)
      PROVE  [Key!KeyNext]_(Key!keyVars)
  <2>1. Settled' = Settled
    BY <1>5 DEF Crash, Settled
  <2>2. Serving' = [Serving EXCEPT ![p] = Empty]
    BY <1>0, <1>5 DEF Crash, TypeOK, Serving, Off
  <2> QED
    BY <2>1, <2>2 DEF Key!StopServing, Key!KeyNext
<1>6. CASE UNCHANGED vars
  BY <1>1, <1>6 DEF vars, Settled, Serving
<1> QED
  BY <1>2, <1>3, <1>4, <1>5, <1>6 DEF Next

\* load_or_create implements OneSeed: the one write to the file that O_EXCL
\* allows settles the seed for every process and every restart.
THEOREM KeySettledOnce == Spec => SettlesOneKey
<1>1. Init => Key!KeyInit
  BY DEF Init, Key!KeyInit, Settled, Serving, Off
<1>2. SeedInv /\ [Next]_vars => [Key!KeyNext]_(Key!keyVars)
  BY KeyStep
<1> QED
  BY <1>1, <1>2, SeedInvariant, PTL DEF Spec, SettlesOneKey, Key!KeySpec

==============================================================================
