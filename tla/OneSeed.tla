------------------------------ MODULE OneSeed ------------------------------
(***************************************************************************)
(* What load_or_create promises the cloud's processes                       *)
(* (docs/ml-kem-migration-plan.md, "Key persistence"): the seed is settled  *)
(* once, no restart settles another, and every process that comes up serves *)
(* the key of that one.                                                     *)
(***************************************************************************)
CONSTANTS Starters, Seeds, NoSeed

VARIABLES
    key,   \* the seed that is settled
    serves \* serves[p]: the seed of the key that process p serves

keyVars == <<key, serves>>

KeyInit ==
    /\ key = NoSeed
    /\ serves = [p \in Starters |-> NoSeed]

Settle ==
    /\ key = NoSeed
    /\ key' \in Seeds
    /\ UNCHANGED serves

ServeKey(p) ==
    /\ key # NoSeed
    /\ serves' = [serves EXCEPT ![p] = key]
    /\ UNCHANGED key

StopServing(p) ==
    /\ serves' = [serves EXCEPT ![p] = NoSeed]
    /\ UNCHANGED key

KeyNext == Settle \/ \E p \in Starters : ServeKey(p) \/ StopServing(p)

KeySpec == KeyInit /\ [][KeyNext]_keyVars

=============================================================================
