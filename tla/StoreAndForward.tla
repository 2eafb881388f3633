-------------------------- MODULE StoreAndForward --------------------------
(***************************************************************************)
(* What the gateway promises its clients (docs/ML-KEM-Phase3.md, "Durable   *)
(* gateway outbox"): a reading is queued before it is acknowledged, an      *)
(* acknowledged reading is never forgotten, and only queued readings reach  *)
(* the cloud.  Crashes, retries, duplicates and late envelopes are          *)
(* invisible at this level.                                                 *)
(***************************************************************************)
CONSTANT Messages

VARIABLES
    status,       \* where each reading is
    acknowledged  \* readings whose 202 has been sent

promiseVars == <<status, acknowledged>>

PromiseTypeOK ==
    /\ status \in [Messages -> {"new", "queued", "delivered"}]
    /\ acknowledged \subseteq Messages

PromiseInit ==
    /\ status = [m \in Messages |-> "new"]
    /\ acknowledged = {}

Queue(m) ==
    /\ status[m] = "new"
    /\ status' = [status EXCEPT ![m] = "queued"]
    /\ UNCHANGED acknowledged

Acknowledge(m) ==
    /\ status[m] # "new"
    /\ acknowledged' = acknowledged \cup {m}
    /\ UNCHANGED status

Deliver(m) ==
    /\ status[m] = "queued"
    /\ status' = [status EXCEPT ![m] = "delivered"]
    /\ UNCHANGED acknowledged

PromiseNext == \E m \in Messages : Queue(m) \/ Acknowledge(m) \/ Deliver(m)

PromiseSpec == PromiseInit /\ [][PromiseNext]_promiseVars

==============================================================================
