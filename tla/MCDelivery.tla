---------------------------- MODULE MCDelivery ----------------------------
(***************************************************************************)
(* Finite instances of Delivery for TLC: a bounded number of faults, each   *)
(* at any point and of any duration, in services that docker-compose.yml    *)
(* starts for the first time one after the other (depends_on).              *)
(***************************************************************************)
EXTENDS Delivery

CONSTANT MaxFaults \* bound: faults of a behaviour

VARIABLE faults

mcVars == <<systemVars, faults>>

\* The database is one of an earlier version; the run cloud has the others.
MCInit == SystemInit /\ column = "received_at" /\ faults = 0

\* message_ids are interchangeable: it is enough to draw them in one order.
NextMessage == CHOOSE m \in Messages \cup {NoMessage} : m \notin sampled

MCNext ==
    /\ SystemNext
    /\ faults' = IF SystemFault THEN faults + 1 ELSE faults
    /\ faults' <= MaxFaults
    /\ latest' \in {latest, NoMessage, NextMessage}
    /\ up' => rsaKey' > 0
    /\ sampled = {} /\ sampled' # {} => up /\ cloudUp

MCSpec == MCInit /\ [][MCNext]_mcVars

MCFairSpec == MCSpec /\ SystemFairness

==============================================================================
