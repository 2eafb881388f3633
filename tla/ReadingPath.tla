---------------------------- MODULE ReadingPath ----------------------------
(***************************************************************************)
(* What sensor, gateway and cloud promise together for each reading         *)
(* (docs/ML-KEM-Phase3.md, "Durable gateway outbox" and "Sensor retry       *)
(* behavior"): it goes from the sensor to the gateway and on to the cloud,  *)
(* and never back.  The sensor has one reading at most and samples no other *)
(* before that one is taken, or lost with a sensor that stops; the gateway  *)
(* and the cloud lose none.                                                 *)
(***************************************************************************)
CONSTANT Messages

VARIABLE place \* who answers for each reading

PathTypeOK == place \in [Messages -> {"new", "sensor", "gateway", "cloud", "lost"}]

PathInit == place = [m \in Messages |-> "new"]

Moves(m, from, to) ==
    /\ place[m] \in from
    /\ place' = [place EXCEPT ![m] = to]

Sample(m) ==
    /\ \A n \in Messages : place[n] # "sensor"
    /\ Moves(m, {"new"}, "sensor")

\* A POST that a stopped sensor has left on its way may still be taken.
Take(m) == Moves(m, {"sensor", "lost"}, "gateway")

Store(m) == Moves(m, {"gateway"}, "cloud")

Lose(m) == Moves(m, {"sensor"}, "lost")

PathNext == \E m \in Messages : Sample(m) \/ Take(m) \/ Store(m) \/ Lose(m)

PathSpec == PathInit /\ [][PathNext]_place

=============================================================================
