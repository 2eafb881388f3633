----------------------------- MODULE MCGateway -----------------------------
(* Finite instances of Gateway for TLC. *)
EXTENDS Gateway, TLC

MessageSymmetry == Permutations(Messages)

MessageAndCallerSymmetry == Permutations(Messages) \cup Permutations(Callers)

==============================================================================
