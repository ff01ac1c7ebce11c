---------------------------- MODULE MCOutboxDrain ----------------------------
(* Finite instance of OutboxDrain: replicas of one brain are interchangeable. *)
EXTENDS OutboxDrain, TLC

Symmetry == Permutations(Replicas)
=============================================================================
