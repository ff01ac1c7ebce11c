---------------------------- MODULE MCNameBinding ----------------------------
(* Finite instances of NameBinding: a contact address, a handle and a Number, *)
(* one name for each rule a namespace can have.                               *)
EXTENDS NameBinding, TLC

CONSTANTS Address, Handle, Number

MCRule == [n \in Names |-> CASE n = Address -> "never" [] n = Handle -> "immediate" [] n = Number -> "hold"]

Symmetry == Permutations(Identities) \cup Permutations(Txns)
=============================================================================
