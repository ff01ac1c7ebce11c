--------------------------- MODULE MCEdgePlacement ---------------------------
(* Finite instance of EdgePlacement.                                        *)
EXTENDS EdgePlacement, TLC

Symmetry == Permutations(Nodes) \cup Permutations(Predicates)
=============================================================================
