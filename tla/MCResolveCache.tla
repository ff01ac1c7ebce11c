--------------------------- MODULE MCResolveCache ----------------------------
(* Finite instances of ResolveCache: names and readers are interchangeable. *)
EXTENDS ResolveCache, TLC

Symmetry == Permutations(Names) \cup Permutations(Readers)
=============================================================================
