--------------------------- MODULE MCHeldMessages ---------------------------
EXTENDS HeldMessages, TLC
Symmetries == Permutations(Requests) \cup Permutations(Ends)
=============================================================================
