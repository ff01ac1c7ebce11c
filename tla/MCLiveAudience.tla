--------------------------- MODULE MCLiveAudience ---------------------------
(* Finite instance of LiveAudience: a signed-in and a logged-out surface.   *)
EXTENDS LiveAudience
=============================================================================
