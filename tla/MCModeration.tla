---------------------------- MODULE MCModeration ----------------------------
(* Finite instance of Moderation: two handlers at once, over one work.      *)
EXTENDS Moderation
=============================================================================
