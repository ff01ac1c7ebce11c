------------------------------ MODULE MCLiveLane ------------------------------
(* Finite instance of LiveLane: two rungs, and a budget that carries one full *)
(* ladder and at most the smallest one beside it.                            *)
EXTENDS LiveLane, TLC

MCSources ==
  {[height |-> 3, fps |-> 1, copies |-> TRUE], [height |-> 0, fps |-> 1, copies |-> FALSE]}

MCEncodeCost == [x264 |-> (1 :> 2 @@ 2 :> 5), nvenc |-> (1 :> 0 @@ 2 :> 1)]

MCDecodeCost == 0 :> 0 @@ 3 :> 3

MCNominalCard == [cpu |-> 3, sessions |-> 2]

MCAuthorOf == [s \in Streams |-> s]
=============================================================================
