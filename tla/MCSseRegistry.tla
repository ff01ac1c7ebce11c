---------------------------- MODULE MCSseRegistry ----------------------------
(* A finite instance of SseRegistry: one person with two personas.  The       *)
(* clients of the first persona are interchangeable.                          *)
EXTENDS SseRegistry, TLC

CONSTANTS First, Second, Both, SecondClients   \* the second persona's clients; the others have the first

MCAccountOf == [c \in Clients |-> IF c \in SecondClients THEN Second ELSE First]
MCPersonOf == [a \in {First, Second} |-> Both]

Symmetry == Permutations(Clients \ SecondClients)
=============================================================================
