------------------------------- MODULE Registry -------------------------------
(***************************************************************************)
(* What the name plane promises whoever names things: a name is bound to   *)
(* one node at a time, at one moment, as the rule of its namespace allows  *)
(* at that moment; a node has one primary name; what is retired stays as   *)
(* it was.  There are no connections, statements, locks or verdicts asked  *)
(* beforehand here; NameBinding has them, and is shown to behave as this.  *)
(***************************************************************************)
EXTENDS Integers

CONSTANTS Names, Rule, Hold, Identities, NoOne,   \* as in NameBinding
          Ids,      \* whatever a binding, and the node made for it, may be known by
          Times     \* what a clock may say

VARIABLES
  rows,    \* the bindings there have been, each under its id, live or retired
  nodes    \* what they name, and the identity each resolves to

vars == <<rows, nodes>>

Init == rows = {} /\ nodes = {[id |-> 0, who |-> NoOne, active |-> TRUE]}

Free(n) == \A r \in rows : r.name = n => ~ r.live

Past(n) == {r \in rows : r.name = n /\ ~ r.live}

\* The identity i is behind everything n has named.
Always(n, i) == \A r \in Past(n) : \E m \in nodes : m.id = r.node /\ m.who = i

\* The rule of n's namespace, for whoever was the only one ever behind n and for others.
Allowed(n, who, at) ==
  \/ Past(n) = {} \/ Rule[n] = "immediate"
  \/ /\ Rule[n] = "hold"
     /\ (who # NoOne /\ Always(n, who)) \/ \A r \in Past(n) : r.revoked + Hold <= at

\* A free name is given to a node.  As its primary name it displaces the last one.
Bind(id, n, node, who, primary, at) ==
  /\ \A r \in rows : r.id # id
  /\ Free(n) /\ Allowed(n, who, at)
  /\ rows' = {IF primary /\ r.node = node THEN [r EXCEPT !.primary = FALSE] ELSE r : r \in rows}
               \cup {[id |-> id, name |-> n, node |-> node, primary |-> primary, live |-> TRUE,
                      at |-> at, revoked |-> 0]}

\* A node that exists is named.
Name(id, n, at) ==
  /\ \E m \in nodes, primary \in BOOLEAN : Bind(id, n, m.id, NoOne, primary, at)
  /\ UNCHANGED nodes

\* A node is made together with its name.  Who asks for a name back has it resolve to itself.
Issue(id, n, at) ==
  /\ \A m \in nodes : m.id # id
  /\ \E who \in Identities \cup {NoOne}, asked \in BOOLEAN :
       /\ Bind(id, n, id, IF asked THEN who ELSE NoOne, TRUE, at)
       /\ nodes' = nodes \cup {[id |-> id, who |-> who, active |-> TRUE]}

\* A live binding becomes past, and with it perhaps some node.
Retire(r, at) ==
  /\ r.live
  /\ rows' = (rows \ {r}) \cup {[r EXCEPT !.live = FALSE, !.primary = FALSE, !.revoked = at]}
  /\ \/ UNCHANGED nodes
     \/ \E m \in nodes : nodes' = {IF k.id = m.id THEN [k EXCEPT !.active = FALSE] ELSE k : k \in nodes}

Next ==
  \E at \in Times :
    \/ \E id \in Ids, n \in Names : Name(id, n, at) \/ Issue(id, n, at)
    \/ \E r \in rows : Retire(r, at)

Spec == Init /\ [][Next]_vars
=============================================================================
