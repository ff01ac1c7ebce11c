---------------------------- MODULE MCEdgeLocks ----------------------------
(* Finite instance of EdgeLocks, of nodes and connections that are numbers.  *)
(* Connections are interchangeable, and so are nodes.  A symmetry set would  *)
(* be unsound for the liveness property, so of the behaviours that differ    *)
(* only in names the instance takes the one that uses them in order.         *)
EXTENDS EdgeLocks

CONSTANTS Child, Parent     \* the ends of the edge the instance starts from

\* A plane on which one edge was written before the transactions of interest.
OneEdge ==
  \E p \in Predicates :
    edges = {[s |-> Child, p |-> p, o |-> Parent, root |-> Parent, depth |-> 1, at |-> 0]}

AfterOneEdge ==
  /\ OneEdge /\ ops = 0
  /\ tx = [t \in Txns |-> NoTx]
  /\ excl = [t \in Txns |-> {}] /\ shared = [t \in Txns |-> {}]

MCSpec == AfterOneEdge /\ [][Next]_vars /\ Fairness

Opening == {t \in Txns : tx[t].pc = "idle" /\ tx'[t].pc # "idle"}

\* The nodes that occur nowhere in a state, and so are all alike in it.
Fresh ==
  {n \in Nodes : /\ \A e \in edges : n \notin {e.s, e.o, e.root}
                 /\ \A t \in Txns : n \notin excl[t] \cup shared[t]
                 /\ \A t \in Txns : tx[t].pc # "idle" => n \notin {tx[t].s, tx[t].o, tx[t].key, tx[t].root}}

IsLeast(n, S) == n \in S => \A m \in S : n <= m

\* A transaction is begun by the first idle connection, and names the first of the
\* nodes that are fresh.
InOrder ==
  \A t \in Opening :
    /\ \A u \in Txns : u < t => tx[u].pc # "idle"
    /\ IsLeast(tx'[t].s, Fresh)
    /\ IsLeast(tx'[t].o, Fresh \ {tx'[t].s})
=============================================================================
