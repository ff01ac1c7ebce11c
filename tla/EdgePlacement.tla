---------------------------- MODULE EdgePlacement ----------------------------
(***************************************************************************)
(* What the edge plane of Manhattan promises: a set of typed edges whose   *)
(* materialised root and depth describe the chain as it is, whatever the   *)
(* order the edges arrive in (manhattan/src/db.rs, insert_edge and         *)
(* delete_edge).  Each write is one atomic step here; EdgeLocks models the *)
(* locks that make it so and is shown to implement this module.            *)
(*                                                                         *)
(* The parent of a new edge is one of its object's outgoing edges.  Which  *)
(* one is left open: the code reads the shallowest, but an edge that       *)
(* becomes the shallowest while the insert is in flight does not displace  *)
(* it ("the choice is sticky").                                            *)
(***************************************************************************)
EXTENDS Integers, FiniteSets

CONSTANTS Nodes,        \* node ids
          Predicates,   \* relation kinds; chains of different kinds are unrelated
          MaxDepth      \* MAX_DEPTH, the ceiling on a chain

ASSUME MaxDepthAssumption == MaxDepth \in Nat \ {0}

VARIABLE edges          \* the rows of table edges

Edge == [s : Nodes, p : Predicates, o : Nodes, root : Nodes, depth : 1..MaxDepth]

IsTriple(e, s, p, o) == e.s = s /\ e.p = p /\ e.o = o

Outgoing(n, p) == {e \in edges : e.s = n /\ e.p = p}

\* Mutant of RootedAt: the subject's own edges are measured, not its tree.
MeasuredBySubject(n, p) == Outgoing(n, p)

\* The tree that hangs from n: every edge whose chain bottoms out at n.
RootedAt(n, p) == {e \in edges : e.root = n /\ e.p = p}

\* Mutant of Offers: the object's own place in a chain is forgotten.
OffersObject(o, p, root, depth) == root = o /\ depth = 1

\* <<root, depth>> is a place the object's chain offers to a child of it.
Offers(o, p, root, depth) ==
  \/ \E f \in Outgoing(o, p) : root = f.root /\ depth = f.depth + 1
  \/ Outgoing(o, p) = {} /\ root = o /\ depth = 1

\* Mutants of Reroot: nothing is moved; only the first level is; rows are
\* inserted at the new place and left at the old one as well.
RerootNothing(es, s, p, root, depth) == es
RerootChildren(es, s, p, root, depth) ==
  {IF e.root = s /\ e.p = p /\ e.depth = 1 THEN [e EXCEPT !.root = root, !.depth = @ + depth]
                                           ELSE e : e \in es}

\* The UPDATE that follows an insert: the subject's whole tree moves along.
Reroot(es, s, p, root, depth) ==
  {IF e.root = s /\ e.p = p THEN [e EXCEPT !.root = root, !.depth = @ + depth]
                            ELSE e : e \in es}

Init == edges = {}

Insert(s, p, o) ==
  /\ s # o                                             \* edge_self_reference
  /\ \E root \in Nodes, depth \in 1..MaxDepth :
       /\ Offers(o, p, root, depth)
       /\ root # s                                     \* Cycle
       /\ \A e \in RootedAt(s, p) : e.depth + depth <= MaxDepth   \* TooDeep
       /\ ~ \E e \in edges : IsTriple(e, s, p, o)      \* Duplicate
       /\ edges' = Reroot(edges, s, p, root, depth)
                     \cup {[s |-> s, p |-> p, o |-> o, root |-> root, depth |-> depth]}

\* Mutant of Delete: what was placed beneath the edge is not counted.
DeleteUncounted(s, p, o) ==
  /\ \E e \in edges : IsTriple(e, s, p, o)
  /\ edges' = {e \in edges : ~ IsTriple(e, s, p, o)}

\* The count refuses for every edge that points at the subject.  What the locks
\* keep true until the commit is less: none of them is in the tree of the edge
\* that goes.  One may still join another of the subject's chains meanwhile.
Delete(s, p, o) ==
  /\ \E f \in edges :
       /\ IsTriple(f, s, p, o)                                   \* NotFound
       /\ ~ \E e \in edges : e.o = s /\ e.p = p /\ e.root = f.root  \* HasDescendants
  /\ edges' = {e \in edges : ~ IsTriple(e, s, p, o)}

Next ==
  \E s, o \in Nodes, p \in Predicates : Insert(s, p, o) \/ Delete(s, p, o)

Spec == Init /\ [][Next]_edges

-----------------------------------------------------------------------------
\* Every row is a well-formed edge of table edges.
TypeOK == edges \subseteq Edge

\* No triple has two rows: the primary key survives every move of a tree.
UniqueTriples ==
  \A e, f \in edges : IsTriple(f, e.s, e.p, e.o) => e = f

\* An edge at depth 1 starts its chain at its own object; a deeper one has a
\* parent above it, in the same tree and exactly one step nearer the root.  A
\* delete or a move that forgot a row would leave an edge without its parent.
ChainIntact ==
  \A e \in edges :
    \/ e.depth = 1 /\ e.root = e.o
    \/ \E f \in Outgoing(e.o, e.p) : f.root = e.root /\ f.depth = e.depth - 1

\* A root is the bottom of its chain: nothing under the same predicate leaves
\* it.  An insert that gave a root an outgoing edge without moving its tree, or
\* that closed a loop, would break it.
RootIsBottom ==
  \A e, f \in edges : f.p = e.p => f.s # e.root

\* No subject has two outgoing edges under p: the graph of p is a forest.
IsForest(p) ==
  \A e, f \in edges : e.p = p /\ f.p = p /\ e.s = f.s => e = f

\* The node n hops below o, or the last one reached before the chain ends.
Walk(o, p) ==
  LET hop[k \in 0..Cardinality(Nodes)] ==
        IF k = 0 THEN o
        ELSE IF \E e \in edges : e.p = p /\ e.s = hop[k - 1]
             THEN (CHOOSE e \in edges : e.p = p /\ e.s = hop[k - 1]).o
             ELSE hop[k - 1]
  IN hop

\* "Whatever interleaving Postgres picks, the tree that results is the one an
\* in-order delivery would have produced" (manhattan/src/db_tests.rs:244-246):
\* in a forest, root and depth are those a walk down the edges finds, so they
\* do not depend on the order the edges arrived in.
InOrderPlacement ==
  \A e \in edges : IsForest(e.p) =>
    LET hop == Walk(e.o, e.p)
    IN /\ e.root = hop[Cardinality(Nodes)]
       /\ e.depth = 1 + Cardinality({k \in 1..Cardinality(Nodes) : hop[k] # hop[k - 1]})

\* Two edges of one tree stay in one tree, at the same distance from each
\* other, for as long as both exist: a tree is moved whole or not at all.
TreesMoveWhole ==
  [][\A e, f \in edges :
       e.p = f.p /\ e.root = f.root =>
         \A e2 \in edges' : IsTriple(e2, e.s, e.p, e.o) =>
           \A f2 \in edges' : IsTriple(f2, f.s, f.p, f.o) =>
             e2.root = f2.root /\ e2.depth - e.depth = f2.depth - f.depth]_edges
=============================================================================
