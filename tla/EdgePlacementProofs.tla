------------------------- MODULE EdgePlacementProofs -------------------------
(* TLAPS proofs about EdgePlacement, for every set of nodes and predicates  *)
(* and every depth ceiling.                                                 *)
EXTENDS EdgePlacement, FiniteSetTheorems, WellFoundedInduction, TLAPS

\* The inductive invariant.  ChainIntact alone is not inductive: an insert
\* keeps the edges below its subject consistent only because they all hang
\* from a root that has no outgoing edge, so that the subject's tree is the
\* whole of what must move.
PlacementInv == TypeOK /\ UniqueTriples /\ ChainIntact /\ RootIsBottom

\* The edge an insert adds.
NewEdge(s, p, o, root, depth) ==
  [s |-> s, p |-> p, o |-> o, root |-> root, depth |-> depth]

\* Where a row of the table is after the tree rooted at s has moved.
Moved(e, s, p, root, depth) ==
  IF e.root = s /\ e.p = p THEN [e EXCEPT !.root = root, !.depth = @ + depth] ELSE e

\* A move keeps the triple of a row, and shifts its root and depth as the
\* UPDATE of insert_edge says.
LEMMA MovedFields ==
  ASSUME NEW e \in Edge, NEW s \in Nodes, NEW p \in Predicates,
         NEW root \in Nodes, NEW depth \in Nat
  PROVE  LET m == Moved(e, s, p, root, depth)
         IN /\ m.s = e.s /\ m.p = e.p /\ m.o = e.o
            /\ e.root = s /\ e.p = p => m.root = root /\ m.depth = e.depth + depth
            /\ ~ (e.root = s /\ e.p = p) => m = e
  BY DEF Moved, Edge

\* The rows an insert leaves: the new one, and every old one moved.
LEMMA RowsAfterInsert ==
  ASSUME NEW s \in Nodes, NEW p \in Predicates, NEW o \in Nodes,
         NEW root \in Nodes, NEW depth \in 1..MaxDepth,
         edges' = Reroot(edges, s, p, root, depth)
                    \cup {[s |-> s, p |-> p, o |-> o, root |-> root, depth |-> depth]}
  PROVE  /\ \A x \in edges' : \/ x = NewEdge(s, p, o, root, depth)
                              \/ \E e \in edges : x = Moved(e, s, p, root, depth)
         /\ NewEdge(s, p, o, root, depth) \in edges'
         /\ \A e \in edges : Moved(e, s, p, root, depth) \in edges'
  BY DEF Reroot, NewEdge, Moved

\* An insert keeps the invariant.
LEMMA InsertKeepsInv ==
  ASSUME PlacementInv, NEW s \in Nodes, NEW p \in Predicates, NEW o \in Nodes,
         Insert(s, p, o)
  PROVE  PlacementInv'
<1>1. PICK root \in Nodes, depth \in 1..MaxDepth :
        /\ Offers(o, p, root, depth)
        /\ root # s
        /\ \A e \in RootedAt(s, p) : e.depth + depth <= MaxDepth
        /\ ~ \E e \in edges : IsTriple(e, s, p, o)
        /\ edges' = Reroot(edges, s, p, root, depth)
                      \cup {[s |-> s, p |-> p, o |-> o, root |-> root, depth |-> depth]}
  BY DEF Insert
<1> DEFINE new == NewEdge(s, p, o, root, depth)
           M(e) == Moved(e, s, p, root, depth)
<1>2. /\ \A x \in edges' : x = new \/ \E e \in edges : x = M(e)
      /\ new \in edges'
      /\ \A e \in edges : M(e) \in edges'
  BY <1>1, RowsAfterInsert
<1>3. /\ new.s = s /\ new.p = p /\ new.o = o /\ new.root = root /\ new.depth = depth
      /\ new \in Edge
  BY <1>1 DEF NewEdge, Edge
<1>4. MaxDepth \in Nat /\ depth \in Nat /\ depth >= 1 /\ depth <= MaxDepth
  BY <1>1, MaxDepthAssumption
<1>5. \A e \in edges : e \in Edge /\ e.depth \in Nat /\ e.depth >= 1 /\ e.depth <= MaxDepth
  BY <1>4 DEF PlacementInv, TypeOK, Edge
<1>6. \A e \in edges : /\ M(e).s = e.s /\ M(e).p = e.p /\ M(e).o = e.o
                       /\ e.root = s /\ e.p = p
                            => M(e).root = root /\ M(e).depth = e.depth + depth
                       /\ ~ (e.root = s /\ e.p = p) => M(e) = e
  BY <1>1, <1>4, <1>5, MovedFields
<1> HIDE DEF new, M
<1>7. TypeOK'
  <2> SUFFICES ASSUME NEW x \in edges' PROVE x \in Edge
    BY DEF TypeOK
  <2>1. CASE x = new
    BY <2>1, <1>3
  <2>2. CASE \E e \in edges : x = M(e)
    <3>1. PICK e \in edges : x = M(e)
      BY <2>2
    <3>2. CASE e.root = s /\ e.p = p
      <4>1. e.depth + depth <= MaxDepth
        BY <1>1, <3>2 DEF RootedAt
      <4>2. e.depth + depth \in 1..MaxDepth
        BY <4>1, <1>4, <1>5
      <4>3. x = [e EXCEPT !.root = root, !.depth = @ + depth]
        BY <3>1, <3>2 DEF M, Moved
      <4> QED
        BY <4>2, <4>3, <1>5 DEF Edge
    <3>3. CASE ~ (e.root = s /\ e.p = p)
      BY <3>1, <3>3, <1>5, <1>6
    <3> QED
      BY <3>2, <3>3
  <2> QED
    BY <2>1, <2>2, <1>2
<1>8. UniqueTriples'
  <2> SUFFICES ASSUME NEW x \in edges', NEW y \in edges', IsTriple(y, x.s, x.p, x.o)
               PROVE  x = y
    BY DEF UniqueTriples
  <2>1. y.s = x.s /\ y.p = x.p /\ y.o = x.o
    BY DEF IsTriple
  <2>2. \A e \in edges : ~ (e.s = s /\ e.p = p /\ e.o = o)
    BY <1>1 DEF IsTriple
  <2>3. CASE x = new /\ y = new
    BY <2>3
  <2>4. CASE x = new /\ \E e \in edges : y = M(e)
    BY <2>1, <2>2, <2>4, <1>3, <1>6
  <2>5. CASE y = new /\ \E e \in edges : x = M(e)
    BY <2>1, <2>2, <2>5, <1>3, <1>6
  <2>6. CASE (\E e \in edges : x = M(e)) /\ (\E e \in edges : y = M(e))
    <3>1. PICK e \in edges, f \in edges : x = M(e) /\ y = M(f)
      BY <2>6
    <3>2. IsTriple(f, e.s, e.p, e.o)
      BY <3>1, <2>1, <1>6 DEF IsTriple
    <3>3. e = f
      BY <3>2 DEF PlacementInv, UniqueTriples
    <3> QED
      BY <3>1, <3>3
  <2> QED
    BY <2>3, <2>4, <2>5, <2>6, <1>2
<1>9. ChainIntact'
  <2> SUFFICES ASSUME NEW x \in edges'
               PROVE  \/ x.depth = 1 /\ x.root = x.o
                      \/ \E f \in edges' : /\ f.s = x.o /\ f.p = x.p
                                           /\ f.root = x.root /\ f.depth = x.depth - 1
    BY DEF ChainIntact, Outgoing
  <2>1. CASE x = new
    <3>1. CASE Outgoing(o, p) = {} /\ root = o /\ depth = 1
      BY <3>1, <2>1, <1>3
    <3>2. CASE \E f \in Outgoing(o, p) : root = f.root /\ depth = f.depth + 1
      <4>1. PICK f \in edges : f.s = o /\ f.p = p /\ root = f.root /\ depth = f.depth + 1
        BY <3>2 DEF Outgoing
      <4>2. M(f) = f
        BY <4>1, <1>1, <1>6
      <4>3. f \in edges' /\ f.depth = depth - 1
        BY <4>1, <4>2, <1>2, <1>5
      <4> QED
        BY <4>1, <4>3, <2>1, <1>3
    <3> QED
      BY <3>1, <3>2, <1>1 DEF Offers
  <2>2. CASE \E e \in edges : x = M(e)
    <3>1. PICK e \in edges : x = M(e)
      BY <2>2
    <3>2. CASE e.root = s /\ e.p = p
      <4>1. x.o = e.o /\ x.p = p /\ x.root = root /\ x.depth = e.depth + depth
        BY <3>1, <3>2, <1>6
      <4>2. CASE e.depth = 1 /\ e.root = e.o
        <5>1. /\ new.s = x.o /\ new.p = x.p /\ new.root = x.root
              /\ new.depth = x.depth - 1
          BY <4>1, <4>2, <3>2, <1>3, <1>4
        <5> QED
          BY <5>1, <1>2
      <4>3. CASE \E f \in Outgoing(e.o, e.p) : f.root = e.root /\ f.depth = e.depth - 1
        <5>1. PICK f \in edges : /\ f.s = e.o /\ f.p = e.p
                                 /\ f.root = e.root /\ f.depth = e.depth - 1
          BY <4>3 DEF Outgoing
        <5>2. /\ M(f) \in edges' /\ M(f).s = x.o /\ M(f).p = x.p
              /\ M(f).root = x.root /\ M(f).depth = f.depth + depth
          BY <5>1, <4>1, <3>2, <1>2, <1>6
        <5>3. M(f).depth = x.depth - 1
          BY <5>1, <5>2, <4>1, <1>4, <1>5
        <5> QED
          BY <5>2, <5>3
      <4> QED
        BY <4>2, <4>3 DEF PlacementInv, ChainIntact
    <3>3. CASE ~ (e.root = s /\ e.p = p)
      <4>1. x = e
        BY <3>1, <3>3, <1>6
      <4>2. CASE e.depth = 1 /\ e.root = e.o
        BY <4>1, <4>2
      <4>3. CASE \E f \in Outgoing(e.o, e.p) : f.root = e.root /\ f.depth = e.depth - 1
        <5>1. PICK f \in edges : /\ f.s = e.o /\ f.p = e.p
                                 /\ f.root = e.root /\ f.depth = e.depth - 1
          BY <4>3 DEF Outgoing
        <5>2. M(f) = f
          BY <5>1, <3>3, <1>6
        <5>3. f \in edges'
          BY <5>1, <5>2, <1>2
        <5> QED
          BY <5>1, <5>3, <4>1
      <4> QED
        BY <4>2, <4>3 DEF PlacementInv, ChainIntact
    <3> QED
      BY <3>2, <3>3
  <2> QED
    BY <2>1, <2>2, <1>2
<1>10. RootIsBottom'
  <2>1. \A f \in edges : f.p = p => f.s # root
    <3>1. CASE Outgoing(o, p) = {} /\ root = o
      BY <3>1 DEF Outgoing
    <3>2. CASE \E f \in Outgoing(o, p) : root = f.root
      <4>1. PICK f \in edges : f.p = p /\ root = f.root
        BY <3>2 DEF Outgoing
      <4> QED
        BY <4>1 DEF PlacementInv, RootIsBottom
    <3> QED
      BY <3>1, <3>2, <1>1 DEF Offers
  <2> SUFFICES ASSUME NEW x \in edges', NEW y \in edges', y.p = x.p
               PROVE  y.s # x.root
    BY DEF RootIsBottom
  <2>2. \/ x.p = p /\ x.root = root
        \/ x \in edges /\ ~ (x.root = s /\ x.p = p)
    BY <1>2, <1>3, <1>6
  <2>3. \/ y.s = s /\ y.p = p
        \/ \E f \in edges : f.s = y.s /\ f.p = y.p
    BY <1>2, <1>3, <1>6
  <2>4. CASE x.p = p /\ x.root = root
    BY <2>1, <2>3, <2>4, <1>1
  <2>5. CASE x \in edges /\ ~ (x.root = s /\ x.p = p)
    BY <2>3, <2>5 DEF PlacementInv, RootIsBottom
  <2> QED
    BY <2>2, <2>4, <2>5
<1> QED
  BY <1>7, <1>8, <1>9, <1>10 DEF PlacementInv

\* A delete keeps the invariant: the edge it removes was nobody's parent.  An edge
\* that points at its subject hangs from another of the subject's chains.
LEMMA DeleteKeepsInv ==
  ASSUME PlacementInv, NEW s \in Nodes, NEW p \in Predicates, NEW o \in Nodes,
         Delete(s, p, o)
  PROVE  PlacementInv'
<1>1. edges' \subseteq edges
  BY DEF Delete
<1>2. \A f \in edges : f \notin edges' => f.s = s /\ f.p = p
  BY DEF Delete, IsTriple
<1>3. TypeOK' /\ UniqueTriples' /\ RootIsBottom'
  BY <1>1 DEF PlacementInv, TypeOK, UniqueTriples, RootIsBottom
<1>4. ChainIntact'
  <2> SUFFICES ASSUME NEW x \in edges'
               PROVE  \/ x.depth = 1 /\ x.root = x.o
                      \/ \E f \in Outgoing(x.o, x.p)' :
                           f.root = x.root /\ f.depth = x.depth - 1
    BY DEF ChainIntact
  <2>1. \/ x.depth = 1 /\ x.root = x.o
        \/ \E f \in Outgoing(x.o, x.p) : f.root = x.root /\ f.depth = x.depth - 1
    BY <1>1 DEF PlacementInv, ChainIntact
  <2>2. ASSUME NEW f \in Outgoing(x.o, x.p), f.root = x.root PROVE f \in edges'
    <3> SUFFICES ASSUME IsTriple(f, s, p, o) PROVE FALSE
      BY DEF Delete, Outgoing
    <3>1. PICK g \in edges :
            /\ IsTriple(g, s, p, o)
            /\ ~ \E e \in edges : e.o = s /\ e.p = p /\ e.root = g.root
      BY DEF Delete
    <3>2. f = g
      BY <3>1 DEF PlacementInv, UniqueTriples, IsTriple, Outgoing
    <3> QED
      BY <1>1, <2>2, <3>1, <3>2 DEF IsTriple, Outgoing
  <2> QED
    BY <2>1, <2>2 DEF Outgoing
<1> QED
  BY <1>3, <1>4 DEF PlacementInv

\* In every reachable state the rows describe the chains as they are: the
\* invariant of insert_edge and delete_edge, for every graph and every ceiling.
THEOREM PlacementIsInvariant == Spec => []PlacementInv
<1>1. Init => PlacementInv
  BY DEF Init, PlacementInv, TypeOK, UniqueTriples, ChainIntact, RootIsBottom
<1>2. PlacementInv /\ [Next]_edges => PlacementInv'
  <2> SUFFICES ASSUME PlacementInv, [Next]_edges PROVE PlacementInv'
    OBVIOUS
  <2>1. CASE UNCHANGED edges
    BY <2>1 DEF PlacementInv, TypeOK, UniqueTriples, ChainIntact, RootIsBottom, Outgoing
  <2>2. CASE Next
    BY <2>2, InsertKeepsInv, DeleteKeepsInv DEF Next
  <2> QED
    BY <2>1, <2>2
<1> QED
  BY <1>1, <1>2, PTL DEF Spec

\* Every row is a well-formed edge, no deeper than MAX_DEPTH.
THEOREM EdgesWellFormed == Spec => []TypeOK
  BY PlacementIsInvariant, PTL DEF PlacementInv

\* Every edge has its parent one step nearer the same root.
THEOREM ChainsStayIntact == Spec => []ChainIntact
  BY PlacementIsInvariant, PTL DEF PlacementInv

\* Nothing leaves a root: no order of arrivals closes a tree into a loop.
THEOREM RootsStayBottom == Spec => []RootIsBottom
  BY PlacementIsInvariant, PTL DEF PlacementInv

\* A row that outlives an insert is its old self, moved.
LEMMA SurvivorIsMoved ==
  ASSUME PlacementInv, NEW s \in Nodes, NEW p \in Predicates, NEW o \in Nodes,
         NEW root \in Nodes, NEW depth \in 1..MaxDepth,
         ~ \E e \in edges : IsTriple(e, s, p, o),
         edges' = Reroot(edges, s, p, root, depth)
                    \cup {[s |-> s, p |-> p, o |-> o, root |-> root, depth |-> depth]},
         NEW e \in edges, NEW x \in edges', IsTriple(x, e.s, e.p, e.o)
  PROVE  x = Moved(e, s, p, root, depth)
<1>1. \A g \in edges : /\ Moved(g, s, p, root, depth).s = g.s
                       /\ Moved(g, s, p, root, depth).p = g.p
                       /\ Moved(g, s, p, root, depth).o = g.o
  BY MovedFields, MaxDepthAssumption DEF PlacementInv, TypeOK
<1>2. x = NewEdge(s, p, o, root, depth) \/ \E g \in edges : x = Moved(g, s, p, root, depth)
  BY RowsAfterInsert
<1>3. x # NewEdge(s, p, o, root, depth)
  BY DEF NewEdge, IsTriple
<1>4. PICK g \in edges : x = Moved(g, s, p, root, depth)
  BY <1>2, <1>3
<1>5. IsTriple(g, e.s, e.p, e.o)
  BY <1>1, <1>4 DEF IsTriple
<1> QED
  BY <1>4, <1>5 DEF PlacementInv, UniqueTriples

\* A tree is moved whole or not at all: re-rooting takes every edge that hangs from
\* the subject, by the same distance, and a delete takes none from its place.
THEOREM MovesAreWhole == Spec => TreesMoveWhole
<1>1. ASSUME PlacementInv, Next, NEW e \in edges, NEW f \in edges, e.p = f.p, e.root = f.root,
             NEW e2 \in edges', IsTriple(e2, e.s, e.p, e.o),
             NEW f2 \in edges', IsTriple(f2, f.s, f.p, f.o)
      PROVE  e2.root = f2.root /\ e2.depth - e.depth = f2.depth - f.depth
  <2>1. PICK s \in Nodes, o \in Nodes, p \in Predicates : Insert(s, p, o) \/ Delete(s, p, o)
    BY <1>1 DEF Next
  <2>2. CASE Delete(s, p, o)
    <3>1. e2 \in edges /\ f2 \in edges
      BY <2>2 DEF Delete
    <3>2. e2 = e /\ f2 = f
      BY <1>1, <3>1 DEF PlacementInv, UniqueTriples
    <3>3. e.depth \in Int /\ f.depth \in Int
      BY <1>1, MaxDepthAssumption DEF PlacementInv, TypeOK, Edge
    <3> QED
      BY <1>1, <3>2, <3>3
  <2>3. CASE Insert(s, p, o)
    <3>1. PICK root \in Nodes, depth \in 1..MaxDepth :
            /\ ~ \E g \in edges : IsTriple(g, s, p, o)
            /\ edges' = Reroot(edges, s, p, root, depth)
                          \cup {[s |-> s, p |-> p, o |-> o, root |-> root, depth |-> depth]}
      BY <2>3 DEF Insert
    <3>2. e2 = Moved(e, s, p, root, depth) /\ f2 = Moved(f, s, p, root, depth)
      BY <1>1, <3>1, SurvivorIsMoved
    <3>3. e \in Edge /\ f \in Edge /\ e.depth \in Int /\ f.depth \in Int /\ depth \in Nat
      BY <1>1, MaxDepthAssumption DEF PlacementInv, TypeOK, Edge
    <3>4. \A g \in {e, f} :
            LET m == Moved(g, s, p, root, depth)
            IN /\ g.root = s /\ g.p = p => m.root = root /\ m.depth = g.depth + depth
               /\ ~ (g.root = s /\ g.p = p) => m = g
      BY <3>3, MovedFields
    <3> QED
      BY <1>1, <3>2, <3>3, <3>4
  <2> QED
    BY <2>1, <2>2, <2>3
<1>2. PlacementInv /\ [Next]_edges =>
        [\A e, f \in edges :
           e.p = f.p /\ e.root = f.root =>
             \A e2 \in edges' : IsTriple(e2, e.s, e.p, e.o) =>
               \A f2 \in edges' : IsTriple(f2, f.s, f.p, f.o) =>
                 e2.root = f2.root /\ e2.depth - e.depth = f2.depth - f.depth]_edges
  BY <1>1
<1> QED
  BY <1>2, PlacementIsInvariant, PTL DEF Spec, TreesMoveWhole

-----------------------------------------------------------------------------
(* The walk down the edges. *)

LEMMA NatSetsHaveMin ==
  ASSUME NEW T \in SUBSET Nat, T # {} PROVE \E m \in T : \A n \in T : m <= n
<1> DEFINE Less == {ss \in Nat \X Nat : ss[1] < ss[2]}
<1>1. IsWellFoundedOn(Less, Nat)
  BY NatLessThanWellFounded DEF OpToRel
<1>2. \A n, m \in Nat : <<n, m>> \notin Less => m <= n
  OBVIOUS
<1> HIDE DEF Less
<1>3. PICK m \in T : \A n \in T : ~ (<<n, m>> \in Less)
  BY <1>1, WFMin
<1> QED
  BY <1>2, <1>3

\* One hop down from n: along its edge, or nowhere if it has none.
Below(n, p) ==
  IF \E e \in edges : e.p = p /\ e.s = n THEN (CHOOSE e \in edges : e.p = p /\ e.s = n).o ELSE n

\* h is the first n hops of a walk down from o.
Hops(h, n, o, p) == h = [k \in 0..n |-> IF k = 0 THEN o ELSE Below(h[k - 1], p)]

LEMMA HopIs ==
  ASSUME NEW n \in Nat, NEW o, NEW p, NEW h, Hops(h, n, o, p), NEW k \in 1..n
  PROVE  h[k] = Below(h[k - 1], p)
<1>1. k \in 0..n /\ k # 0
  OBVIOUS
<1> QED
  BY <1>1 DEF Hops

\* However long, there is such a walk: a shortest one there is not could be had
\* from the one before it.
LEMMA HopsExist ==
  ASSUME NEW o, NEW p, NEW n \in Nat PROVE \E h : Hops(h, n, o, p)
<1> DEFINE Missing == {m \in Nat : ~ \E h : Hops(h, m, o, p)}
<1> SUFFICES ASSUME Missing # {} PROVE FALSE
  OBVIOUS
<1>1. PICK m \in Missing : \A l \in Missing : m <= l
  BY NatSetsHaveMin
<1>2. m # 0
  <2>1. Hops([k \in 0..0 |-> o], 0, o, p)
    BY DEF Hops
  <2> QED
    BY <2>1
<1>3. m - 1 \in Nat /\ m - 1 \notin Missing
  BY <1>1, <1>2
<1>4. PICK h : Hops(h, m - 1, o, p)
  BY <1>3
<1> DEFINE g == [k \in 0..m |-> IF k = m THEN Below(h[m - 1], p) ELSE h[k]]
<1>5. Hops(g, m, o, p)
  <2> SUFFICES ASSUME NEW k \in 0..m
               PROVE  g[k] = IF k = 0 THEN o ELSE Below(g[k - 1], p)
    BY DEF Hops
  <2>1. CASE k = m
    <3>1. g[k - 1] = h[m - 1] /\ k # 0
      BY <1>2, <2>1
    <3> QED
      BY <2>1, <3>1
  <2>2. CASE k # m
    <3>1. k \in 0..(m - 1) /\ g[k] = h[k]
      BY <2>2
    <3>2. h[k] = IF k = 0 THEN o ELSE Below(h[k - 1], p)
      BY <1>4, <3>1 DEF Hops
    <3>3. k # 0 => g[k - 1] = h[k - 1]
      BY <3>1
    <3> QED
      BY <3>1, <3>2, <3>3
  <2> QED
    BY <2>1, <2>2
<1> QED
  BY <1>1, <1>5

\* Walk is one.
LEMMA WalkHops ==
  ASSUME NEW o, NEW p, Cardinality(Nodes) \in Nat PROVE Hops(Walk(o, p), Cardinality(Nodes), o, p)
<1> DEFINE H(h) == h = [k \in 0..Cardinality(Nodes) |->
                          IF k = 0 THEN o
                          ELSE IF \E e \in edges : e.p = p /\ e.s = h[k - 1]
                               THEN (CHOOSE e \in edges : e.p = p /\ e.s = h[k - 1]).o
                               ELSE h[k - 1]]
<1>1. Walk(o, p) = CHOOSE h : H(h)
  BY DEF Walk
<1>2. \A h : H(h) <=> Hops(h, Cardinality(Nodes), o, p)
  BY DEF Hops, Below
<1>3. \E h : H(h)
  BY <1>2, HopsExist
<1>4. H(CHOOSE h : H(h))
  <2> HIDE DEF H
  <2> QED
    BY <1>3
<1> QED
  BY <1>1, <1>2, <1>4

\* In a forest, the walk from an edge's object goes down the tree that the edge is
\* in, one level a hop.
LEMMA WalkDescends ==
  ASSUME PlacementInv, NEW e \in edges, IsForest(e.p), NEW n \in Nat, NEW h, Hops(h, n, e.o, e.p),
         NEW k \in 0..n, k < e.depth
  PROVE  \E g \in edges : g.p = e.p /\ g.o = h[k] /\ g.root = e.root /\ g.depth = e.depth - k
<1> DEFINE Goes(m) == \E g \in edges : g.p = e.p /\ g.o = h[m] /\ g.root = e.root /\ g.depth = e.depth - m
           Astray == {m \in 0..k : ~ Goes(m)}
<1> SUFFICES ASSUME Astray # {} PROVE FALSE
  OBVIOUS
<1>0. \A g \in edges : g.depth \in 1..MaxDepth
  BY DEF PlacementInv, TypeOK, Edge
<1>1. PICK m \in Astray : \A l \in Astray : m <= l
  <2>1. Astray \in SUBSET Nat
    OBVIOUS
  <2> HIDE DEF Astray
  <2> QED
    BY <2>1, NatSetsHaveMin
<1>2. m # 0
  <2>1. Goes(0)
    <3>1. h[0] = e.o
      BY DEF Hops
    <3> QED
      BY <1>0, <3>1, MaxDepthAssumption
  <2> QED
    BY <1>1, <2>1
<1>3. m - 1 \in 0..k /\ m - 1 \notin Astray
  BY <1>1, <1>2
<1>4. PICK g \in edges : g.p = e.p /\ g.o = h[m - 1] /\ g.root = e.root /\ g.depth = e.depth - (m - 1)
  BY <1>3
<1>5. g.depth # 1
  BY <1>0, <1>1, <1>4, MaxDepthAssumption
<1>6. PICK f \in edges : f.s = g.o /\ f.p = g.p /\ f.root = g.root /\ f.depth = g.depth - 1
  BY <1>5 DEF PlacementInv, ChainIntact, Outgoing
<1>7. h[m] = f.o
  <2>1. h[m] = Below(h[m - 1], e.p)
    <3>1. m \in 1..n
      BY <1>1, <1>2
    <3> QED
      BY <3>1, HopIs
  <2>2. (CHOOSE x \in edges : x.p = e.p /\ x.s = h[m - 1]) = f
    <3>1. \A x \in edges : x.p = e.p /\ x.s = h[m - 1] => x = f
      BY <1>4, <1>6 DEF IsForest
    <3>2. f.p = e.p /\ f.s = h[m - 1]
      BY <1>4, <1>6
    <3> QED
      BY ONLY f \in edges, <3>1, <3>2
  <2> QED
    BY <1>4, <1>6, <2>1, <2>2 DEF Below
<1>8. Goes(m)
  <2>1. f.depth = e.depth - m
    BY <1>0, <1>1, <1>4, <1>6
  <2> QED
    BY <1>4, <1>6, <1>7, <2>1
<1> QED
  BY <1>1, <1>8

\* Where the tree ends, the walk stays.
LEMMA WalkEnds ==
  ASSUME PlacementInv, NEW e \in edges, IsForest(e.p), NEW n \in Nat, NEW h, Hops(h, n, e.o, e.p),
         NEW k \in 0..n, e.depth <= k + 1
  PROVE  h[k] = e.root
<1> DEFINE Astray == {m \in 0..k : e.depth <= m + 1 /\ h[m] # e.root}
<1> SUFFICES ASSUME Astray # {} PROVE FALSE
  OBVIOUS
<1>0. \A g \in edges : g.depth \in 1..MaxDepth
  BY DEF PlacementInv, TypeOK, Edge
<1>1. PICK m \in Astray : \A l \in Astray : m <= l
  <2>1. Astray \in SUBSET Nat
    OBVIOUS
  <2> HIDE DEF Astray
  <2> QED
    BY <2>1, NatSetsHaveMin
<1>2. CASE e.depth = m + 1
  <2>1. PICK g \in edges : g.p = e.p /\ g.o = h[m] /\ g.root = e.root /\ g.depth = e.depth - m
    <3>1. m \in 0..n /\ m < e.depth
      BY <1>1, <1>2
    <3> QED
      BY <3>1, WalkDescends
  <2>2. g.depth = 1
    BY <1>1, <1>2, <2>1
  <2>3. g.root = g.o
    <3>1. ~ \E f \in Outgoing(g.o, g.p) : f.root = g.root /\ f.depth = g.depth - 1
      BY <1>0, <2>2 DEF Outgoing
    <3> QED
      BY <3>1 DEF PlacementInv, ChainIntact
  <2> QED
    BY <1>1, <2>1, <2>3
<1>3. CASE e.depth # m + 1
  <2>1. m - 1 \in 0..k /\ e.depth <= (m - 1) + 1 /\ m # 0 /\ m \in 0..n
    BY <1>0, <1>1, <1>3, MaxDepthAssumption
  <2>2. h[m - 1] = e.root
    BY <1>1, <2>1
  <2>3. h[m] = Below(h[m - 1], e.p)
    BY <2>1 DEF Hops
  <2>4. ~ \E f \in edges : f.p = e.p /\ f.s = e.root
    BY DEF PlacementInv, RootIsBottom
  <2> QED
    BY <1>1, <2>2, <2>3, <2>4 DEF Below
<1> QED
  BY <1>2, <1>3

\* It never passes a node twice on the way.
LEMMA WalkMoves ==
  ASSUME PlacementInv, NEW e \in edges, IsForest(e.p), NEW n \in Nat, NEW h, Hops(h, n, e.o, e.p),
         NEW i \in 0..n, NEW j \in 0..n, i < j, j < e.depth
  PROVE  h[i] # h[j]
<1>0. \A g \in edges : g.depth \in 1..MaxDepth
  BY DEF PlacementInv, TypeOK, Edge
<1>1. PICK g \in edges : g.p = e.p /\ g.o = h[i] /\ g.root = e.root /\ g.depth = e.depth - i
  <2>1. i < e.depth
    BY <1>0, MaxDepthAssumption
  <2> QED
    BY <2>1, WalkDescends
<1>2. PICK f \in edges : f.s = h[i] /\ f.p = e.p /\ f.depth = e.depth - i - 1
  <2>1. g.depth # 1
    BY <1>0, <1>1, MaxDepthAssumption
  <2>2. PICK f \in edges : f.s = g.o /\ f.p = g.p /\ f.root = g.root /\ f.depth = g.depth - 1
    BY <2>1 DEF PlacementInv, ChainIntact, Outgoing
  <2> QED
    BY <1>1, <2>2
<1>3. PICK d \in edges : d.p = e.p /\ d.o = h[j] /\ d.root = e.root /\ d.depth = e.depth - j
  BY WalkDescends
<1>4. CASE d.depth = 1
  <2>1. d.root = d.o
    <3>1. ~ \E x \in Outgoing(d.o, d.p) : x.root = d.root /\ x.depth = d.depth - 1
      BY <1>0, <1>4 DEF Outgoing
    <3> QED
      BY <3>1 DEF PlacementInv, ChainIntact
  <2>2. f.s # e.root
    BY <1>2 DEF PlacementInv, RootIsBottom
  <2> QED
    BY <1>2, <1>3, <2>1, <2>2
<1>5. CASE d.depth # 1
  <2>1. PICK x \in edges : x.s = d.o /\ x.p = d.p /\ x.root = d.root /\ x.depth = d.depth - 1
    BY <1>5 DEF PlacementInv, ChainIntact, Outgoing
  <2>2. x.depth # f.depth
    BY <1>0, <1>2, <1>3, <2>1, MaxDepthAssumption
  <2>3. x.s # f.s
    BY <1>2, <1>3, <2>1, <2>2 DEF IsForest
  <2> QED
    BY <1>2, <1>3, <2>1, <2>3
<1> QED
  BY <1>4, <1>5

\* A chain is no deeper than there are nodes.
LEMMA DepthIsBounded ==
  ASSUME PlacementInv, IsFiniteSet(Nodes), NEW e \in edges, IsForest(e.p)
  PROVE  e.depth <= Cardinality(Nodes)
<1> SUFFICES ASSUME e.depth > Cardinality(Nodes) PROVE FALSE
  <2>1. e.depth \in Nat /\ Cardinality(Nodes) \in Nat
    BY FS_CardinalityType, MaxDepthAssumption DEF PlacementInv, TypeOK, Edge
  <2> QED
    BY <2>1
<1> DEFINE n == Cardinality(Nodes)
<1>1. n \in Nat /\ e.depth \in Nat
  BY FS_CardinalityType, MaxDepthAssumption DEF PlacementInv, TypeOK, Edge
<1> HIDE DEF n
<1>2. PICK h : Hops(h, n, e.o, e.p)
  BY <1>1, HopsExist
<1>3. h \in [0..n -> Nodes]
  <2> SUFFICES ASSUME NEW k \in 0..n PROVE h[k] \in Nodes
    BY <1>2 DEF Hops
  <2>1. k < e.depth
    BY <1>1 DEF n
  <2>2. PICK g \in edges : g.o = h[k]
    BY <1>1, <1>2, <2>1, WalkDescends
  <2> QED
    BY <2>2 DEF PlacementInv, TypeOK, Edge
<1>4. IsFiniteSet(0..n) /\ Cardinality(0..n) = n + 1
  BY <1>1, FS_Interval
<1>5. PICK i, j \in 0..n : i # j /\ h[i] = h[j]
  <2>1. Cardinality(Nodes) < Cardinality(0..n)
    BY <1>1, <1>4 DEF n
  <2> QED
    BY <1>3, <1>4, <2>1, FS_PigeonHole
<1>6. i < e.depth /\ j < e.depth
  BY <1>1 DEF n
<1>7. CASE i < j
  BY <1>1, <1>2, <1>5, <1>6, <1>7, WalkMoves
<1>8. CASE j < i
  BY <1>1, <1>2, <1>5, <1>6, <1>8, WalkMoves
<1> QED
  BY <1>5, <1>7, <1>8

\* With finitely many nodes, wherever the edges of a predicate are a forest, root
\* and depth are those that a walk down the edges finds, whatever order the edges
\* have arrived in or gone (insert_edge's re-rooting and delete_edge's refusal).
THEOREM OrderDoesNotMatter ==
  ASSUME IsFiniteSet(Nodes) PROVE Spec => []InOrderPlacement
<1>1. PlacementInv => InOrderPlacement
  <2> SUFFICES ASSUME PlacementInv, NEW e \in edges, IsForest(e.p)
               PROVE  /\ e.root = Walk(e.o, e.p)[Cardinality(Nodes)]
                      /\ e.depth = 1 + Cardinality({k \in 1..Cardinality(Nodes) :
                                                      Walk(e.o, e.p)[k] # Walk(e.o, e.p)[k - 1]})
    BY DEF InOrderPlacement
  <2> DEFINE n == Cardinality(Nodes)
             h == Walk(e.o, e.p)
             moves == {k \in 1..n : h[k] # h[k - 1]}
  <2>1. n \in Nat /\ e.depth \in Nat /\ 1 <= e.depth
    BY FS_CardinalityType, MaxDepthAssumption DEF PlacementInv, TypeOK, Edge
  <2>2. Hops(h, n, e.o, e.p)
    BY <2>1, WalkHops
  <2>3. e.depth <= n
    BY DepthIsBounded
  <2> HIDE DEF n, h
  <2>4. \A k \in 0..n : e.depth <= k + 1 => h[k] = e.root
    BY <2>1, <2>2, WalkEnds
  <2>5. moves = 1..(e.depth - 1)
    <3>1. ASSUME NEW k \in 1..n, k < e.depth PROVE h[k] # h[k - 1]
      <4>1. k \in 0..n /\ k - 1 \in 0..n /\ k - 1 < k
        BY <2>1
      <4> QED
        BY <2>1, <2>2, <3>1, <4>1, WalkMoves
    <3>2. ASSUME NEW k \in 1..n, ~ (k < e.depth) PROVE h[k] = h[k - 1]
      <4>1. k \in 0..n /\ k - 1 \in 0..n /\ e.depth <= k + 1 /\ e.depth <= (k - 1) + 1
        BY <2>1, <3>2
      <4> QED
        BY <2>4, <4>1
    <3>3. \A k \in 1..n : k < e.depth <=> k \in 1..(e.depth - 1)
      BY <2>1
    <3> QED
      BY <2>1, <2>3, <3>1, <3>2, <3>3
  <2>6. Cardinality(moves) = e.depth - 1
    <3> HIDE DEF moves
    <3> QED
      BY <2>1, <2>5, FS_Interval
  <2>7. h[n] = e.root
    BY <2>1, <2>3, <2>4
  <2> QED
    BY <2>1, <2>6, <2>7 DEF n, h
<1> QED
  BY <1>1, PlacementIsInvariant, PTL
=============================================================================
