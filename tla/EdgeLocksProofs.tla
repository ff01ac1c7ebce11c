--------------------------- MODULE EdgeLocksProofs ---------------------------
(* TLAPS proofs about EdgeLocks, for every plane, any number of connections, *)
(* every depth ceiling and every bound on the turns: as long as no delete    *)
(* goes on from a root that it has lost, the locks make each write one step  *)
(* of EdgePlacement; and no delete loses its root unless its edge is deeper  *)
(* than it has turns, and more transactions overlap it than it has turns.    *)
EXTENDS EdgeLocks, FiniteSetTheorems, WellFoundedInduction, TLAPS

\* The root that a delete locks in its last turn is still the one its edge hangs from.
\* It does not look again: the code counts and removes, whatever became of the root.
Steady ==
  \A t \in Txns : tx[t].pc = "root" /\ tx[t].turn + 1 = Turns =>
    \A e \in Rows(t) : e.root = tx[t].key

-----------------------------------------------------------------------------
(* The inductive invariant. *)

Row == [s : Nodes, p : Predicates, o : Nodes, root : Nodes, depth : 1..MaxDepth, at : Nat]

Inserting == {"before", "chain", "after", "measure", "write"}
Deleting  == {"edge", "root", "count", "remove"}

Open == [pc : {"subject"} \cup Inserting \cup Deleting, kind : {"insert", "delete"},
         s : Nodes, p : Predicates, o : Nodes, at : Nat, key : Nodes, turn : Nat,
         root : Nodes, depth : Nat, below : Nat]

LocksTypes ==
  /\ edges \subseteq Row /\ ops \in Nat
  /\ tx \in [Txns -> {NoTx} \cup Open]
  /\ excl \in [Txns -> SUBSET Nodes] /\ shared \in [Txns -> SUBSET Nodes]

\* Nobody shares a node with the holder of its exclusive lock.
Compatible ==
  \A t, u \in Txns : t # u => excl[t] \cap (excl[u] \cup shared[u]) = {}

UniqueRows == \A e, f \in edges : f.s = e.s /\ f.p = e.p /\ f.o = e.o => f = e

\* The locks a transaction has by the time it is where it is.
Holds(t) ==
  /\ tx[t].pc \in Inserting \cup Deleting => tx[t].s \in excl[t] /\ tx[t].s # tx[t].o
  /\ tx[t].pc = "subject" => tx[t].s # tx[t].o /\ tx[t].turn = 0
  /\ tx[t].pc \in {"after", "measure", "write"} => tx[t].key \in shared[t]
  /\ tx[t].pc = "edge" /\ tx[t].turn > 0 => tx[t].key \in excl[t]

\* The place an insert has read stays a place its object offers.
Placed(t) ==
  tx[t].pc \in {"measure", "write"} =>
    /\ tx[t].root = tx[t].key /\ tx[t].depth >= 1
    /\ \/ \E f \in edges : /\ f.s = tx[t].o /\ f.p = tx[t].p
                           /\ f.root = tx[t].root /\ tx[t].depth = f.depth + 1
       \/ /\ tx[t].root = tx[t].o /\ tx[t].depth = 1
          /\ \A f \in edges : ~ (f.s = tx[t].o /\ f.p = tx[t].p)

\* The tree an insert has measured grows no deeper.
Measured(t) ==
  tx[t].pc = "write" =>
    /\ tx[t].root # tx[t].s /\ tx[t].below + tx[t].depth <= MaxDepth
    /\ \A e \in edges : e.root = tx[t].s /\ e.p = tx[t].p => e.depth <= tx[t].below

RootHeld(t) ==
  tx[t].pc \in {"count", "remove"} => \A e \in Rows(t) : e.root \in excl[t]

\* Nothing has been placed beneath the edge a delete is about to remove, in its tree.
Counted(t) ==
  tx[t].pc = "remove" =>
    \A f \in Rows(t), e \in edges : ~ (e.o = tx[t].s /\ e.p = tx[t].p /\ e.root = f.root)

LocksInv ==
  /\ LocksTypes /\ Compatible /\ UniqueRows
  /\ \A t \in Txns : Holds(t) /\ Placed(t) /\ Measured(t) /\ RootHeld(t) /\ Counted(t)

-----------------------------------------------------------------------------
(* The reads. *)

LEMMA NatSetsHaveMin ==
  ASSUME NEW T \in SUBSET Nat, T # {} PROVE \E m \in T : \A n \in T : m <= n
<1> DEFINE Less == {ss \in Nat \X Nat : ss[1] < ss[2]}
<1>1. IsWellFoundedOn(Less, Nat)
  BY NatLessThanWellFounded DEF OpToRel
<1>2. \A n, m \in Nat : <<n, m>> \notin Less => m <= n
  OBVIOUS
<1> HIDE DEF Less
<1>3. PICK m \in T : \A n \in T : ~ (<<n, m>> \in Less)
  BY <1>1, WFMin
<1> QED
  BY <1>2, <1>3

\* A node's outgoing edges have an oldest shallowest one.
LEMMA OldestExists ==
  ASSUME LocksTypes, NEW es \in SUBSET edges, es # {} PROVE Oldest(es) # {}
<1>1. \A e \in es : e.depth \in Nat /\ e.at \in Nat
  BY LocksAssumption DEF LocksTypes, Row
<1>2. PICK d \in {e.depth : e \in es} : \A n \in {e.depth : e \in es} : d <= n
  <2>1. {e.depth : e \in es} \in SUBSET Nat /\ {e.depth : e \in es} # {}
    BY <1>1
  <2> QED
    BY <2>1, NatSetsHaveMin
<1> DEFINE low == {e \in es : e.depth = d}
<1>3. PICK a \in {e.at : e \in low} : \A n \in {e.at : e \in low} : a <= n
  <2>1. {e.at : e \in low} \in SUBSET Nat /\ {e.at : e \in low} # {}
    BY <1>1
  <2> QED
    BY <2>1, NatSetsHaveMin
<1>4. PICK e \in low : e.at = a
  OBVIOUS
<1>5. e \in Oldest(es)
  <2> SUFFICES ASSUME NEW f \in es
               PROVE  e.depth < f.depth \/ (e.depth = f.depth /\ e.at <= f.at)
    BY DEF Oldest
  <2>1. d <= f.depth /\ d \in Nat /\ e.depth = d
    BY <1>1, <1>2
  <2>2. CASE f.depth = d
    BY <2>1, <2>2, <1>3, <1>4
  <2>3. CASE f.depth # d
    BY <2>1, <2>3, <1>1
  <2> QED
    BY <2>2, <2>3
<1> QED
  BY <1>5

\* What the chain read returns: an outgoing edge's place, or the node itself.
LEMMA FirstOutgoingIs ==
  ASSUME LocksTypes, NEW n \in Nodes, NEW p \in Predicates
  PROVE  \/ /\ FirstOutgoing(n, p) = [root |-> n, depth |-> 0]
            /\ \A e \in edges : ~ (e.s = n /\ e.p = p)
         \/ \E e \in edges : /\ e.s = n /\ e.p = p
                             /\ FirstOutgoing(n, p) = [root |-> e.root, depth |-> e.depth]
<1> DEFINE out == {e \in edges : e.s = n /\ e.p = p}
<1>1. CASE out = {}
  BY <1>1 DEF FirstOutgoing
<1>2. CASE out # {}
  <2> DEFINE c == CHOOSE e \in Oldest(out) : TRUE
  <2>1. c \in Oldest(out)
    BY <1>2, OldestExists
  <2>2. c \in out
    BY <2>1 DEF Oldest
  <2>3. FirstOutgoing(n, p) = [root |-> c.root, depth |-> c.depth]
    BY <1>2 DEF FirstOutgoing
  <2> QED
    BY <2>2, <2>3
<1> QED
  BY <1>1, <1>2

\* What the depth read returns: a bound on the tree below a node.
LEMMA DeepestAtBounds ==
  ASSUME LocksTypes, NEW n \in Nodes, NEW p \in Predicates
  PROVE  /\ DeepestAt(n, p) \in 0..MaxDepth
         /\ \A e \in edges : e.root = n /\ e.p = p => e.depth <= DeepestAt(n, p)
<1> DEFINE tree == {e \in edges : e.root = n /\ e.p = p}
           Deepest(d) == IF tree = {} THEN d = 0
                         ELSE (\E e \in tree : e.depth = d) /\ \A e \in tree : e.depth <= d
<1>1. MaxDepth \in Nat /\ \A e \in tree : e.depth \in 1..MaxDepth
  BY LocksAssumption DEF LocksTypes, Row
<1>2. \E d \in 0..MaxDepth : Deepest(d)
  <2>1. CASE tree = {}
    BY <2>1, <1>1
  <2>2. CASE tree # {}
    <3> DEFINE bounds == {d \in 0..MaxDepth : \A e \in tree : e.depth <= d}
    <3>1. bounds \in SUBSET Nat /\ MaxDepth \in bounds
      BY <1>1
    <3>2. PICK d \in bounds : \A n2 \in bounds : d <= n2
      BY <3>1, NatSetsHaveMin
    <3>3. \E e \in tree : e.depth = d
      <4> SUFFICES ASSUME \A e \in tree : e.depth # d PROVE FALSE
        OBVIOUS
      <4>1. \A e \in tree : e.depth <= d - 1
        BY <1>1, <3>2
      <4>2. d - 1 \in 0..MaxDepth
        BY <1>1, <2>2, <3>2, <4>1
      <4> QED
        BY <3>2, <4>1, <4>2
    <3> QED
      BY <2>2, <3>2, <3>3
  <2> QED
    BY <2>1, <2>2
<1>3. DeepestAt(n, p) = CHOOSE d \in 0..MaxDepth : Deepest(d)
  BY DEF DeepestAt
<1> HIDE DEF Deepest
<1>4. DeepestAt(n, p) \in 0..MaxDepth /\ Deepest(DeepestAt(n, p))
  BY <1>2, <1>3
<1> QED
  BY <1>4, <1>1 DEF Deepest

-----------------------------------------------------------------------------
(* What one step does to the rows and to the other transactions. *)

Acts(t) == Begin(t) \/ Step(t) \/ Lost(t)

Good(t) == Holds(t) /\ Placed(t) /\ Measured(t) /\ RootHeld(t) /\ Counted(t)

LEMMA OpenOrIdle ==
  ASSUME LocksTypes, NEW t \in Txns
  PROVE  /\ tx[t].pc # "idle" => tx[t] \in Open
         /\ tx[t].pc = "idle" => tx[t] = NoTx
  BY DEF LocksTypes, NoTx, Open, Inserting, Deleting

\* A step is a step of one transaction: the others, and their locks, stay.
LEMMA OthersStay ==
  ASSUME LocksTypes, NEW t \in Txns, NEW u \in Txns, t # u, Acts(u)
  PROVE  tx'[t] = tx[t] /\ excl'[t] = excl[t] /\ shared'[t] = shared[t]
<1> USE DEF LocksTypes, locks
<1>1. CASE Begin(u)
  BY <1>1 DEF Begin
<1>2. ASSUME Rollback(u) \/ End(u) PROVE tx'[t] = tx[t] /\ excl'[t] = excl[t] /\ shared'[t] = shared[t]
  BY <1>2 DEF Rollback, End
<1>3. CASE LockSubject(u) \/ ReadBefore(u) \/ LockChain(u)
  BY <1>3 DEF LockSubject, ReadBefore, LockChain, Goto
<1>4. CASE ReadAfter(u)
  BY <1>2, <1>4 DEF ReadAfter
<1>5. CASE Measure(u)
  BY <1>2, <1>5 DEF Measure
<1>6. CASE WriteEdge(u) \/ Remove(u) \/ Deadlock(u) \/ Lost(u)
  BY <1>2, <1>6 DEF WriteEdge, Remove, Deadlock, Lost
<1>7. CASE ReadEdge(u)
  BY <1>2, <1>7 DEF ReadEdge, Goto
<1>8. CASE LockRoot(u)
  BY <1>8 DEF LockRoot
<1>9. CASE Count(u)
  BY <1>2, <1>9 DEF Count, Goto
<1> QED
  BY <1>1, <1>3, <1>4, <1>5, <1>6, <1>7, <1>8, <1>9 DEF Acts, Step

\* Only a commit changes the rows.
LEMMA OnlyCommits ==
  ASSUME NEW u \in Txns, Acts(u)
  PROVE  edges' = edges \/ (WriteEdge(u) /\ Rows(u) = {}) \/ Remove(u)
  BY DEF Acts, Step, Begin, LockSubject, ReadBefore, LockChain, ReadAfter, Measure, WriteEdge,
     ReadEdge, LockRoot, Count, Deadlock, Lost, Rollback, vars, locks

NewRow(t) ==
  [s |-> tx[t].s, p |-> tx[t].p, o |-> tx[t].o,
   root |-> tx[t].root, depth |-> tx[t].depth, at |-> tx[t].at]

\* The rows a commit of an insert leaves: the new one, and every old one with its
\* triple.  Those of the subject's tree have moved, and no other.
LEMMA RowsWritten ==
  ASSUME LocksInv, NEW u \in Txns, WriteEdge(u), Rows(u) = {}
  PROVE  /\ tx[u] \in Open /\ NewRow(u) \in Row
         /\ edges' = {Moved(u, e) : e \in edges} \cup {NewRow(u)}
         /\ \A e \in edges :
              /\ Moved(u, e) \in Row
              /\ Moved(u, e).s = e.s /\ Moved(u, e).p = e.p /\ Moved(u, e).o = e.o
              /\ e.root = tx[u].s /\ e.p = tx[u].p =>
                   /\ Moved(u, e).root = tx[u].root
                   /\ Moved(u, e).depth = e.depth + tx[u].depth
              /\ ~ (e.root = tx[u].s /\ e.p = tx[u].p) => Moved(u, e) = e
<1>1. tx[u].pc = "write"
  BY DEF WriteEdge
<1>2. tx[u] \in Open
  BY <1>1, OpenOrIdle DEF LocksInv
<1>3. /\ tx[u].s \in Nodes /\ tx[u].p \in Predicates /\ tx[u].o \in Nodes /\ tx[u].root \in Nodes
      /\ tx[u].depth \in Nat /\ tx[u].below \in Nat /\ tx[u].at \in Nat
  BY <1>2 DEF Open
<1>4. /\ tx[u].depth >= 1 /\ tx[u].below + tx[u].depth <= MaxDepth
      /\ \A e \in edges : e.root = tx[u].s /\ e.p = tx[u].p => e.depth <= tx[u].below
  BY <1>1 DEF LocksInv, Placed, Measured
<1>5. MaxDepth \in Nat
  BY LocksAssumption
<1>6. NewRow(u) \in Row
  BY <1>3, <1>4, <1>5 DEF NewRow, Row
<1>7. edges' = {Moved(u, e) : e \in edges} \cup {NewRow(u)}
  BY DEF WriteEdge, NewRow
<1>8. ASSUME NEW e \in edges
      PROVE  /\ Moved(u, e) \in Row
             /\ Moved(u, e).s = e.s /\ Moved(u, e).p = e.p /\ Moved(u, e).o = e.o
             /\ e.root = tx[u].s /\ e.p = tx[u].p =>
                  /\ Moved(u, e).root = tx[u].root
                  /\ Moved(u, e).depth = e.depth + tx[u].depth
             /\ ~ (e.root = tx[u].s /\ e.p = tx[u].p) => Moved(u, e) = e
  <2>1. e \in Row /\ e.depth \in Nat /\ e.depth >= 1
    BY <1>5, <1>8 DEF LocksInv, LocksTypes, Row
  <2>2. CASE e.root = tx[u].s /\ e.p = tx[u].p
    <3>1. tx[u].below > 0 /\ e.depth + tx[u].depth \in 1..MaxDepth
      BY <1>3, <1>4, <1>5, <1>8, <2>1, <2>2
    <3>2. Moved(u, e) = [e EXCEPT !.root = tx[u].root, !.depth = @ + tx[u].depth]
      BY <2>2, <3>1 DEF Moved
    <3>3. Moved(u, e) = [e EXCEPT !.root = tx[u].root, !.depth = e.depth + tx[u].depth]
      BY <2>1, <3>2 DEF Row
    <3> QED
      BY <1>3, <2>1, <2>2, <3>1, <3>3 DEF Row
  <2>3. CASE ~ (e.root = tx[u].s /\ e.p = tx[u].p)
    BY <2>1, <2>3 DEF Moved
  <2> QED
    BY <2>2, <2>3
<1> QED
  BY <1>2, <1>6, <1>7, <1>8

-----------------------------------------------------------------------------
(* What a transaction relies on survives the steps of the others. *)

\* Another's insert: it places nothing in a tree whose root t holds, and moves no
\* tree whose root t holds or shares.
LEMMA OthersInsert ==
  ASSUME LocksInv, NEW t \in Txns, NEW u \in Txns, t # u, WriteEdge(u), Rows(u) = {}
  PROVE  Good(t)'
<1>1. tx'[t] = tx[t] /\ excl'[t] = excl[t] /\ shared'[t] = shared[t]
  BY OthersStay DEF LocksInv, Acts, Step
<1>2. /\ tx[u] \in Open /\ tx[u].pc = "write"
      /\ NewRow(u) \in edges' /\ \A e \in edges : Moved(u, e) \in edges'
      /\ \A x \in edges' : x = NewRow(u) \/ \E e \in edges : x = Moved(u, e)
      /\ \A e \in edges :
           /\ Moved(u, e).s = e.s /\ Moved(u, e).p = e.p /\ Moved(u, e).o = e.o
           /\ e.root = tx[u].s /\ e.p = tx[u].p => Moved(u, e).root = tx[u].root
           /\ ~ (e.root = tx[u].s /\ e.p = tx[u].p) => Moved(u, e) = e
  BY RowsWritten DEF WriteEdge
<1>3. /\ NewRow(u).s = tx[u].s /\ NewRow(u).p = tx[u].p /\ NewRow(u).o = tx[u].o
      /\ NewRow(u).root = tx[u].root
  BY DEF NewRow
<1>4. tx[u].s \in excl[u] /\ tx[u].root \in shared[u]
  BY <1>2 DEF LocksInv, Good, Holds, Placed, Inserting
<1>5. tx[u].s \notin excl[t] /\ tx[u].s \notin shared[t] /\ tx[u].root \notin excl[t]
  BY <1>4 DEF LocksInv, Compatible
<1>6. Holds(t) /\ Placed(t) /\ Measured(t) /\ RootHeld(t) /\ Counted(t)
  BY DEF LocksInv
<1> HIDE DEF NewRow, Moved
<1>7. Holds(t)'
  BY <1>1, <1>6 DEF Holds
<1>8. Placed(t)'
  <2> SUFFICES ASSUME tx[t].pc \in {"measure", "write"}
               PROVE  \/ \E f \in edges' : /\ f.s = tx[t].o /\ f.p = tx[t].p
                                           /\ f.root = tx[t].root /\ tx[t].depth = f.depth + 1
                      \/ /\ tx[t].root = tx[t].o /\ tx[t].depth = 1
                         /\ \A f \in edges' : ~ (f.s = tx[t].o /\ f.p = tx[t].p)
    BY <1>1, <1>6 DEF Placed
  <2>1. tx[t].root \in shared[t]
    BY <1>6 DEF Holds, Placed
  <2>2. CASE \E f \in edges : /\ f.s = tx[t].o /\ f.p = tx[t].p
                              /\ f.root = tx[t].root /\ tx[t].depth = f.depth + 1
    <3>1. PICK f \in edges : /\ f.s = tx[t].o /\ f.p = tx[t].p
                             /\ f.root = tx[t].root /\ tx[t].depth = f.depth + 1
      BY <2>2
    <3>2. f \in edges'
      BY <1>2, <1>5, <2>1, <3>1
    <3> QED
      BY <3>1, <3>2
  <2>3. CASE /\ tx[t].root = tx[t].o /\ tx[t].depth = 1
             /\ \A f \in edges : ~ (f.s = tx[t].o /\ f.p = tx[t].p)
    BY <1>2, <1>3, <1>5, <2>1, <2>3
  <2> QED
    BY <1>6, <2>2, <2>3 DEF Placed
<1>9. Measured(t)'
  <2> SUFFICES ASSUME tx[t].pc = "write", NEW x \in edges', x.root = tx[t].s, x.p = tx[t].p
               PROVE  x.depth <= tx[t].below
    BY <1>1, <1>6 DEF Measured
  <2>1. tx[t].s \in excl[t]
    BY <1>6 DEF Holds, Inserting
  <2>2. x \in edges
    BY <1>2, <1>3, <1>5, <2>1
  <2> QED
    BY <1>6, <2>2 DEF Measured
<1>10. ASSUME tx[t].pc \in {"count", "remove"}, NEW x \in edges',
              x.s = tx[t].s, x.p = tx[t].p, x.o = tx[t].o
       PROVE  x \in Rows(t)
  <2>1. tx[t].s \in excl[t]
    BY <1>6, <1>10 DEF Holds, Deleting
  <2>2. PICK e \in edges : x = Moved(u, e)
    BY <1>2, <1>3, <1>5, <1>10, <2>1
  <2>3. e \in Rows(t)
    BY <1>2, <1>10, <2>2 DEF Rows
  <2>4. e.root \in excl[t]
    BY <1>6, <1>10, <2>3 DEF RootHeld
  <2> QED
    BY <1>2, <1>5, <2>2, <2>3, <2>4
<1>11. RootHeld(t)'
  BY <1>1, <1>6, <1>10 DEF RootHeld, Rows
<1>12. Counted(t)'
  <2> SUFFICES ASSUME tx[t].pc = "remove", NEW f \in edges', NEW x \in edges',
                      f.s = tx[t].s, f.p = tx[t].p, f.o = tx[t].o,
                      x.o = tx[t].s, x.p = tx[t].p, x.root = f.root
               PROVE  FALSE
    BY <1>1 DEF Counted, Rows
  <2>1. f \in Rows(t) /\ f.root \in excl[t]
    BY <1>6, <1>10 DEF RootHeld
  <2>2. x \in edges
    BY <1>2, <1>3, <1>5, <2>1
  <2> QED
    BY <1>6, <2>1, <2>2 DEF Counted
<1> QED
  BY <1>7, <1>8, <1>9, <1>11, <1>12 DEF Good

\* Another's delete: the edge it removes hangs from a root it holds, so it is not
\* the edge t has placed its own under.
LEMMA OthersDelete ==
  ASSUME LocksInv, NEW t \in Txns, NEW u \in Txns, t # u, Remove(u)
  PROVE  Good(t)'
<1>1. tx'[t] = tx[t] /\ excl'[t] = excl[t] /\ shared'[t] = shared[t]
  BY OthersStay DEF LocksInv, Acts, Step
<1>2. edges' = edges \ Rows(u) /\ tx[u].pc = "remove"
  BY DEF Remove
<1>3. \A e \in Rows(u) : e.root \in excl[u]
  BY <1>2 DEF LocksInv, RootHeld
<1>4. \A e \in Rows(u) : e.root \notin shared[t]
  BY <1>3 DEF LocksInv, Compatible
<1>5. Holds(t) /\ Placed(t) /\ Measured(t) /\ RootHeld(t) /\ Counted(t)
  BY DEF LocksInv
<1>6. Holds(t)' /\ Measured(t)'
  BY <1>1, <1>2, <1>5 DEF Holds, Measured
<1>7. Placed(t)'
  <2> SUFFICES ASSUME tx[t].pc \in {"measure", "write"}
               PROVE  \/ \E f \in edges' : /\ f.s = tx[t].o /\ f.p = tx[t].p
                                           /\ f.root = tx[t].root /\ tx[t].depth = f.depth + 1
                      \/ /\ tx[t].root = tx[t].o /\ tx[t].depth = 1
                         /\ \A f \in edges' : ~ (f.s = tx[t].o /\ f.p = tx[t].p)
    BY <1>1, <1>5 DEF Placed
  <2>1. tx[t].root \in shared[t]
    BY <1>5 DEF Holds, Placed
  <2> QED
    BY <1>2, <1>4, <1>5, <2>1 DEF Placed
<1>8. RootHeld(t)' /\ Counted(t)'
  BY <1>1, <1>2, <1>5 DEF RootHeld, Counted, Rows
<1> QED
  BY <1>6, <1>7, <1>8 DEF Good

LEMMA OthersKeep ==
  ASSUME LocksInv, NEW t \in Txns, NEW u \in Txns, t # u, Acts(u)
  PROVE  Good(t)'
<1>1. CASE edges' = edges
  <2>1. tx'[t] = tx[t] /\ excl'[t] = excl[t] /\ shared'[t] = shared[t]
    BY OthersStay DEF LocksInv
  <2>2. Good(t)
    BY DEF LocksInv, Good
  <2> QED
    BY <1>1, <2>1, <2>2 DEF Good, Holds, Placed, Measured, RootHeld, Counted, Rows
<1> QED
  BY <1>1, OnlyCommits, OthersInsert, OthersDelete

-----------------------------------------------------------------------------
(* What a transaction relies on is there when it comes to rely on it. *)

LEMMA EndedIsGood ==
  ASSUME LocksTypes, NEW t \in Txns, End(t) PROVE Good(t)'
<1>1. tx'[t].pc = "idle"
  BY DEF LocksTypes, End, NoTx
<1> QED
  BY <1>1 DEF Good, Holds, Placed, Measured, RootHeld, Counted, Inserting, Deleting

LEMMA OwnInsertKeeps ==
  ASSUME LocksInv, NEW t \in Txns,
         LockSubject(t) \/ ReadBefore(t) \/ LockChain(t) \/ ReadAfter(t) \/ Measure(t)
  PROVE  Good(t)'
<1> USE DEF Good, Holds, Placed, Measured, RootHeld, Counted
<1>1. tx[t].pc # "idle"
  BY DEF LockSubject, ReadBefore, LockChain, ReadAfter, Measure
<1>2. tx[t] \in Open /\ LocksTypes /\ Holds(t) /\ Placed(t)
  BY <1>1, OpenOrIdle DEF LocksInv
<1>3. CASE LockSubject(t)
  <2>1. /\ tx'[t] = [tx[t] EXCEPT !.pc = IF tx[t].kind = "insert" THEN "before" ELSE "edge"]
        /\ tx[t].s \in excl'[t] /\ tx[t].s # tx[t].o
    BY <1>2, <1>3 DEF LockSubject, Goto, LocksTypes
  <2>2. tx[t].pc = "subject"
    BY <1>3 DEF LockSubject
  <2>3. tx'[t].pc \in {"before", "edge"} /\ tx'[t].s = tx[t].s /\ tx'[t].o = tx[t].o
        /\ tx'[t].turn = tx[t].turn /\ tx'[t].key = tx[t].key
    BY <1>2, <2>1 DEF Open
  <2>4. tx[t].turn = 0
    BY <1>2, <2>2
  <2> QED
    BY <1>2, <2>1, <2>3, <2>4 DEF Open
<1>4. CASE ReadBefore(t)
  BY <1>2, <1>4 DEF ReadBefore, LocksTypes, Open, locks, Inserting, Deleting
<1>5. CASE LockChain(t)
  BY <1>2, <1>5 DEF LockChain, Goto, LocksTypes, Open, Inserting, Deleting
<1>6. CASE ReadAfter(t)
  <2> DEFINE place == FirstOutgoing(tx[t].o, tx[t].p)
  <2>1. CASE tx[t].pc = "after" /\ Rollback(t)
    BY <1>2, <2>1, EndedIsGood DEF Rollback
  <2>2. CASE /\ tx[t].pc = "after" /\ UNCHANGED <<edges, locks>>
             /\ tx' = [tx EXCEPT ![t].pc = "before", ![t].turn = @ + 1]
    BY <1>2, <2>2 DEF LocksTypes, Open, locks, Inserting, Deleting
  <2>3. CASE /\ tx[t].pc = "after" /\ UNCHANGED <<edges, locks>> /\ place.root = tx[t].key
             /\ tx' = [tx EXCEPT ![t].pc = "measure", ![t].root = place.root,
                                 ![t].depth = place.depth + 1]
    <3>1. tx[t].o \in Nodes /\ tx[t].p \in Predicates
      BY <1>2 DEF Open
    <3>2. \/ /\ place = [root |-> tx[t].o, depth |-> 0]
             /\ \A e \in edges : ~ (e.s = tx[t].o /\ e.p = tx[t].p)
          \/ \E e \in edges : /\ e.s = tx[t].o /\ e.p = tx[t].p
                              /\ place = [root |-> e.root, depth |-> e.depth]
      BY <1>2, <3>1, FirstOutgoingIs
    <3>3. /\ tx'[t].pc = "measure" /\ tx'[t].root = place.root /\ tx'[t].depth = place.depth + 1
          /\ tx'[t].s = tx[t].s /\ tx'[t].o = tx[t].o /\ tx'[t].p = tx[t].p
          /\ tx'[t].key = tx[t].key
      BY <1>2, <2>3 DEF LocksTypes, Open
    <3>4. Holds(t)'
      BY <1>2, <2>3, <3>3 DEF Inserting, locks
    <3> HIDE DEF place
    <3>5. \A e \in edges : e.depth \in Nat /\ e.depth >= 1
      BY <1>2, LocksAssumption DEF LocksTypes, Row
    <3>6. Placed(t)'
      <4>1. tx'[t].root = tx'[t].key /\ edges' = edges
        BY <2>3, <3>3
      <4>2. CASE /\ place = [root |-> tx[t].o, depth |-> 0]
                 /\ \A e \in edges : ~ (e.s = tx[t].o /\ e.p = tx[t].p)
        BY <4>1, <4>2, <3>3
      <4>3. CASE \E e \in edges : /\ e.s = tx[t].o /\ e.p = tx[t].p
                                  /\ place = [root |-> e.root, depth |-> e.depth]
        BY <4>1, <4>3, <3>3, <3>5
      <4> QED
        BY <3>2, <4>2, <4>3
    <3> QED
      BY <3>3, <3>4, <3>6
  <2> QED
    BY <1>6, <2>1, <2>2, <2>3 DEF ReadAfter
<1>7. CASE Measure(t)
  <2> DEFINE below == DeepestAt(tx[t].s, tx[t].p)
  <2>1. CASE tx[t].pc = "measure" /\ Rollback(t)
    BY <1>2, <2>1, EndedIsGood DEF Rollback
  <2>2. CASE /\ tx[t].pc = "measure" /\ UNCHANGED <<edges, locks>>
             /\ ~ (tx[t].root = tx[t].s \/ below + tx[t].depth > MaxDepth)
             /\ tx' = [tx EXCEPT ![t].pc = "write", ![t].below = below]
    <3>1. /\ tx[t].s \in Nodes /\ tx[t].p \in Predicates /\ tx[t].depth \in Nat
          /\ MaxDepth \in Nat
      BY <1>2, LocksAssumption DEF Open
    <3>2. /\ below \in 0..MaxDepth
          /\ \A e \in edges : e.root = tx[t].s /\ e.p = tx[t].p => e.depth <= below
      BY <1>2, <3>1, DeepestAtBounds
    <3>3. /\ tx'[t].pc = "write" /\ tx'[t].below = below /\ tx'[t].depth = tx[t].depth
          /\ tx'[t].s = tx[t].s /\ tx'[t].o = tx[t].o /\ tx'[t].p = tx[t].p
          /\ tx'[t].key = tx[t].key /\ tx'[t].root = tx[t].root
      BY <1>2, <2>2 DEF LocksTypes, Open
    <3> HIDE DEF below
    <3>4. below + tx[t].depth <= MaxDepth
      BY <2>2, <3>1, <3>2
    <3> QED
      BY <1>2, <2>2, <3>2, <3>3, <3>4 DEF Inserting, Deleting, locks
  <2> QED
    BY <1>7, <2>1, <2>2 DEF Measure
<1> QED
  BY <1>3, <1>4, <1>5, <1>6, <1>7

LEMMA OwnDeleteKeeps ==
  ASSUME LocksInv, Steady, NEW t \in Txns, ReadEdge(t) \/ LockRoot(t) \/ Count(t)
  PROVE  Good(t)'
<1> USE DEF Good, Holds, Placed, Measured, RootHeld, Counted
<1>1. tx[t].pc # "idle"
  BY DEF ReadEdge, LockRoot, Count
<1>2. /\ tx[t] \in Open /\ LocksTypes /\ UniqueRows
      /\ Holds(t) /\ Placed(t) /\ RootHeld(t) /\ Counted(t)
  BY <1>1, OpenOrIdle DEF LocksInv
<1>3. CASE ReadEdge(t)
  <2>1. CASE Rollback(t)
    BY <1>2, <2>1, EndedIsGood DEF Rollback
  <2>2. CASE \E e \in Rows(t) :
               /\ IF tx[t].turn > 0 /\ e.root = tx[t].key THEN Goto(t, "count")
                  ELSE tx' = [tx EXCEPT ![t].pc = "root", ![t].key = e.root]
               /\ UNCHANGED <<edges, locks>>
    <3>1. PICK e \in Rows(t) :
               /\ IF tx[t].turn > 0 /\ e.root = tx[t].key THEN Goto(t, "count")
                  ELSE tx' = [tx EXCEPT ![t].pc = "root", ![t].key = e.root]
               /\ UNCHANGED <<edges, locks>>
      BY <2>2
    <3>2. tx[t].pc = "edge"
      BY <1>3 DEF ReadEdge
    <3>3. CASE tx[t].turn > 0 /\ e.root = tx[t].key
      <4>1. \A f \in Rows(t) : f.root \in excl[t]
        BY <1>2, <3>2, <3>3 DEF UniqueRows, Rows
      <4>2. /\ tx'[t].pc = "count" /\ tx'[t].s = tx[t].s /\ tx'[t].o = tx[t].o
            /\ tx'[t].p = tx[t].p /\ edges' = edges /\ excl' = excl
        BY <1>2, <3>1, <3>3 DEF LocksTypes, Open, Goto, locks
      <4> QED
        BY <1>2, <3>2, <4>1, <4>2 DEF Rows, Inserting, Deleting
    <3>4. CASE tx' = [tx EXCEPT ![t].pc = "root", ![t].key = e.root]
      BY <1>2, <3>1, <3>2, <3>4 DEF LocksTypes, Open, Inserting, Deleting, locks
    <3> QED
      BY <3>1, <3>3, <3>4
  <2> QED
    BY <1>3, <2>1, <2>2 DEF ReadEdge
<1>4. CASE LockRoot(t)
  <2>1. CASE tx[t].turn + 1 = Turns
    <3>1. \A e \in Rows(t) : e.root = tx[t].key
      BY <1>4, <2>1 DEF LockRoot, Steady
    <3>2. /\ tx'[t].pc = "count" /\ tx'[t].s = tx[t].s /\ tx'[t].o = tx[t].o
          /\ tx'[t].p = tx[t].p /\ edges' = edges
          /\ tx[t].key \in excl'[t] /\ tx[t].s \in excl'[t] /\ tx[t].s # tx[t].o
      BY <1>2, <1>4, <2>1 DEF LockRoot, LocksTypes, Open, Inserting, Deleting
    <3> QED
      BY <3>1, <3>2 DEF Rows, Inserting, Deleting
  <2>2. CASE tx[t].turn + 1 # Turns
    BY <1>2, <1>4, <2>2 DEF LockRoot, LocksTypes, Open, Inserting, Deleting
  <2> QED
    BY <2>1, <2>2
<1>5. CASE Count(t)
  <2>1. CASE Rollback(t)
    BY <1>2, <2>1, EndedIsGood DEF Rollback
  <2>2. CASE /\ ~ \E e \in edges : e.o = tx[t].s /\ e.p = tx[t].p
             /\ Goto(t, "remove") /\ UNCHANGED <<edges, locks>>
    <3>1. /\ tx'[t].pc = "remove" /\ tx'[t].s = tx[t].s /\ tx'[t].o = tx[t].o
          /\ tx'[t].p = tx[t].p /\ edges' = edges /\ excl' = excl
      BY <1>2, <2>2 DEF LocksTypes, Open, Goto, locks
    <3>2. tx[t].pc = "count"
      BY <1>5 DEF Count
    <3> QED
      BY <1>2, <2>2, <3>1, <3>2 DEF Rows, Inserting, Deleting
  <2> QED
    BY <1>5, <2>1, <2>2 DEF Count
<1> QED
  BY <1>3, <1>4, <1>5

LEMMA OwnKeeps ==
  ASSUME LocksInv, Steady, NEW t \in Txns, Acts(t)
  PROVE  Good(t)'
<1>1. CASE Begin(t)
  <2>1. /\ tx[t].pc = "idle"
        /\ \E kind \in Kinds, s, o \in Nodes, p \in Predicates :
             /\ s # o
             /\ tx' = [tx EXCEPT ![t] =
                  [pc |-> "subject", kind |-> kind, s |-> s, p |-> p, o |-> o, at |-> ops',
                   key |-> s, turn |-> 0, root |-> o, depth |-> 0, below |-> 0]]
    BY <1>1 DEF Begin
  <2>2. tx'[t].pc = "subject" /\ tx'[t].s # tx'[t].o /\ tx'[t].turn = 0
    BY <2>1 DEF LocksInv, LocksTypes
  <2> QED
    BY <2>2 DEF Good, Holds, Placed, Measured, RootHeld, Counted, Inserting, Deleting
<1>2. CASE WriteEdge(t) \/ Remove(t) \/ Deadlock(t) \/ Lost(t)
  <2>1. End(t)
    BY <1>2 DEF WriteEdge, Remove, Deadlock, Lost, Rollback
  <2> QED
    BY <2>1, EndedIsGood DEF LocksInv
<1> QED
  BY <1>1, <1>2, OwnInsertKeeps, OwnDeleteKeeps DEF Acts, Step

-----------------------------------------------------------------------------
(* The parts of the invariant that belong to no one transaction. *)

LEMMA TypesStep ==
  ASSUME LocksInv, NEW t \in Txns, Acts(t) PROVE LocksTypes'
<1>1. LocksTypes /\ (tx[t].pc # "idle" => tx[t] \in Open)
  BY OpenOrIdle DEF LocksInv
<1>2. CASE Begin(t)
  BY <1>1, <1>2, LocksAssumption DEF Begin, LocksTypes, Open, locks
<1>3. ASSUME End(t), edges' \subseteq Row, UNCHANGED ops PROVE LocksTypes'
  BY <1>1, <1>3 DEF End, LocksTypes
<1>4. CASE WriteEdge(t)
  <2>1. CASE Rows(t) = {}
    <3>1. edges' \subseteq Row
      BY <1>4, <2>1, RowsWritten
    <3> QED
      BY <1>3, <1>4, <2>1, <3>1 DEF WriteEdge
  <2>2. CASE Rows(t) # {}
    BY <1>1, <1>3, <1>4, <2>2 DEF WriteEdge, Rollback, LocksTypes
  <2> QED
    BY <2>1, <2>2
<1>5. CASE Remove(t) \/ Deadlock(t) \/ Lost(t)
  BY <1>1, <1>3, <1>5 DEF Remove, Deadlock, Lost, Rollback, LocksTypes
<1>6. CASE LockSubject(t)
  BY <1>1, <1>6 DEF LockSubject, Goto, LocksTypes, Open, Inserting, Deleting
<1>7. CASE ReadBefore(t)
  <2>1. tx[t] \in Open /\ tx[t].o \in Nodes /\ tx[t].p \in Predicates
    BY <1>1, <1>7 DEF ReadBefore, Open
  <2>2. FirstOutgoing(tx[t].o, tx[t].p).root \in Nodes
    BY <1>1, <2>1, FirstOutgoingIs DEF LocksTypes, Row
  <2> QED
    BY <1>1, <1>7, <2>1, <2>2 DEF ReadBefore, LocksTypes, Open, Inserting, locks
<1>8. CASE LockChain(t)
  BY <1>1, <1>8 DEF LockChain, Goto, LocksTypes, Open, Inserting
<1>9. CASE ReadAfter(t)
  <2> DEFINE place == FirstOutgoing(tx[t].o, tx[t].p)
  <2>1. tx[t] \in Open /\ tx[t].o \in Nodes /\ tx[t].p \in Predicates
    BY <1>1, <1>9 DEF ReadAfter, Open
  <2>2. \/ place = [root |-> tx[t].o, depth |-> 0]
        \/ \E e \in edges : place = [root |-> e.root, depth |-> e.depth]
    BY <1>1, <2>1, FirstOutgoingIs
  <2> HIDE DEF place
  <2>3. place.root \in Nodes /\ place.depth + 1 \in Nat
    <3>1. \A e \in edges : e.root \in Nodes /\ e.depth \in Nat
      BY <1>1, LocksAssumption DEF LocksTypes, Row
    <3> QED
      BY <2>1, <2>2, <3>1
  <2>4. CASE Rollback(t)
    BY <1>1, <1>3, <1>9, <2>4 DEF ReadAfter, Rollback, LocksTypes
  <2>5. CASE /\ tx' = [tx EXCEPT ![t].pc = "measure", ![t].root = place.root,
                                 ![t].depth = place.depth + 1]
             /\ UNCHANGED <<edges, locks, ops>>
    BY <1>1, <2>1, <2>3, <2>5 DEF LocksTypes, Open, Inserting, locks
  <2>6. CASE /\ tx' = [tx EXCEPT ![t].pc = "before", ![t].turn = @ + 1]
             /\ UNCHANGED <<edges, locks, ops>>
    BY <1>1, <2>1, <2>6 DEF LocksTypes, Open, Inserting, locks
  <2> QED
    BY <1>9, <2>4, <2>5, <2>6 DEF ReadAfter, place
<1>10. CASE Measure(t)
  <2> DEFINE below == DeepestAt(tx[t].s, tx[t].p)
  <2>1. tx[t] \in Open /\ tx[t].s \in Nodes /\ tx[t].p \in Predicates
    BY <1>1, <1>10 DEF Measure, Open
  <2>2. below \in Nat
    BY <1>1, <2>1, DeepestAtBounds, LocksAssumption
  <2>3. CASE Rollback(t)
    BY <1>1, <1>3, <1>10, <2>3 DEF Measure, Rollback, LocksTypes
  <2> HIDE DEF below
  <2>4. CASE /\ tx' = [tx EXCEPT ![t].pc = "write", ![t].below = below]
             /\ UNCHANGED <<edges, locks, ops>>
    BY <1>1, <2>1, <2>2, <2>4 DEF LocksTypes, Open, Inserting, locks
  <2> QED
    BY <1>10, <2>3, <2>4 DEF Measure, below
<1>11. CASE ReadEdge(t)
  <2>1. tx[t] \in Open
    BY <1>1, <1>11 DEF ReadEdge
  <2>2. CASE Rollback(t)
    BY <1>1, <1>3, <1>11, <2>2 DEF ReadEdge, Rollback, LocksTypes
  <2>3. CASE Goto(t, "count") /\ UNCHANGED <<edges, locks, ops>>
    BY <1>1, <2>1, <2>3 DEF Goto, LocksTypes, Open, Deleting, locks
  <2>4. ASSUME NEW e \in Rows(t), tx' = [tx EXCEPT ![t].pc = "root", ![t].key = e.root],
               UNCHANGED <<edges, locks, ops>>
        PROVE  LocksTypes'
    <3>1. e.root \in Nodes
      BY <1>1 DEF Rows, LocksTypes, Row
    <3> QED
      BY <1>1, <2>1, <2>4, <3>1 DEF LocksTypes, Open, Deleting, locks
  <2> QED
    BY <1>11, <2>2, <2>3, <2>4 DEF ReadEdge
<1>12. CASE LockRoot(t)
  BY <1>1, <1>12 DEF LockRoot, LocksTypes, Open, Deleting
<1>13. CASE Count(t)
  <2>1. CASE Rollback(t)
    BY <1>1, <1>3, <1>13, <2>1 DEF Count, Rollback, LocksTypes
  <2>2. CASE Goto(t, "remove") /\ UNCHANGED <<edges, locks, ops>>
    BY <1>1, <1>13, <2>2 DEF Count, Goto, LocksTypes, Open, Deleting, locks
  <2> QED
    BY <1>13, <2>1, <2>2 DEF Count
<1> QED
  BY <1>2, <1>4, <1>5, <1>6, <1>7, <1>8, <1>9, <1>10, <1>11, <1>12, <1>13 DEF Acts, Step

LEMMA CompatibleStep ==
  ASSUME LocksInv, NEW t \in Txns, Acts(t) PROVE Compatible'
<1>1. LocksTypes /\ Compatible /\ (tx[t].pc # "idle" => tx[t] \in Open)
  BY OpenOrIdle DEF LocksInv
<1>2. \A u \in Txns : u # t => excl'[u] = excl[u] /\ shared'[u] = shared[u]
  BY <1>1, OthersStay
<1>3. CASE excl'[t] \subseteq excl[t] /\ shared'[t] \subseteq shared[t]
  BY <1>1, <1>2, <1>3 DEF Compatible
<1>4. ASSUME NEW n, Locking(t), Free(t), Wants(t) = [node |-> n, mode |-> "exclusive"],
             excl'[t] = excl[t] \cup {n}, shared'[t] = shared[t]
      PROVE  Compatible'
  <2>1. \A u \in Txns : u # t => n \notin excl[u] /\ n \notin shared[u]
    BY <1>4 DEF Free, WaitsFor
  <2> QED
    BY <1>1, <1>2, <1>4, <2>1 DEF Compatible
<1>5. ASSUME NEW n, Locking(t), Free(t), Wants(t) = [node |-> n, mode |-> "shared"],
             shared'[t] = shared[t] \cup {n}, excl'[t] = excl[t]
      PROVE  Compatible'
  <2>1. \A u \in Txns : u # t => n \notin excl[u]
    BY <1>5 DEF Free, WaitsFor
  <2> QED
    BY <1>1, <1>2, <1>5, <2>1 DEF Compatible
<1>6. CASE LockSubject(t)
  BY <1>1, <1>4, <1>6 DEF LockSubject, LocksTypes, Wants, Locking
<1>7. CASE LockChain(t)
  BY <1>1, <1>5, <1>7 DEF LockChain, LocksTypes, Wants, Locking
<1>8. CASE LockRoot(t)
  BY <1>1, <1>4, <1>8 DEF LockRoot, LocksTypes, Wants, Locking
<1>9. CASE End(t)
  BY <1>1, <1>3, <1>9 DEF End, LocksTypes
<1>10. CASE UNCHANGED locks
  BY <1>3, <1>10 DEF locks
<1>11. End(t) \/ UNCHANGED locks \/ LockSubject(t) \/ LockChain(t) \/ LockRoot(t)
  BY DEF Acts, Step, Begin, ReadBefore, ReadAfter, Measure, WriteEdge, ReadEdge, Count, Remove,
     Deadlock, Lost, Rollback, locks
<1> QED
  BY <1>6, <1>7, <1>8, <1>9, <1>10, <1>11

LEMMA UniqueStep ==
  ASSUME LocksInv, NEW t \in Txns, Acts(t) PROVE UniqueRows'
<1>1. UniqueRows
  BY DEF LocksInv
<1>2. CASE edges' = edges \/ Remove(t)
  BY <1>1, <1>2 DEF UniqueRows, Remove
<1>3. CASE WriteEdge(t) /\ Rows(t) = {}
  <2>1. /\ \A x \in edges' : x = NewRow(t) \/ \E e \in edges : x = Moved(t, e)
        /\ \A e \in edges : /\ Moved(t, e).s = e.s /\ Moved(t, e).p = e.p
                            /\ Moved(t, e).o = e.o
    BY <1>3, RowsWritten
  <2>2. NewRow(t).s = tx[t].s /\ NewRow(t).p = tx[t].p /\ NewRow(t).o = tx[t].o
    BY DEF NewRow
  <2>3. \A e \in edges : ~ (e.s = tx[t].s /\ e.p = tx[t].p /\ e.o = tx[t].o)
    BY <1>3 DEF Rows
  <2> QED
    BY <1>1, <2>1, <2>2, <2>3 DEF UniqueRows
<1> QED
  BY <1>2, <1>3, OnlyCommits

LEMMA LocksInvInit ==
  ASSUME Init PROVE LocksInv
<1>1. LocksTypes /\ UniqueRows /\ Compatible
  BY DEF Init, LocksTypes, UniqueRows, Compatible
<1>2. \A t \in Txns : tx[t].pc = "idle"
  BY DEF Init, NoTx
<1> QED
  BY <1>1, <1>2 DEF LocksInv, Holds, Placed, Measured, RootHeld, Counted, Inserting, Deleting

LEMMA LocksInvStep ==
  ASSUME LocksInv, Steady, [Next]_vars PROVE LocksInv'
<1>1. CASE UNCHANGED vars
  BY <1>1 DEF vars, locks, LocksInv, LocksTypes, UniqueRows, Compatible, Holds, Placed, Measured,
     RootHeld, Counted, Rows
<1>2. ASSUME NEW t \in Txns, Acts(t) PROVE LocksInv'
  <2>1. LocksTypes' /\ Compatible' /\ UniqueRows'
    BY <1>2, TypesStep, CompatibleStep, UniqueStep
  <2>2. \A u \in Txns : Good(u)'
    BY <1>2, OwnKeeps, OthersKeep
  <2> QED
    BY <2>1, <2>2 DEF LocksInv, Good
<1> QED
  BY <1>1, <1>2 DEF Next, Acts

\* The locks do what they are for, as long as no delete goes on from a lost root.
THEOREM LocksHold == Spec /\ []Steady => []LocksInv
<1>1. Init => LocksInv
  BY LocksInvInit
<1>2. LocksInv /\ Steady /\ [Next]_vars => LocksInv'
  BY LocksInvStep
<1> QED
  BY <1>1, <1>2, PTL DEF Spec

\* A delete holds the root of the row it removes until its commit: no writer re-roots
\* the chain in between.
THEOREM RootsStayHeld == Spec /\ []Steady => []DeleteHoldsRoot
<1>1. LocksInv => DeleteHoldsRoot
  BY DEF LocksInv, RootHeld, DeleteHoldsRoot
<1> QED
  BY <1>1, LocksHold, PTL

-----------------------------------------------------------------------------
(* The refinement: each commit is a step of EdgePlacement. *)

Bare(e) == [s |-> e.s, p |-> e.p, o |-> e.o, root |-> e.root, depth |-> e.depth]

LEMMA RootedIsBare ==
  /\ Rooted = {Bare(e) : e \in edges}
  /\ \A e : /\ Bare(e).s = e.s /\ Bare(e).p = e.p /\ Bare(e).o = e.o
            /\ Bare(e).root = e.root /\ Bare(e).depth = e.depth
  BY DEF Rooted, Bare

\* Where the UPDATE of insert_edge takes a row of the plane.
MovedBare(r, s, p, root, depth) ==
  IF r.root = s /\ r.p = p THEN [r EXCEPT !.root = root, !.depth = @ + depth] ELSE r

\* Moving a row and forgetting when it was written can be done in either order.
LEMMA MovedIsBare ==
  ASSUME LocksInv, NEW u \in Txns, WriteEdge(u), Rows(u) = {}, NEW e \in edges
  PROVE  Bare(Moved(u, e)) = MovedBare(Bare(e), tx[u].s, tx[u].p, tx[u].root, tx[u].depth)
<1>1. /\ Moved(u, e).s = e.s /\ Moved(u, e).p = e.p /\ Moved(u, e).o = e.o
      /\ e.root = tx[u].s /\ e.p = tx[u].p =>
           Moved(u, e).root = tx[u].root /\ Moved(u, e).depth = e.depth + tx[u].depth
      /\ ~ (e.root = tx[u].s /\ e.p = tx[u].p) => Moved(u, e) = e
  BY RowsWritten
<1> HIDE DEF Moved
<1>2. CASE e.root = tx[u].s /\ e.p = tx[u].p
  BY <1>1, <1>2 DEF Bare, MovedBare
<1>3. CASE ~ (e.root = tx[u].s /\ e.p = tx[u].p)
  BY <1>1, <1>3 DEF Bare, MovedBare
<1> QED
  BY <1>2, <1>3

LEMMA InsertImplements ==
  ASSUME LocksInv, NEW u \in Txns, WriteEdge(u), Rows(u) = {}
  PROVE  Placement!Insert(tx[u].s, tx[u].p, tx[u].o)
<1> DEFINE s == tx[u].s  p == tx[u].p  o == tx[u].o
           root == tx[u].root  depth == tx[u].depth
           new == [s |-> s, p |-> p, o |-> o, root |-> root, depth |-> depth]
<1>1. /\ tx[u] \in Open /\ tx[u].pc = "write" /\ NewRow(u) \in Row
      /\ edges' = {Moved(u, e) : e \in edges} \cup {NewRow(u)}
  BY RowsWritten DEF WriteEdge
<1>2. Holds(u) /\ Placed(u) /\ Measured(u) /\ LocksTypes
  BY DEF LocksInv
<1>3. s # o /\ root # s
  BY <1>1, <1>2 DEF Holds, Measured, Inserting
<1>4. root \in Nodes /\ depth \in 1..MaxDepth
  BY <1>1 DEF NewRow, Row
<1>5. Placement!Offers(o, p, root, depth)
  <2>1. CASE \E f \in edges : f.s = o /\ f.p = p /\ f.root = root /\ depth = f.depth + 1
    <3>1. PICK f \in edges : f.s = o /\ f.p = p /\ f.root = root /\ depth = f.depth + 1
      BY <2>1
    <3>2. Bare(f) \in Placement!Outgoing(o, p)
      BY <3>1, RootedIsBare DEF Placement!Outgoing
    <3> QED
      BY <3>1, <3>2, RootedIsBare DEF Placement!Offers
  <2>2. CASE root = o /\ depth = 1 /\ \A f \in edges : ~ (f.s = o /\ f.p = p)
    <3>1. Placement!Outgoing(o, p) = {}
      BY <2>2, RootedIsBare DEF Placement!Outgoing
    <3> QED
      BY <2>2, <3>1 DEF Placement!Offers
  <2> QED
    BY <1>1, <1>2, <2>1, <2>2 DEF Placed
<1>6. \A r \in Placement!RootedAt(s, p) : r.depth + depth <= MaxDepth
  <2> SUFFICES ASSUME NEW e \in edges, e.root = s, e.p = p PROVE e.depth + depth <= MaxDepth
    BY RootedIsBare DEF Placement!RootedAt
  <2>1. e.depth <= tx[u].below /\ tx[u].below + depth <= MaxDepth
    BY <1>1, <1>2 DEF Measured
  <2>2. e.depth \in Nat /\ tx[u].below \in Nat /\ depth \in Nat /\ MaxDepth \in Nat
    BY <1>1, <1>2, LocksAssumption DEF LocksTypes, Row, Open
  <2> QED
    BY <2>1, <2>2
<1>7. ~ \E r \in Rooted : Placement!IsTriple(r, s, p, o)
  BY RootedIsBare DEF Rows, Placement!IsTriple
<1>8. Rooted' = Placement!Reroot(Rooted, s, p, root, depth) \cup {new}
  <2>1. Placement!Reroot(Rooted, s, p, root, depth)
          = {MovedBare(r, s, p, root, depth) : r \in Rooted}
    BY DEF Placement!Reroot, MovedBare
  <2>2. Rooted' = {Bare(x) : x \in edges'}
    BY DEF Rooted, Bare
  <2>3. Bare(NewRow(u)) = new
    BY DEF Bare, NewRow
  <2>4. \A e \in edges : Bare(Moved(u, e)) = MovedBare(Bare(e), s, p, root, depth)
    BY MovedIsBare
  <2> HIDE DEF new, s, p, o, root, depth
  <2>5. Rooted = {Bare(e) : e \in edges}
    BY RootedIsBare
  <2> QED
    BY <1>1, <2>1, <2>2, <2>3, <2>4, <2>5
<1> QED
  BY <1>3, <1>4, <1>5, <1>6, <1>7, <1>8 DEF Placement!Insert

LEMMA DeleteImplements ==
  ASSUME LocksInv, NEW u \in Txns, Remove(u), Rows(u) # {}
  PROVE  Placement!Delete(tx[u].s, tx[u].p, tx[u].o)
<1>1. tx[u].pc = "remove" /\ edges' = edges \ Rows(u)
  BY DEF Remove
<1>2. PICK f \in Rows(u) : TRUE
  OBVIOUS
<1>3. \A e \in edges : ~ (e.o = tx[u].s /\ e.p = tx[u].p /\ e.root = f.root)
  BY <1>1, <1>2 DEF LocksInv, Counted
<1>4. f \in edges /\ f.s = tx[u].s /\ f.p = tx[u].p /\ f.o = tx[u].o
  BY <1>2 DEF Rows
<1>5. /\ Bare(f) \in Rooted /\ Placement!IsTriple(Bare(f), tx[u].s, tx[u].p, tx[u].o)
      /\ ~ \E r \in Rooted : r.o = tx[u].s /\ r.p = tx[u].p /\ r.root = Bare(f).root
  BY <1>3, <1>4, RootedIsBare DEF Placement!IsTriple
<1>6. Rooted' = {Bare(x) : x \in edges'}
  BY DEF Rooted, Bare
<1>7. Rooted' = {r \in Rooted : ~ Placement!IsTriple(r, tx[u].s, tx[u].p, tx[u].o)}
  <2>1. \A e \in edges : e \in edges' <=> ~ Placement!IsTriple(Bare(e), tx[u].s, tx[u].p, tx[u].o)
    BY <1>1, RootedIsBare DEF Rows, Placement!IsTriple
  <2> QED
    BY <1>1, <1>6, <2>1, RootedIsBare
<1> QED
  BY <1>5, <1>7 DEF Placement!Delete

\* Every step is one insert or one delete of the plane, or leaves it alone.
LEMMA StepImplements ==
  ASSUME LocksInv, [Next]_vars PROVE Rooted' = Rooted \/ Placement!Next
<1>1. CASE edges' = edges
  BY <1>1 DEF Rooted
<1>2. ASSUME NEW u \in Txns, Acts(u), tx[u] \in Open,
             (WriteEdge(u) /\ Rows(u) = {}) \/ (Remove(u) /\ Rows(u) # {})
      PROVE  Placement!Next
  <2>1. tx[u].s \in Nodes /\ tx[u].p \in Predicates /\ tx[u].o \in Nodes
    BY <1>2 DEF Open
  <2> QED
    BY <1>2, <2>1, InsertImplements, DeleteImplements DEF Placement!Next
<1>3. ASSUME NEW u \in Txns, Acts(u) PROVE Rooted' = Rooted \/ Placement!Next
  <2>1. edges' = edges \/ (WriteEdge(u) /\ Rows(u) = {}) \/ (Remove(u) /\ Rows(u) # {})
    BY <1>3, OnlyCommits DEF Remove
  <2>2. WriteEdge(u) \/ Remove(u) => tx[u] \in Open
    BY OpenOrIdle DEF LocksInv, WriteEdge, Remove
  <2> QED
    BY <1>1, <1>2, <1>3, <2>1, <2>2
<1> QED
  BY <1>1, <1>3 DEF Next, Acts, vars

\* The locks make a write of several statements one step of the plane, as long as
\* no delete goes on from a root it has lost.
THEOREM WritesAreAtomic == Spec /\ []Steady => Atomic
<1>1. LocksInv /\ [Next]_vars => [edges' = edges \/ Placement!Next]_Rooted
  BY StepImplements
<1> QED
  BY <1>1, LocksHold, PTL DEF Spec, Atomic

\* The transactions and their locks implement the edge plane they are written for.
THEOREM LocksImplementPlacement == Spec /\ []Steady => Placement!Spec
<1>1. Init => Placement!Init
  BY DEF Init, Placement!Init, Rooted
<1>2. LocksInv /\ [Next]_vars => [Placement!Next]_Rooted
  BY StepImplements
<1> QED
  BY <1>1, <1>2, LocksHold, PTL DEF Spec, Placement!Spec

\* What is proved of the plane holds of the rows the transactions commit.
Proved == INSTANCE EdgePlacementProofs WITH edges <- Rooted

LEMMA PlanesAgree == [Placement!Next]_Rooted <=> [Proved!Next]_Rooted
<1>1. Placement!Next <=> Proved!Next
  BY DEF Placement!Next, Proved!Next, Placement!Insert, Proved!Insert, Placement!Delete,
     Proved!Delete, Placement!Offers, Proved!Offers, Placement!RootedAt, Proved!RootedAt,
     Placement!IsTriple, Proved!IsTriple, Placement!Reroot, Proved!Reroot,
     Placement!Outgoing, Proved!Outgoing
<1> QED
  BY <1>1

\* Whatever the interleaving of the statements, the committed rows describe the
\* chains as they are: every row has its parent one step nearer the same root, and
\* nothing leaves a root.
THEOREM CommittedChainsIntact ==
  Spec /\ []Steady => [](Placement!ChainIntact /\ Placement!RootIsBottom)
<1> USE DEF Placement!Outgoing, Proved!Outgoing
<1>1. /\ Placement!Init <=> Proved!Init
      /\ Placement!ChainIntact <=> Proved!ChainIntact
      /\ Placement!RootIsBottom <=> Proved!RootIsBottom
  BY DEF Placement!Init, Proved!Init, Placement!ChainIntact, Proved!ChainIntact,
     Placement!RootIsBottom, Proved!RootIsBottom
<1>2. [Placement!Next]_Rooted <=> [Proved!Next]_Rooted
  BY PlanesAgree
<1>3. Placement!Spec => Proved!Spec
  BY <1>1, <1>2, PTL DEF Placement!Spec, Proved!Spec
<1>4. MaxDepth \in Nat \ {0}
  BY LocksAssumption
<1>5. Proved!Spec => []Proved!ChainIntact
  BY <1>4, Proved!ChainsStayIntact
<1>6. Proved!Spec => []Proved!RootIsBottom
  BY <1>4, Proved!RootsStayBottom
<1> QED
  BY <1>1, <1>3, <1>5, <1>6, LocksImplementPlacement, PTL

\* "Whatever interleaving Postgres picks, the tree that results is the one an
\* in-order delivery would have produced" (manhattan/src/db_tests.rs:244-246): the
\* committed rows of a forest are where a walk down its edges puts them.
THEOREM CommittedInOrder ==
  ASSUME IsFiniteSet(Nodes) PROVE Spec /\ []Steady => []Placement!InOrderPlacement
<1> USE DEF Placement!Outgoing, Proved!Outgoing
<1>1. Placement!Init <=> Proved!Init
  BY DEF Placement!Init, Proved!Init
<1>2. [Placement!Next]_Rooted <=> [Proved!Next]_Rooted
  BY PlanesAgree
<1>3. Placement!InOrderPlacement <=> Proved!InOrderPlacement
  <2>1. \A S : Placement!Cardinality(S) = Proved!Cardinality(S)
    BY DEF Placement!Cardinality, Proved!Cardinality
  <2>2. \A o, p : Placement!Walk(o, p) = Proved!Walk(o, p)
    <3> DEFINE C == Placement!Cardinality(Nodes)
    <3>1. C = Proved!Cardinality(Nodes)
      BY <2>1
    <3> HIDE DEF C
    <3>2. Placement!Cardinality(Nodes) = C
      BY DEF C
    <3> QED
      BY <3>1, <3>2 DEF Placement!Walk, Proved!Walk
  <2>3. \A p : Placement!IsForest(p) <=> Proved!IsForest(p)
    BY DEF Placement!IsForest, Proved!IsForest
  <2> QED
    BY <2>1, <2>2, <2>3 DEF Placement!InOrderPlacement, Proved!InOrderPlacement
<1>4. Placement!Spec => Proved!Spec
  BY <1>1, <1>2, PTL DEF Placement!Spec, Proved!Spec
<1>5. MaxDepth \in Nat \ {0}
  BY LocksAssumption
<1>6. Proved!IsFiniteSet(Nodes)
  BY DEF Proved!IsFiniteSet, IsFiniteSet
<1>7. Proved!Spec => []Proved!InOrderPlacement
  BY <1>5, <1>6, Proved!OrderDoesNotMatter
<1> QED
  BY <1>3, <1>4, <1>7, LocksImplementPlacement, PTL

-----------------------------------------------------------------------------
(* When a delete keeps up with its root.  Every move of its edge is the commit   *)
(* of another transaction and takes the edge deeper, so the moves it meets are    *)
(* bounded by the depth of the edge and by the transactions that overlap it.      *)

\* The edge has moved since the delete read the root that it locks or has locked.
Behind(t) ==
  (tx[t].pc = "root" \/ tx[t].turn > 0) /\ \E e \in Rows(t) : e.root # tx[t].key

\* How many roots the delete has had to learn since it began, the next one included.
Learnt(t) ==
  tx[t].turn + (IF tx[t].pc = "root" \/ tx[t].turn = 0 THEN 1 ELSE 0)
             + (IF Behind(t) THEN 1 ELSE 0)

Opened == {t \in Txns : tx[t].pc # "idle"}

\* The transactions that can have overlapped t, itself among them: those begun since,
\* and one for each connection when it began.
Overlap(t) ==
  (ops - tx[t].at) +
    (IF tx[t].at < Cardinality(Txns) THEN tx[t].at ELSE Cardinality(Txns))

\* Fewer roots than the edge is deep, ...
Deep(t) ==
  tx[t].pc \in {"edge", "root"} => \A e \in Rows(t) : Learnt(t) <= e.depth

\* ... and than there are transactions that overlap, less those yet to commit.
Paid(t) ==
  tx[t].pc \in {"subject", "edge", "root"} =>
    tx[t].at <= ops /\ Learnt(t) + Cardinality(Opened \ {t}) <= Overlap(t)

PacedInv == Cardinality(Opened) <= ops /\ \A t \in Txns : Deep(t) /\ Paid(t)

\* No delete is overlapped by more transactions than it has turns and is of an edge
\* deeper than that.
Calm ==
  \A t \in Txns : tx[t].pc = "root" =>
    Overlap(t) <= Turns \/ \A e \in Rows(t) : e.depth <= Turns

LEMMA OpenedFinite ==
  ASSUME IsFiniteSet(Txns)
  PROVE  /\ Cardinality(Txns) \in Nat
         /\ \A S \in SUBSET Txns : /\ IsFiniteSet(S) /\ Cardinality(S) \in Nat
                                   /\ Cardinality(S) <= Cardinality(Txns)
BY FS_CardinalityType, FS_Subset

\* One transaction more is open after a Begin, and none after another step.
LEMMA OpenedStep ==
  ASSUME LocksInv, NEW u \in Txns, Acts(u)
  PROVE  \/ Begin(u) /\ u \notin Opened /\ Opened' = Opened \cup {u} /\ ops' = ops + 1
         \/ /\ u \in Opened /\ Opened' \subseteq Opened /\ ops' = ops
            /\ WriteEdge(u) /\ Rows(u) = {} => Opened' = Opened \ {u}
<1> USE DEF LocksInv, Opened
<1>1. LocksTypes /\ \A v \in Txns : v # u => tx'[v] = tx[v]
  BY OthersStay
<1>2. CASE Begin(u)
  <2>1. tx[u].pc = "idle" /\ tx'[u].pc = "subject" /\ ops' = ops + 1
    BY <1>1, <1>2 DEF Begin, LocksTypes
  <2> QED
    BY <1>1, <1>2, <2>1
<1>3. CASE Step(u) \/ Lost(u)
  <2>1. tx[u].pc # "idle"
    BY <1>3 DEF Step, Lost, LockSubject, ReadBefore, LockChain, ReadAfter, Measure, WriteEdge,
       ReadEdge, LockRoot, Count, Remove, Deadlock, InDeadlock, Locking
  <2>2. ops' = ops
    BY <1>3 DEF Step, Lost, LockSubject, ReadBefore, LockChain, ReadAfter, Measure, WriteEdge,
       ReadEdge, LockRoot, Count, Remove, Deadlock
  <2>3. WriteEdge(u) => tx'[u].pc = "idle"
    BY <1>1 DEF WriteEdge, Rollback, End, NoTx, LocksTypes
  <2> QED
    BY <1>1, <2>1, <2>2, <2>3
<1> QED
  BY <1>2, <1>3 DEF Acts

LEMMA LearntIs ==
  ASSUME NEW t \in Txns, tx[t].turn \in Nat
  PROVE  Learnt(t) \in Nat /\ Learnt(t) >= 1 /\ (Behind(t) => Learnt(t) >= tx[t].turn + 1)
BY DEF Learnt

\* Another's step costs a delete at most one more root.
LEMMA LearntOthers ==
  ASSUME NEW t \in Txns, tx[t].turn \in Nat, tx'[t] = tx[t]
  PROVE  /\ Learnt(t)' <= Learnt(t) + 1
         /\ Rows(t)' \subseteq Rows(t) => Learnt(t)' <= Learnt(t)
         /\ Learnt(t)' \in Nat
BY DEF Learnt, Behind

LEMMA DeepOthers ==
  ASSUME LocksInv, NEW t \in Txns, NEW u \in Txns, t # u, Acts(u), Deep(t) PROVE Deep(t)'
<1>1. tx'[t] = tx[t] /\ LocksTypes
  BY OthersStay DEF LocksInv
<1> SUFFICES ASSUME tx[t].pc \in {"edge", "root"}, NEW x \in Rows(t)'
             PROVE  Learnt(t)' <= x.depth
  BY <1>1 DEF Deep
<1>2. /\ tx[t].turn \in Nat /\ tx[t].s \in excl[t]
      /\ \A e \in edges : e.depth \in Nat
  BY OpenOrIdle, LocksAssumption DEF LocksInv, Open, Holds, Deleting, LocksTypes, Row
<1>3. Learnt(t) \in Nat /\ Learnt(t)' \in Nat /\ Learnt(t)' <= Learnt(t) + 1
  BY <1>1, <1>2, LearntIs, LearntOthers
<1>4. CASE Rows(t)' \subseteq Rows(t)
  <2>1. Learnt(t)' <= Learnt(t) /\ x \in Rows(t)
    BY <1>1, <1>2, <1>4, LearntOthers
  <2> QED
    BY <1>2, <1>3, <2>1 DEF Deep, Rows
<1>5. CASE WriteEdge(u) /\ Rows(u) = {}
  <2>1. /\ tx[u] \in Open /\ tx[u].pc = "write" /\ x \in edges'
        /\ x.s = tx[t].s /\ x.p = tx[t].p /\ x.o = tx[t].o
        /\ edges' = {Moved(u, e) : e \in edges} \cup {NewRow(u)}
        /\ \A e \in edges :
             /\ Moved(u, e).s = e.s /\ Moved(u, e).p = e.p /\ Moved(u, e).o = e.o
             /\ e.root = tx[u].s /\ e.p = tx[u].p => Moved(u, e).depth = e.depth + tx[u].depth
             /\ ~ (e.root = tx[u].s /\ e.p = tx[u].p) => Moved(u, e) = e
    BY <1>1, <1>5, RowsWritten DEF Rows, WriteEdge
  <2>2. tx[u].depth \in Nat /\ tx[u].depth >= 1 /\ tx[u].s \in excl[u]
    BY <2>1 DEF LocksInv, Open, Placed, Holds, Inserting
  <2>3. x # NewRow(u)
    BY <1>2, <2>1, <2>2 DEF LocksInv, Compatible, NewRow
  <2> HIDE DEF Moved
  <2>4. PICK e \in edges : x = Moved(u, e)
    BY <2>1, <2>3
  <2>5. e \in Rows(t) /\ \A f \in Rows(t) : f = e
    BY <2>1, <2>4 DEF Rows, LocksInv, UniqueRows
  <2>6. CASE e.root = tx[u].s /\ e.p = tx[u].p
    <3>1. x.depth = e.depth + tx[u].depth /\ Learnt(t) <= e.depth
      BY <2>1, <2>4, <2>5, <2>6 DEF Deep
    <3> QED
      BY <1>2, <1>3, <2>2, <3>1
  <2>7. CASE ~ (e.root = tx[u].s /\ e.p = tx[u].p)
    <3>1. Rows(t)' \subseteq Rows(t)
      <4> SUFFICES ASSUME NEW y \in Rows(t)' PROVE y \in Rows(t)
        OBVIOUS
      <4>1. y \in edges' /\ y.s = tx[t].s /\ y.p = tx[t].p /\ y.o = tx[t].o
        BY <1>1 DEF Rows
      <4>2. y # NewRow(u)
        BY <1>2, <2>2, <4>1 DEF LocksInv, Compatible, NewRow
      <4>3. PICK f \in edges : y = Moved(u, f)
        BY <2>1, <4>1, <4>2
      <4>4. f \in Rows(t)
        BY <2>1, <4>1, <4>3 DEF Rows
      <4>5. f = e /\ y = e
        BY <2>1, <2>5, <2>7, <4>3, <4>4
      <4> QED
        BY <2>5, <4>5
    <3> QED
      BY <3>1, <1>4
  <2> QED
    BY <2>6, <2>7
<1>6. edges' = edges \/ Remove(u) => Rows(t)' \subseteq Rows(t)
  BY <1>1 DEF Rows, Remove
<1> QED
  BY <1>4, <1>5, <1>6, OnlyCommits

LEMMA PaidOthers ==
  ASSUME IsFiniteSet(Txns), LocksInv, NEW t \in Txns, NEW u \in Txns, t # u, Acts(u), Paid(t)
  PROVE  Paid(t)'
<1>1. tx'[t] = tx[t] /\ LocksTypes
  BY OthersStay DEF LocksInv
<1> SUFFICES ASSUME tx[t].pc \in {"subject", "edge", "root"}
             PROVE  tx[t].at <= ops' /\ Learnt(t)' + Cardinality(Opened' \ {t}) <= Overlap(t)'
  BY <1>1 DEF Paid
<1>2. tx[t].turn \in Nat /\ tx[t].at \in Nat /\ ops \in Nat
  BY <1>1, OpenOrIdle DEF LocksTypes, Open
<1>3. /\ Learnt(t) \in Nat /\ Learnt(t)' \in Nat /\ Learnt(t)' <= Learnt(t) + 1
      /\ Rows(t)' \subseteq Rows(t) => Learnt(t)' <= Learnt(t)
  BY <1>1, <1>2, LearntIs, LearntOthers
<1> DEFINE N == Cardinality(Opened \ {t})  M == Cardinality(Opened' \ {t})
           C == Cardinality(Txns)
<1>4. Opened \ {t} \in SUBSET Txns /\ Opened' \ {t} \in SUBSET Txns
  BY DEF Opened
<1>5. N \in Nat /\ M \in Nat /\ C \in Nat /\ IsFiniteSet(Opened \ {t})
  BY <1>4, OpenedFinite
<1>6. tx[t].at <= ops /\ Learnt(t) + N <= Overlap(t)
  BY DEF Paid
<1>7. /\ Overlap(t) \in Int
      /\ ops' = ops => Overlap(t)' = Overlap(t)
      /\ ops' = ops + 1 => Overlap(t)' = Overlap(t) + 1
  BY <1>1, <1>2, <1>5 DEF Overlap
<1>8. CASE Begin(u) /\ u \notin Opened /\ Opened' = Opened \cup {u} /\ ops' = ops + 1
  <2>1. Opened' \ {t} = (Opened \ {t}) \cup {u} /\ u \notin Opened \ {t}
    BY <1>8
  <2>2. M = N + 1
    BY <1>5, <2>1, FS_AddElement
  <2>3. Learnt(t)' <= Learnt(t)
    BY <1>1, <1>3, <1>8 DEF Begin, Rows
  <2> QED
    BY <1>2, <1>3, <1>5, <1>6, <1>7, <1>8, <2>2, <2>3
<1>9. CASE /\ u \in Opened /\ Opened' \subseteq Opened /\ ops' = ops
           /\ WriteEdge(u) /\ Rows(u) = {} => Opened' = Opened \ {u}
  <2>1. M <= N
    <3>1. Opened' \ {t} \in SUBSET (Opened \ {t})
      BY <1>9
    <3> QED
      BY <1>5, <3>1, FS_Subset
  <2>2. CASE Rows(t)' \subseteq Rows(t)
    BY <1>2, <1>3, <1>5, <1>6, <1>7, <1>9, <2>1, <2>2
  <2>3. CASE WriteEdge(u) /\ Rows(u) = {}
    <3>1. Opened' \ {t} = (Opened \ {t}) \ {u} /\ u \in Opened \ {t}
      BY <1>9, <2>3
    <3>2. M = N - 1
      BY <1>5, <3>1, FS_RemoveElement
    <3> QED
      BY <1>2, <1>3, <1>5, <1>6, <1>7, <1>9, <3>2
  <2>4. edges' = edges \/ Remove(u) => Rows(t)' \subseteq Rows(t)
    BY <1>1 DEF Rows, Remove
  <2> QED
    BY <2>2, <2>3, <2>4, OnlyCommits
<1> QED
  BY <1>8, <1>9, OpenedStep

\* A delete learns a new root only when its edge has moved.
LEMMA PacedOwn ==
  ASSUME IsFiniteSet(Txns), LocksInv, PacedInv, NEW t \in Txns, Acts(t)
  PROVE  Deep(t)' /\ Paid(t)'
<1>1. /\ LocksTypes /\ UniqueRows /\ Holds(t) /\ Deep(t) /\ Paid(t)
      /\ Cardinality(Opened) <= ops /\ ops \in Nat
      /\ tx[t].pc # "idle" => tx[t] \in Open /\ tx[t].turn \in Nat /\ tx[t].at \in Nat
      /\ \A e \in edges : e.depth \in Nat /\ e.depth >= 1
  BY OpenOrIdle, LocksAssumption DEF LocksInv, PacedInv, LocksTypes, Row, Open
<1>2. ASSUME tx'[t].pc \notin {"subject", "edge", "root"} PROVE Deep(t)' /\ Paid(t)'
  BY <1>2 DEF Deep, Paid
<1>3. CASE Begin(t)
  <2>1. /\ tx[t].pc = "idle" /\ ops' = ops + 1
        /\ tx'[t].pc = "subject" /\ tx'[t].at = ops + 1 /\ tx'[t].turn = 0
    <3>1. PICK kind \in Kinds, s \in Nodes, o \in Nodes, p \in Predicates :
            tx' = [tx EXCEPT ![t] =
              [pc |-> "subject", kind |-> kind, s |-> s, p |-> p, o |-> o, at |-> ops',
               key |-> s, turn |-> 0, root |-> o, depth |-> 0, below |-> 0]]
      BY <1>3 DEF Begin
    <3>2. tx'[t].pc = "subject" /\ tx'[t].at = ops' /\ tx'[t].turn = 0
      BY <1>1, <3>1 DEF LocksTypes
    <3> QED
      BY <1>3, <3>2 DEF Begin
  <2>2. Learnt(t)' = 1
    BY <2>1 DEF Learnt, Behind
  <2>3. Opened' \ {t} = Opened /\ t \notin Opened
    <3>1. \A u \in Txns : u # t => tx'[u] = tx[u]
      BY <1>1, OthersStay
    <3> QED
      BY <2>1, <3>1 DEF Opened
  <2>4. Cardinality(Opened) \in Nat /\ Cardinality(Opened) + 1 <= Cardinality(Txns)
        /\ Cardinality(Txns) \in Nat
    <3>1. Opened \in SUBSET Txns /\ Opened \cup {t} \in SUBSET Txns
      BY DEF Opened
    <3>2. Cardinality(Opened \cup {t}) = Cardinality(Opened) + 1
      BY <2>3, <3>1, OpenedFinite, FS_AddElement
    <3> QED
      BY <3>1, <3>2, OpenedFinite
  <2>5. 1 + Cardinality(Opened) <= Overlap(t)'
    BY <1>1, <2>1, <2>4 DEF Overlap
  <2>6. Learnt(t)' + Cardinality(Opened' \ {t}) <= Overlap(t)'
    BY <2>2, <2>3, <2>5
  <2>7. Deep(t)'
    BY <2>1 DEF Deep
  <2>8. tx'[t].at <= ops'
    BY <1>1, <2>1
  <2> QED
    BY <2>6, <2>7, <2>8 DEF Paid
<1>4. ASSUME tx[t].pc \in {"subject", "edge", "root"}, tx'[t].pc \in {"edge", "root"},
             Learnt(t)' = Learnt(t), Rows(t)' = Rows(t), tx'[t].at = tx[t].at, ops' = ops,
             tx[t].pc = "subject" => Learnt(t) = 1
      PROVE  Deep(t)' /\ Paid(t)'
  <2>1. Opened' \ {t} = Opened \ {t}
    <3>1. \A u \in Txns : u # t => tx'[u] = tx[u]
      BY <1>1, OthersStay
    <3> QED
      BY <3>1 DEF Opened
  <2>2. Overlap(t)' = Overlap(t)
    BY <1>4 DEF Overlap
  <2>3. Paid(t)'
    BY <1>1, <1>4, <2>1, <2>2 DEF Paid
  <2>4. Deep(t)'
    <3> SUFFICES ASSUME NEW e \in Rows(t) PROVE Learnt(t) <= e.depth
      BY <1>4 DEF Deep
    <3>1. CASE tx[t].pc = "subject"
      BY <1>1, <1>4, <3>1 DEF Rows
    <3>2. CASE tx[t].pc \in {"edge", "root"}
      BY <1>1, <3>2 DEF Deep
    <3> QED
      BY <1>4, <3>1, <3>2
  <2> QED
    BY <2>3, <2>4
<1>5. CASE LockSubject(t)
  <2>1. /\ tx[t].pc = "subject" /\ tx[t].turn = 0 /\ edges' = edges /\ ops' = ops
        /\ tx' = [tx EXCEPT ![t].pc = IF tx[t].kind = "insert" THEN "before" ELSE "edge"]
    BY <1>1, <1>5 DEF LockSubject, Goto, Holds
  <2>2. CASE tx[t].kind = "insert"
    BY <1>1, <1>2, <2>1, <2>2 DEF LocksTypes, Open
  <2>3. CASE tx[t].kind # "insert"
    <3>1. /\ tx'[t].pc = "edge" /\ tx'[t].turn = 0 /\ tx'[t].at = tx[t].at
          /\ tx'[t].s = tx[t].s /\ tx'[t].p = tx[t].p /\ tx'[t].o = tx[t].o
      BY <1>1, <2>1, <2>3 DEF LocksTypes, Open
    <3>2. Learnt(t)' = 1 /\ Learnt(t) = 1
      BY <2>1, <3>1 DEF Learnt, Behind
    <3>3. Rows(t)' = Rows(t)
      BY <2>1, <3>1 DEF Rows
    <3> QED
      BY <1>4, <2>1, <3>1, <3>2, <3>3
  <2> QED
    BY <2>2, <2>3
<1>6. CASE ReadEdge(t)
  <2>1. tx[t].pc = "edge" /\ ops' = ops
    BY <1>6 DEF ReadEdge
  <2>2. CASE Rollback(t)
    BY <1>1, <1>2, <2>2 DEF Rollback, End, LocksTypes, NoTx
  <2>3. CASE Goto(t, "count")
    BY <1>1, <1>2, <2>1, <2>3 DEF Goto, LocksTypes, Open
  <2>4. ASSUME NEW e \in Rows(t), tx' = [tx EXCEPT ![t].pc = "root", ![t].key = e.root],
               ~ (tx[t].turn > 0 /\ e.root = tx[t].key), edges' = edges
        PROVE  Deep(t)' /\ Paid(t)'
    <3>1. /\ tx'[t].pc = "root" /\ tx'[t].key = e.root /\ tx'[t].turn = tx[t].turn
          /\ tx'[t].s = tx[t].s /\ tx'[t].p = tx[t].p /\ tx'[t].o = tx[t].o
          /\ tx'[t].at = tx[t].at
      BY <1>1, <2>1, <2>4 DEF LocksTypes, Open
    <3>2. Rows(t)' = Rows(t) /\ \A f \in Rows(t) : f = e
      BY <1>1, <2>4, <3>1 DEF Rows, UniqueRows
    <3>3. Learnt(t)' = tx[t].turn + 1
      BY <1>1, <2>1, <3>1, <3>2 DEF Learnt, Behind
    <3>4. Learnt(t) = tx[t].turn + 1
      BY <1>1, <2>1, <2>4, <3>2 DEF Learnt, Behind
    <3> QED
      BY <1>4, <2>1, <3>1, <3>2, <3>3, <3>4
  <2> QED
    BY <1>6, <2>2, <2>3, <2>4 DEF ReadEdge
<1>7. CASE LockRoot(t)
  <2>1. tx[t].pc = "root" /\ ops' = ops /\ edges' = edges
    BY <1>7 DEF LockRoot
  <2>2. CASE tx[t].turn + 1 = Turns
    BY <1>1, <1>2, <1>7, <2>1, <2>2 DEF LockRoot, LocksTypes, Open
  <2>3. CASE tx[t].turn + 1 # Turns
    <3>1. /\ tx'[t].pc = "edge" /\ tx'[t].turn = tx[t].turn + 1 /\ tx'[t].key = tx[t].key
          /\ tx'[t].s = tx[t].s /\ tx'[t].p = tx[t].p /\ tx'[t].o = tx[t].o
          /\ tx'[t].at = tx[t].at
      BY <1>1, <1>7, <2>1, <2>3 DEF LockRoot, LocksTypes, Open
    <3>2. Rows(t)' = Rows(t)
      BY <2>1, <3>1 DEF Rows
    <3>3. Behind(t)' <=> Behind(t)
      BY <1>1, <2>1, <3>1, <3>2 DEF Behind
    <3>4. Learnt(t)' = Learnt(t)
      BY <1>1, <2>1, <3>1, <3>3 DEF Learnt
    <3> QED
      BY <1>4, <2>1, <3>1, <3>2, <3>4
  <2> QED
    BY <2>2, <2>3
<1>8. CASE ReadBefore(t) \/ LockChain(t)
  BY <1>1, <1>2, <1>8 DEF ReadBefore, LockChain, Goto, LocksTypes, Open
<1>9. CASE End(t)
  BY <1>1, <1>2, <1>9 DEF End, LocksTypes, NoTx
<1>10. CASE ReadAfter(t) \/ Measure(t) \/ Count(t)
  BY <1>1, <1>2, <1>9, <1>10 DEF ReadAfter, Measure, Count, Rollback, Goto, LocksTypes, Open
<1>11. WriteEdge(t) \/ Remove(t) \/ Deadlock(t) \/ Lost(t) => End(t)
  BY DEF WriteEdge, Remove, Deadlock, Lost, Rollback
<1> QED
  BY <1>3, <1>5, <1>6, <1>7, <1>8, <1>9, <1>10, <1>11 DEF Acts, Step

LEMMA PacedInit == ASSUME IsFiniteSet(Txns), Init PROVE PacedInv
<1>1. Opened = {} /\ \A t \in Txns : tx[t].pc = "idle"
  BY DEF Init, NoTx, Opened
<1>2. Cardinality(Opened) = 0
  BY <1>1, FS_EmptySet
<1> QED
  BY <1>1, <1>2 DEF Init, PacedInv, Deep, Paid

LEMMA PacedStep ==
  ASSUME IsFiniteSet(Txns), LocksInv, PacedInv, [Next]_vars PROVE PacedInv'
<1>1. CASE UNCHANGED vars
  BY <1>1 DEF vars, locks, PacedInv, Opened, Deep, Paid, Learnt, Behind, Overlap, Rows
<1>2. ASSUME NEW u \in Txns, Acts(u) PROVE PacedInv'
  <2>1. \A t \in Txns : Deep(t)' /\ Paid(t)'
    BY <1>2, PacedOwn, DeepOthers, PaidOthers DEF PacedInv
  <2>2. Cardinality(Opened') <= ops'
    <3>1. Opened \in SUBSET Txns /\ Opened' \in SUBSET Txns
      BY DEF Opened
    <3>2. IsFiniteSet(Opened) /\ Cardinality(Opened) \in Nat /\ Cardinality(Opened') \in Nat
      BY <3>1, OpenedFinite
    <3>3. Cardinality(Opened) <= ops /\ ops \in Nat
      BY DEF PacedInv, LocksInv, LocksTypes
    <3>4. CASE u \notin Opened /\ Opened' = Opened \cup {u} /\ ops' = ops + 1
      <4>1. Cardinality(Opened \cup {u}) = Cardinality(Opened) + 1
        BY <3>2, <3>4, FS_AddElement
      <4>2. Cardinality(Opened') = Cardinality(Opened) + 1
        BY <3>4, <4>1
      <4> QED
        BY <3>2, <3>3, <3>4, <4>2
    <3>5. CASE Opened' \subseteq Opened /\ ops' = ops
      BY <3>2, <3>3, <3>5, FS_Subset
    <3> QED
      BY <1>2, <3>4, <3>5, OpenedStep
  <2> QED
    BY <2>1, <2>2 DEF PacedInv
<1> QED
  BY <1>1, <1>2 DEF Next, Acts

LEMMA CalmNow ==
  ASSUME IsFiniteSet(Txns), LocksInv, PacedInv, Calm PROVE Steady
<1> SUFFICES ASSUME NEW t \in Txns, tx[t].pc = "root", tx[t].turn + 1 = Turns,
                    NEW e \in Rows(t), e.root # tx[t].key
             PROVE  FALSE
  BY DEF Steady
<1>1. Learnt(t) = Turns + 1 /\ Turns \in Nat
  BY LocksAssumption DEF Learnt, Behind
<1>2. Learnt(t) <= e.depth /\ Learnt(t) + Cardinality(Opened \ {t}) <= Overlap(t)
  BY DEF PacedInv, Deep, Paid
<1>3. Cardinality(Opened \ {t}) \in Nat
  BY OpenedFinite DEF Opened
<1>4. e.depth \in Nat /\ Overlap(t) \in Int
  <2>1. tx[t].at \in Nat /\ ops \in Nat /\ Cardinality(Txns) \in Nat
    BY OpenOrIdle, OpenedFinite DEF LocksInv, LocksTypes, Open
  <2> QED
    BY <2>1, LocksAssumption DEF LocksInv, LocksTypes, Row, Rows, Overlap
<1>5. Overlap(t) <= Turns \/ e.depth <= Turns
  BY DEF Calm
<1> QED
  BY <1>1, <1>2, <1>3, <1>4, <1>5

\* A delete never goes on from a root it has lost, unless it is of an edge deeper
\* than it has turns and more transactions overlap it than that: with sixteen turns
\* (CHAIN_LOCK_TURNS, db.rs), it takes a chain of seventeen.
THEOREM CalmIsSteady == ASSUME IsFiniteSet(Txns) PROVE Spec /\ []Calm => []Steady
<1>1. Init => LocksInv /\ PacedInv
  BY LocksInvInit, PacedInit
<1>2. LocksInv /\ PacedInv /\ Calm /\ [Next]_vars => LocksInv' /\ PacedInv'
  BY CalmNow, LocksInvStep, PacedStep
<1>3. LocksInv /\ PacedInv /\ Calm => Steady
  BY CalmNow
<1> QED
  BY <1>1, <1>2, <1>3, PTL DEF Spec

\* Under that condition on the load alone, whatever the ceiling and the turns: every write
\* is one step of the plane, and every delete holds the root it counts beneath (insert_edge,
\* delete_edge).
THEOREM CalmIsAtomic ==
  ASSUME IsFiniteSet(Txns)
  PROVE  Spec /\ []Calm => Atomic /\ []DeleteHoldsRoot /\ Placement!Spec
BY CalmIsSteady, WritesAreAtomic, RootsStayHeld, LocksImplementPlacement, PTL

-----------------------------------------------------------------------------
(* Nobody waits for ever, however many transactions wait for one another. *)

\* What the statement t is at asks for before it can be run: the guards of Step.
MayStep(t) ==
  \/ tx[t].pc \in {"before", "measure", "write"} \cup (Deleting \ {"root"})
  \/ /\ tx[t].pc = "after"
     /\ FirstOutgoing(tx[t].o, tx[t].p).root = tx[t].key \/ tx[t].turn < Turns
  \/ Locking(t) /\ (Free(t) \/ InDeadlock(t))

\* Who is not in a transaction holds no lock, and the chain loop's turns are counted.
Tidy(t) ==
  \/ tx[t] = NoTx /\ excl[t] = {} /\ shared[t] = {}
  \/ /\ {"pc", "turn", "key"} \subseteq DOMAIN tx[t]
     /\ tx[t].pc \in {"subject"} \cup Inserting \cup Deleting /\ tx[t].turn \in Nat
     /\ tx[t].pc \in {"subject", "before", "chain", "after"} => tx[t].turn < Turns

TidyInv ==
  /\ DOMAIN tx = Txns /\ DOMAIN excl = Txns /\ DOMAIN shared = Txns
  /\ \A t \in Txns : Tidy(t)

\* Of the nonempty sets of F, one has no smaller one within it.
LEMMA SmallestSubset ==
  ASSUME NEW S, IsFiniteSet(S), NEW F \in SUBSET SUBSET S, F # {}
  PROVE  \E T \in F : \A U \in SUBSET T : U # T => U \notin F
<1>1. IsWellFoundedOn(StrictSubsetOrdering(S), SUBSET S)
  BY FS_StrictSubsetOrderingWellFounded, FS_FiniteSubsetsOfFinite
<1>2. PICK T \in F : \A U \in F : <<U, T>> \notin StrictSubsetOrdering(S)
  BY <1>1, WFMin
<1>3. ASSUME NEW U \in SUBSET T, U # T, U \in F PROVE FALSE
  BY <1>2, <1>3 DEF StrictSubsetOrdering
<1> QED
  BY <1>3

\* Among transactions that wait only for one another, one waits for nobody or is
\* in a deadlock: in the smallest set of them that is closed under waiting, whoever
\* waits, waits for itself.
LEMMA SomeoneFree ==
  ASSUME IsFiniteSet(Txns), NEW O \in SUBSET Txns, O # {},
         \A u \in O, v \in Txns : WaitsFor(u, v) => v \in O
  PROVE  \E t \in O : Free(t) \/ InDeadlock(t)
<1> DEFINE Closed(S) == \A u \in S, v \in Txns : WaitsFor(u, v) => v \in S
           F == {S \in SUBSET Txns : S \subseteq O /\ S # {} /\ Closed(S)}
<1>1. PICK S \in F : \A U \in SUBSET S : U # S => U \notin F
  <2>1. F \in SUBSET SUBSET Txns /\ O \in F
    OBVIOUS
  <2> HIDE DEF F
  <2> QED
    BY <2>1, SmallestSubset
<1>2. PICK t \in S : t \in O /\ t \in Txns
  BY <1>1
<1>3. SUFFICES ASSUME ~ Free(t), ~ InDeadlock(t) PROVE FALSE
  BY <1>2
<1>4. PICK v \in Txns : WaitsFor(t, v)
  BY <1>3 DEF Free
<1>5. Locking(t)
  BY <1>4 DEF WaitsFor
<1>6. PICK T \in SUBSET Txns :
        /\ \A u \in T \cup {t} : \A w \in Txns : WaitsFor(u, w) => w \in T
        /\ t \notin T
  BY <1>3, <1>5 DEF InDeadlock
<1>7. v \in S \cap T
  BY <1>1, <1>2, <1>4, <1>6
<1>8. Closed(S \cap T)
  BY <1>1, <1>6
<1>9. S \cap T \in F
  BY <1>1, <1>7, <1>8
<1> QED
  BY <1>1, <1>2, <1>6, <1>9

LEMMA TidyInit == ASSUME Init PROVE TidyInv
BY DEF Init, TidyInv, Tidy

\* A step leaves its own transaction tidy, and the others as they were.
LEMMA TidyStep ==
  ASSUME TidyInv, [Next]_vars PROVE TidyInv'
<1> USE DEF TidyInv, Tidy, Inserting, Deleting, locks
<1>1. CASE UNCHANGED vars
  BY <1>1 DEF vars
<1>2. ASSUME NEW t \in Txns, End(t) PROVE TidyInv'
  BY <1>2 DEF End, NoTx
<1>3. ASSUME NEW t \in Txns, Begin(t) PROVE TidyInv'
  BY <1>3, LocksAssumption DEF Begin
<1>4. ASSUME NEW t \in Txns, LockSubject(t) \/ ReadBefore(t) \/ LockChain(t) PROVE TidyInv'
  BY <1>4 DEF LockSubject, ReadBefore, LockChain, Goto, NoTx
<1>5. ASSUME NEW t \in Txns, ReadAfter(t) PROVE TidyInv'
  BY <1>2, <1>5, LocksAssumption DEF ReadAfter, Rollback, NoTx
<1>6. ASSUME NEW t \in Txns, Measure(t) PROVE TidyInv'
  BY <1>2, <1>6 DEF Measure, Rollback, NoTx
<1>7. ASSUME NEW t \in Txns, WriteEdge(t) \/ Remove(t) \/ Deadlock(t) \/ Lost(t) PROVE TidyInv'
  BY <1>2, <1>7 DEF WriteEdge, Remove, Deadlock, Lost, Rollback
<1>8. ASSUME NEW t \in Txns, ReadEdge(t) PROVE TidyInv'
  BY <1>2, <1>8 DEF ReadEdge, Rollback, Goto, NoTx
<1>9. ASSUME NEW t \in Txns, LockRoot(t) PROVE TidyInv'
  BY <1>9 DEF LockRoot, NoTx
<1>10. ASSUME NEW t \in Txns, Count(t) PROVE TidyInv'
  BY <1>2, <1>10 DEF Count, Rollback, Goto, NoTx
<1> QED
  BY <1>1, <1>3, <1>4, <1>5, <1>6, <1>7, <1>8, <1>9, <1>10 DEF Next, Step

\* Nobody waits for ever, of any number of connections: while a transaction is
\* open, some transaction has a statement it may run, or is one that Postgres finds
\* to be in a deadlock and aborts (db.rs, lock_node, lock_chain_root, is_deadlock).
THEOREM SomeoneMayStep ==
  ASSUME IsFiniteSet(Txns)
  PROVE  Spec => []((\E t \in Txns : tx[t].pc # "idle") => \E t \in Txns : MayStep(t))
<1>1. ASSUME TidyInv, NEW t \in Txns, tx[t].pc # "idle" PROVE \E u \in Txns : MayStep(u)
  <2> DEFINE O == {u \in Txns : tx[u].pc # "idle"}
  <2>1. ASSUME NEW u \in O, NEW v \in Txns, WaitsFor(u, v) PROVE v \in O
    <3>1. excl[v] # {} \/ shared[v] # {}
      BY <2>1 DEF WaitsFor
    <3> QED
      BY <1>1, <3>1 DEF TidyInv, Tidy, Inserting, Deleting
  <2>2. PICK u \in O : Free(u) \/ InDeadlock(u)
    <3>1. O \in SUBSET Txns /\ O # {}
      BY <1>1
    <3> HIDE DEF O
    <3> QED
      BY <2>1, <3>1, SomeoneFree
  <2>3. MayStep(u)
    <3>1. /\ tx[u].pc \in {"subject"} \cup Inserting \cup Deleting
          /\ tx[u].pc = "after" => tx[u].turn < Turns
      BY <1>1, <2>2 DEF TidyInv, Tidy, NoTx
    <3> QED
      BY <2>2, <3>1 DEF MayStep, Locking, Inserting, Deleting
  <2> QED
    BY <2>3
<1>2. Init => TidyInv
  BY TidyInit
<1>3. TidyInv /\ [Next]_vars => TidyInv'
  BY TidyStep
<1>4. TidyInv => ((\E t \in Txns : tx[t].pc # "idle") => \E t \in Txns : MayStep(t))
  BY <1>1
<1> QED
  BY <1>2, <1>3, <1>4, PTL DEF Spec
=============================================================================
