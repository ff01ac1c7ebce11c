------------------------------ MODULE EdgeLocks ------------------------------
(***************************************************************************)
(* The transactions that write the edge plane, statement by statement, and *)
(* the advisory locks they take (manhattan/src/db.rs: insert_edge,         *)
(* lock_chain_root, delete_edge).  Postgres runs them at READ COMMITTED: a *)
(* read sees what has been committed.  The statements of a write that only *)
(* its own transaction sees (INSERT, re-rooting UPDATE, COMMIT, the locks' *)
(* release) are one step.                                                  *)
(*                                                                         *)
(* A lock's key is the node alone: edges of every predicate share it.  Who *)
(* waits longest has no precedence here.                                   *)
(***************************************************************************)
EXTENDS Integers, FiniteSets

CONSTANTS Nodes, Predicates, MaxDepth,   \* as in EdgePlacement
          Txns,        \* connections, each running one transaction at a time
          Kinds,       \* the writes asked for, a subset of {"insert", "delete"}
          Turns,       \* CHAIN_LOCK_TURNS
          MaxOps       \* bound: transactions begun

ASSUME LocksAssumption ==
  /\ MaxDepth \in Nat \ {0} /\ Turns \in Nat \ {0} /\ MaxOps \in Nat
  /\ Kinds \subseteq {"insert", "delete"}

VARIABLES
  edges,     \* committed rows; at is created_at, which is when a row's transaction began
  tx,        \* each connection's transaction
  excl,      \* exclusive advisory locks held: a set of nodes for each transaction
  shared,    \* shared ones
  ops        \* transactions begun: the clock and its bound

vars  == <<edges, tx, excl, shared, ops>>
locks == <<excl, shared>>

Place == [root : Nodes, depth : Nat]

\* Where a child of n is placed: under n's outgoing edge with the smallest
\* depth, oldest first, or at n itself.
Oldest(es) == {e \in es : \A f \in es : e.depth < f.depth \/ (e.depth = f.depth /\ e.at <= f.at)}

FirstOutgoing(n, p) ==
  LET out == {e \in edges : e.s = n /\ e.p = p}
  IN IF out = {} THEN [root |-> n, depth |-> 0]
     ELSE LET e == CHOOSE e \in Oldest(out) : TRUE IN [root |-> e.root, depth |-> e.depth]

\* The depth of the deepest edge rooted at n; 0 when there is none.
DeepestAt(n, p) ==
  CHOOSE d \in 0..MaxDepth :
    LET tree == {e \in edges : e.root = n /\ e.p = p}
    IN IF tree = {} THEN d = 0
       ELSE (\E e \in tree : e.depth = d) /\ \A e \in tree : e.depth <= d

Rows(t) == {e \in edges : e.s = tx[t].s /\ e.p = tx[t].p /\ e.o = tx[t].o}

\* What t is waiting to lock, and who stands in its way.
Wants(t) ==
  CASE tx[t].pc = "subject" -> [node |-> tx[t].s, mode |-> "exclusive"]
    [] tx[t].pc = "chain"   -> [node |-> tx[t].key, mode |-> "shared"]
    [] tx[t].pc = "root"    -> [node |-> tx[t].key, mode |-> "exclusive"]

Locking(t) == tx[t].pc \in {"subject", "chain", "root"}

WaitsFor(t, u) ==
  /\ t # u /\ Locking(t)
  /\ \/ Wants(t).node \in excl[u]
     \/ Wants(t).mode = "exclusive" /\ Wants(t).node \in shared[u]

Free(t) == \A u \in Txns : ~ WaitsFor(t, u)

NoTx == [pc |-> "idle"]

Init ==
  /\ edges = {} /\ ops = 0
  /\ tx = [t \in Txns |-> NoTx]
  /\ excl = [t \in Txns |-> {}] /\ shared = [t \in Txns |-> {}]

-----------------------------------------------------------------------------
Goto(t, pc) == tx' = [tx EXCEPT ![t].pc = pc]

\* Mutant of End: locks of the session, which outlast the transaction.
EndUnreleased(t) == tx' = [tx EXCEPT ![t] = NoTx] /\ UNCHANGED locks

\* The transaction is over, one way or the other, and with it go its locks.
End(t) ==
  /\ tx' = [tx EXCEPT ![t] = NoTx]
  /\ excl' = [excl EXCEPT ![t] = {}] /\ shared' = [shared EXCEPT ![t] = {}]

Rollback(t) == End(t) /\ UNCHANGED edges

Begin(t) ==
  /\ tx[t].pc = "idle" /\ ops < MaxOps
  /\ ops' = ops + 1
  /\ \E kind \in Kinds, s, o \in Nodes, p \in Predicates :
       /\ s # o                                        \* edge_self_reference
       /\ tx' = [tx EXCEPT ![t] =
            [pc |-> "subject", kind |-> kind, s |-> s, p |-> p, o |-> o, at |-> ops',
             key |-> s, turn |-> 0, root |-> o, depth |-> 0, below |-> 0]]
  /\ UNCHANGED <<edges, locks>>

\* lock_node(subject)
LockSubject(t) ==
  /\ tx[t].pc = "subject" /\ Free(t)
  /\ excl' = [excl EXCEPT ![t] = @ \cup {tx[t].s}]
  /\ Goto(t, IF tx[t].kind = "insert" THEN "before" ELSE "edge")
  /\ UNCHANGED <<edges, shared, ops>>

\* lock_chain_root: learn the root of the object's chain, ...
ReadBefore(t) ==
  /\ tx[t].pc = "before"
  /\ tx' = [tx EXCEPT ![t].pc = "chain", ![t].key = FirstOutgoing(tx[t].o, tx[t].p).root]
  /\ UNCHANGED <<edges, locks, ops>>

\* ... lock it, ...
LockChain(t) ==
  /\ tx[t].pc = "chain" /\ Free(t)
  /\ shared' = [shared EXCEPT ![t] = @ \cup {tx[t].key}]
  /\ Goto(t, "after")
  /\ UNCHANGED <<edges, excl, ops>>

\* ... and read it again: only a root that survived the lock counts.
ReadAfter(t) ==
  /\ tx[t].pc = "after"
  /\ LET place == FirstOutgoing(tx[t].o, tx[t].p)
     IN \/ /\ place.root = tx[t].key
           /\ tx' = [tx EXCEPT ![t].pc = "measure", ![t].root = place.root,
                               ![t].depth = place.depth + 1]
           /\ UNCHANGED <<edges, locks>>
        \/ /\ place.root # tx[t].key /\ tx[t].turn + 1 < Turns
           /\ tx' = [tx EXCEPT ![t].pc = "before", ![t].turn = @ + 1]
           /\ UNCHANGED <<edges, locks>>
        \/ /\ place.root # tx[t].key /\ tx[t].turn + 1 = Turns
           /\ Rollback(t)                                          \* Contended
  /\ UNCHANGED ops

\* The cycle and depth refusals; how deep the tree below the subject reaches.
Measure(t) ==
  /\ tx[t].pc = "measure"
  /\ LET below == DeepestAt(tx[t].s, tx[t].p)
     IN IF tx[t].root = tx[t].s \/ below + tx[t].depth > MaxDepth
        THEN Rollback(t)                                     \* Cycle, TooDeep
        ELSE /\ tx' = [tx EXCEPT ![t].pc = "write", ![t].below = below]
             /\ UNCHANGED <<edges, locks>>
  /\ UNCHANGED ops

\* A row moved along with the tree it hangs in.
Moved(t, e) ==
  IF tx[t].below > 0 /\ e.root = tx[t].s /\ e.p = tx[t].p
  THEN [e EXCEPT !.root = tx[t].root, !.depth = @ + tx[t].depth] ELSE e

WriteEdge(t) ==
  /\ tx[t].pc = "write"
  /\ IF Rows(t) # {} THEN Rollback(t)                               \* Duplicate
     ELSE /\ edges' = {Moved(t, e) : e \in edges}
                        \cup {[s |-> tx[t].s, p |-> tx[t].p, o |-> tx[t].o,
                               root |-> tx[t].root, depth |-> tx[t].depth, at |-> tx[t].at]}
          /\ End(t)
  /\ UNCHANGED ops

-----------------------------------------------------------------------------
\* Mutant of ReadEdge: the loop ends at the first lock, without a second look.
ReadEdgeOnce(t) ==
  /\ tx[t].pc = "edge"
  /\ \/ Rows(t) = {} /\ Rollback(t)
     \/ \E e \in Rows(t) :
          /\ IF tx[t].turn > 0 THEN Goto(t, "count")
             ELSE tx' = [tx EXCEPT ![t].pc = "root", ![t].key = e.root]
          /\ UNCHANGED <<edges, locks>>
  /\ UNCHANGED ops

\* delete_edge: learn the root the edge hangs from.  At the root locked last,
\* the loop is over.
ReadEdge(t) ==
  /\ tx[t].pc = "edge"
  /\ \/ Rows(t) = {} /\ Rollback(t)                                 \* NotFound
     \/ \E e \in Rows(t) :
          /\ IF tx[t].turn > 0 /\ e.root = tx[t].key THEN Goto(t, "count")
             ELSE tx' = [tx EXCEPT ![t].pc = "root", ![t].key = e.root]
          /\ UNCHANGED <<edges, locks>>
  /\ UNCHANGED ops

\* lock_node(root).  The loop also ends, unverified, when its turns run out.
LockRoot(t) ==
  /\ tx[t].pc = "root" /\ Free(t)
  /\ excl' = [excl EXCEPT ![t] = @ \cup {tx[t].key}]
  /\ tx' = [tx EXCEPT ![t].pc = IF tx[t].turn + 1 = Turns THEN "count" ELSE "edge",
                      ![t].turn = @ + 1]
  /\ UNCHANGED <<edges, shared, ops>>

\* Mutant of Count: nothing beneath the edge is looked for.
CountNothing(t) ==
  tx[t].pc = "count" /\ Goto(t, "remove") /\ UNCHANGED <<edges, locks, ops>>

Count(t) ==
  /\ tx[t].pc = "count"
  /\ IF \E e \in edges : e.o = tx[t].s /\ e.p = tx[t].p
     THEN Rollback(t)                                         \* HasDescendants
     ELSE Goto(t, "remove") /\ UNCHANGED <<edges, locks>>
  /\ UNCHANGED ops

Remove(t) ==
  /\ tx[t].pc = "remove"
  /\ edges' = edges \ Rows(t)
  /\ End(t)
  /\ UNCHANGED ops

-----------------------------------------------------------------------------
\* t waits, through others, for itself: it is in every set that holds whomever t
\* waits for and, with each of its members, whomever that one waits for.
InDeadlock(t) ==
  /\ Locking(t)
  /\ \A S \in SUBSET Txns :
       (\A u \in S \cup {t} : \A v \in Txns : WaitsFor(u, v) => v \in S) => t \in S

\* Postgres aborts a transaction of a deadlock.
Deadlock(t) == InDeadlock(t) /\ Rollback(t) /\ UNCHANGED ops

\* The connection or the process is lost before the commit.
Lost(t) == tx[t].pc # "idle" /\ Rollback(t) /\ UNCHANGED ops

Step(t) ==
  \/ LockSubject(t) \/ ReadBefore(t) \/ LockChain(t) \/ ReadAfter(t) \/ Measure(t)
  \/ WriteEdge(t) \/ ReadEdge(t) \/ LockRoot(t) \/ Count(t) \/ Remove(t) \/ Deadlock(t)

Next == \E t \in Txns : Begin(t) \/ Step(t) \/ Lost(t)

Spec == Init /\ [][Next]_vars

\* The database runs a statement that was sent and that nothing blocks, and finds
\* a deadlock.  Nothing makes callers begin a transaction, nor lose one.
Fairness == \A t \in Txns : WF_vars(Step(t))

-----------------------------------------------------------------------------
\* The rows as EdgePlacement has them.
Rooted == {[s |-> e.s, p |-> e.p, o |-> e.o, root |-> e.root, depth |-> e.depth] : e \in edges}

Placement == INSTANCE EdgePlacement WITH edges <- Rooted

\* Every commit is one insert or one delete of the edge plane, and every other
\* step leaves it alone: the locks make a write of several statements atomic.
\* (The first disjunct says no more than the subscript; it spares TLC the second.)
Atomic == [][edges' = edges \/ Placement!Next]_Rooted

\* The root a delete counts beneath is the root it has locked: nothing can be
\* placed in the tree between its count and its commit (delete_edge, "re-read
\* after locking, because the chain can be re-rooted between").
DeleteHoldsRoot ==
  \A t \in Txns : tx[t].pc \in {"count", "remove"} =>
    \A e \in Rows(t) : e.root \in excl[t]

\* Liveness: every write ends.  Whatever the writes that were asked for wait for, and
\* whoever of them is in a deadlock, in the end no transaction is open: each commits,
\* is refused, or is aborted (insert_edge, "Postgres resolves that by aborting one of
\* them"; pg_advisory_xact_lock, whose locks go with their transaction).
EveryWriteEnds == []<>(\A t \in Txns : tx[t].pc = "idle")
=============================================================================
