----------------------------- MODULE NameBinding -----------------------------
(***************************************************************************)
(* The name plane: the transactions that bind and retire names             *)
(* (manhattan/src/main.rs: op_create_node, op_create_name, op_revoke_name, *)
(* create_address, create_number and their revokes; manhattan/src/db.rs:   *)
(* lock_name, may_bind_name), statement by statement.  At READ COMMITTED a *)
(* statement reads what has been committed, an UPDATE waits for whoever    *)
(* has updated its row, an INSERT for whoever has inserted or updated a    *)
(* row that collides with its own.  NOW() is when the transaction began.   *)
(*                                                                         *)
(* What a caller may name and what a Number costs (authority, cap, pacing) *)
(* is settled before these transactions begin and is not modelled here.    *)
(***************************************************************************)
EXTENDS Integers, FiniteSets

CONSTANTS Names,
          Rule,            \* what a name's namespace says of a retired name:
                           \* "never", "immediate" or "hold" (namespace_authorities)
          Hold,            \* quarantine_seconds of the names on hold
          Identities, NoOne,
          Txns,            \* connections, each running one transaction at a time
          MaxOps, MaxNow   \* bounds: requests served, clock

ASSUME NamesAssumption ==
  /\ Rule \in [Names -> {"never", "immediate", "hold"}]
  /\ Hold \in Nat \ {0} /\ MaxOps \in Nat /\ MaxNow \in Nat
  /\ NoOne \notin Identities

VARIABLES
  rows,      \* the names table: a row's id is that of the request that wrote it
  nodes,     \* the nodes table, with the identity each resolves_to
  tx,        \* each connection's transaction
  ops,       \* requests served, bounded by MaxOps
  now        \* the database's clock

vars == <<rows, nodes, tx, ops, now>>

NoTx == [pc |-> "idle"]

\* One node exists before anything is named.
Init ==
  /\ rows = {} /\ nodes = {[id |-> 0, who |-> NoOne, active |-> TRUE]}
  /\ tx = [t \in Txns |-> NoTx] /\ ops = 0 /\ now = 0

Binds(t) == tx[t].op \in {"bind", "create", "mint", "reclaim"}

Resolves(node, who) == [id |-> node, who |-> who, active |-> TRUE] \in nodes
                         \/ [id |-> node, who |-> who, active |-> FALSE] \in nodes

Retired(n) == {r \in rows : r.name = n /\ ~ r.live}

\* Mutant of MayBind: the hold runs from when the name was bound.
MayBindAgain(n, who, at) ==
  \/ Retired(n) = {}
  \/ Rule[n] = "immediate"
  \/ /\ Rule[n] = "hold"
     /\ \/ who # NoOne /\ \A r \in Retired(n) : Resolves(r.node, who)
        \/ \A r \in Retired(n) : r.at + Hold <= at

\* may_bind_name: the namespace's rule, the waiver for the one identity that
\* ever held the name, and otherwise the hold.
MayBind(n, who, at) ==
  \/ Retired(n) = {}
  \/ Rule[n] = "immediate"
  \/ /\ Rule[n] = "hold"
     /\ \/ who # NoOne /\ \A r \in Retired(n) : Resolves(r.node, who)
        \/ \A r \in Retired(n) : r.revoked + Hold <= at

-----------------------------------------------------------------------------
Goto(t, pc) == tx' = [tx EXCEPT ![t].pc = pc]

Rollback(t) == tx' = [tx EXCEPT ![t] = NoTx] /\ UNCHANGED <<rows, nodes>>

Ask(t, pc, op, n, node, who, primary) ==
  tx' = [tx EXCEPT ![t] =
    [pc |-> pc, op |-> op, name |-> n, id |-> ops', node |-> node, who |-> who,
     primary |-> primary, at |-> now, hit |-> {}]]

\* A request: what it asks for, and what it reads before it begins a transaction.
\* One that reads nothing the transaction relies on has begun it here.
Request(t) ==
  /\ tx[t].pc = "idle" /\ ops < MaxOps
  /\ ops' = ops + 1
  /\ \E n \in Names :
       \* op_create_name names a node that exists, op_create_node a new one
       \/ \E node \in nodes, primary \in BOOLEAN :
            Ask(t, "lock", "bind", n, node.id, NoOne, primary)
       \/ Ask(t, "lock", "create", n, ops', NoOne, TRUE)
       \* create_address, create_number: a draw; its node resolves to an identity
       \/ \E i \in Identities : Rule[n] # "immediate" /\ Ask(t, "lock", "mint", n, ops', i, TRUE)
       \* create_number with reclaim: name_was_held_by
       \/ \E r \in Retired(n), i \in Identities :
            /\ Rule[n] = "hold" /\ Resolves(r.node, i)
            /\ Ask(t, "asked", "reclaim", n, ops', i, TRUE)
       \* op_revoke_name, and the revokes that retire the node too: fetch_name
       \/ \E r \in rows, op \in {"retire", "revoke"} :
            /\ r.name = n /\ r.live
            /\ op = "revoke" => Rule[n] # "immediate"
            /\ Ask(t, "asked", op, n, r.node, NoOne, FALSE)
  /\ UNCHANGED <<rows, nodes, now>>

Begin(t) ==
  /\ tx[t].pc = "asked"
  /\ tx' = [tx EXCEPT ![t].pc = "lock", ![t].at = now]
  /\ UNCHANGED <<rows, nodes, ops, now>>

HoldsName(u, n) == tx[u].pc \notin {"idle", "asked", "lock"} /\ tx[u].name = n

\* Mutant of LockName: a revoke trusts its UPDATE and takes no lock.
LockNameToBind(t) ==
  /\ tx[t].pc = "lock"
  /\ Binds(t) => \A u \in Txns : ~ HoldsName(u, tx[t].name)
  /\ Goto(t, IF Binds(t) THEN "verdict" ELSE "retire")
  /\ UNCHANGED <<rows, nodes, ops, now>>

LockName(t) ==
  /\ tx[t].pc = "lock"
  /\ \A u \in Txns : ~ HoldsName(u, tx[t].name)
  /\ Goto(t, IF Binds(t) THEN "verdict" ELSE "retire")
  /\ UNCHANGED <<rows, nodes, ops, now>>

Reclaimer(t) == IF tx[t].op = "reclaim" THEN tx[t].who ELSE NoOne

\* Only "make this the primary" (op_create_name) has an incumbent to demote.
Verdict(t) ==
  /\ tx[t].pc = "verdict"
  /\ IF MayBind(tx[t].name, Reclaimer(t), tx[t].at)
     THEN /\ Goto(t, IF tx[t].op = "bind" /\ tx[t].primary THEN "demote" ELSE "insert")
          /\ UNCHANGED <<rows, nodes>>
     ELSE Rollback(t)
  /\ UNCHANGED <<ops, now>>

\* The rows u has updated and not committed yet.
RowLocks(u) == IF tx[u].pc \in {"insert", "commit"} THEN tx[u].hit ELSE {}

Untouched(t, ids) == \A u \in Txns \ {t} : RowLocks(u) \cap ids = {}

\* The demoting UPDATE finds its rows in its snapshot, ...
FindPrimary(t) ==
  /\ tx[t].pc = "demote"
  /\ tx' = [tx EXCEPT ![t].pc = "demoting",
              ![t].hit = {r.id : r \in {r \in rows : r.node = tx[t].node /\ r.primary}}]
  /\ UNCHANGED <<rows, nodes, ops, now>>

\* ... and updates those that, once it has them, still are primary.
Demote(t) ==
  /\ tx[t].pc = "demoting" /\ Untouched(t, tx[t].hit)
  /\ tx' = [tx EXCEPT ![t].pc = "insert",
              ![t].hit = {r.id : r \in {r \in rows : r.id \in tx[t].hit /\ r.primary}}]
  /\ UNCHANGED <<rows, nodes, ops, now>>

-----------------------------------------------------------------------------
\* The unique indexes: one live row of a name, one primary row of a node.
InTheWay(t) ==
  {r \in rows : \/ r.live /\ r.name = tx[t].name
                \/ r.primary /\ tx[t].primary /\ r.node = tx[t].node /\ r.id \notin tx[t].hit}

Insert(t) ==
  /\ tx[t].pc = "insert"
  /\ \A u \in Txns \ {t} : tx[u].pc = "commit" /\ Binds(u) =>
       tx[u].name # tx[t].name /\ (tx[u].node = tx[t].node => ~ (tx[u].primary /\ tx[t].primary))
  /\ Untouched(t, {r.id : r \in InTheWay(t)})
  /\ IF InTheWay(t) = {} THEN Goto(t, "commit") /\ UNCHANGED <<rows, nodes>>
     ELSE Rollback(t)                                             \* name_exists
  /\ UNCHANGED <<ops, now>>

\* The insert, the demotion and a new node become visible together.
CommitBind(t) ==
  /\ tx[t].pc = "commit" /\ Binds(t)
  /\ rows' = {IF r.id \in tx[t].hit THEN [r EXCEPT !.primary = FALSE] ELSE r : r \in rows}
               \cup {[id |-> tx[t].id, name |-> tx[t].name, node |-> tx[t].node,
                      primary |-> tx[t].primary, live |-> TRUE, at |-> tx[t].at, revoked |-> 0]}
  /\ nodes' = IF tx[t].op = "bind" THEN nodes
              ELSE nodes \cup {[id |-> tx[t].node, who |-> tx[t].who, active |-> TRUE]}
  /\ tx' = [tx EXCEPT ![t] = NoTx]
  /\ UNCHANGED <<ops, now>>

\* Mutant of Retire: the UPDATE is not scoped to the live row.
RetireAll(t) ==
  /\ tx[t].pc = "retire"
  /\ LET held == {r.id : r \in {r \in rows : r.name = tx[t].name}}
     IN /\ Untouched(t, held)
        /\ IF held = {} THEN Rollback(t)
           ELSE tx' = [tx EXCEPT ![t].pc = "commit", ![t].hit = held] /\ UNCHANGED <<rows, nodes>>
  /\ UNCHANGED <<ops, now>>

\* The retiring UPDATE: whatever row of the name is live by now.
Retire(t) ==
  /\ tx[t].pc = "retire"
  /\ LET held == {r.id : r \in {r \in rows : r.name = tx[t].name /\ r.live}}
     IN /\ Untouched(t, held)
        /\ IF held = {} THEN Rollback(t)                   \* name_already_revoked
           ELSE tx' = [tx EXCEPT ![t].pc = "commit", ![t].hit = held] /\ UNCHANGED <<rows, nodes>>
  /\ UNCHANGED <<ops, now>>

\* revoke_address and revoke_number retire the node they read at first too.
CommitRevoke(t) ==
  /\ tx[t].pc = "commit" /\ ~ Binds(t)
  /\ rows' = {IF r.id \in tx[t].hit
              THEN [r EXCEPT !.live = FALSE, !.primary = FALSE, !.revoked = tx[t].at] ELSE r : r \in rows}
  /\ nodes' = {IF tx[t].op = "revoke" /\ n.id = tx[t].node THEN [n EXCEPT !.active = FALSE] ELSE n : n \in nodes}
  /\ tx' = [tx EXCEPT ![t] = NoTx]
  /\ UNCHANGED <<ops, now>>

\* The connection or the process is lost before the commit.
Lost(t) == tx[t].pc # "idle" /\ Rollback(t) /\ UNCHANGED <<ops, now>>

Tick == now < MaxNow /\ now' = now + 1 /\ UNCHANGED <<rows, nodes, tx, ops>>

Step(t) ==
  \/ Begin(t) \/ LockName(t) \/ Verdict(t) \/ FindPrimary(t) \/ Demote(t)
  \/ Insert(t) \/ CommitBind(t) \/ Retire(t) \/ CommitRevoke(t)

Next == (\E t \in Txns : Request(t) \/ Step(t) \/ Lost(t)) \/ Tick

Spec == Init /\ [][Next]_vars

-----------------------------------------------------------------------------
Row == [id : 1..MaxOps, name : Names, node : 0..MaxOps, primary : BOOLEAN, live : BOOLEAN,
        at : 0..MaxNow, revoked : 0..MaxNow]

Node == [id : 0..MaxOps, who : Identities \cup {NoOne}, active : BOOLEAN]

Tx == [pc : {"asked", "lock", "verdict", "demote", "demoting", "insert", "retire", "commit"},
       op : {"bind", "create", "mint", "reclaim", "retire", "revoke"}, name : Names,
       id : 1..MaxOps, node : 0..MaxOps, who : Identities \cup {NoOne}, primary : BOOLEAN,
       at : 0..MaxNow, hit : SUBSET (1..MaxOps)]

TypeOK ==
  /\ rows \subseteq Row /\ nodes \subseteq Node
  /\ \A r \in rows : r.primary => r.live
  /\ tx \in [Txns -> Tx \cup {NoTx}]
  /\ ops \in 0..MaxOps /\ now \in 0..MaxNow

\* A name of a namespace that never reissues is bound once in its life, whatever
\* binds, revokes and lost connections race for it (may_bind_name, "never").
NeverReissued ==
  \A r, q \in rows : r.name = q.name /\ Rule[r.name] = "never" => r = q

\* A retired Number reaches nobody but the one identity that ever held it
\* before its hold has run out (may_bind_name, "Self-reclaim"): whatever row
\* appears, its transaction began after the hold of each retired one, or both
\* resolve to one identity.
QuarantineHeld ==
  [][\A q \in rows' : \A r \in rows :
       /\ q.id \notin {p.id : p \in rows}
       /\ r.name = q.name /\ Rule[r.name] = "hold" /\ q.at < r.revoked + Hold
       => \E i \in Identities : Resolves(r.node, i)' /\ Resolves(q.node, i)']_rows

\* "Inside the transaction and behind the name lock, so the answer is still true
\* when the insert below runs" (op_create_name): between its verdict and its
\* commit nothing a bind was told can become false.
VerdictStands ==
  \A t \in Txns : tx[t].pc \in {"demote", "demoting", "insert", "commit"} /\ Binds(t) =>
    MayBind(tx[t].name, Reclaimer(t), tx[t].at)

\* A retired binding is history: no later write re-stamps, revives or drops it
\* (op_revoke_name, "only the LIVE row is retired").
HistoryKept == [][\A r \in rows : ~ r.live => r \in rows']_rows

\* The name plane as those who name things know it.
Promised == INSTANCE Registry WITH Ids <- 1..MaxOps, Times <- 0..MaxNow

\* Whatever transactions race, each commit binds one free name as its rule allows at
\* that moment, or retires one live binding, and nothing else changes what is bound:
\* two binds of a name, two primaries of a node and a verdict that has gone stale
\* are all told by the time of the commit.  (The first disjunct says no more than the
\* subscript; it spares TLC the second.)
ByTheRule ==
  /\ Promised!Init
  /\ [][UNCHANGED <<rows, nodes>> \/ Promised!Next]_<<rows, nodes>>
=============================================================================
