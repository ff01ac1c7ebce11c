--------------------------- MODULE NameBindingProofs ---------------------------
(***************************************************************************)
(* What the name plane promises of a retired name, for any names, rules,   *)
(* holds and connections and any number of requests.  The name lock makes  *)
(* a verdict last until its commit; the row locks keep every row a         *)
(* transaction has touched live until it commits; together they make the   *)
(* history of a name something no later transaction can rewrite.           *)
(***************************************************************************)
EXTENDS NameBinding, TLAPS

Active(t) == tx[t].pc # "idle"

Busy(t) == tx[t].pc \notin {"idle", "asked", "lock"}

Ids == {r.id : r \in rows}

\* Which step a request can be at, and from where on it has touched rows.
Staged(t) ==
  /\ tx[t].pc \in {"verdict", "demote", "demoting", "insert"} => Binds(t)
  /\ tx[t].pc = "retire" => ~ Binds(t)
  /\ tx[t].pc \in {"asked", "lock", "verdict", "demote", "retire"} => tx[t].hit = {}

\* What t has touched exists; what it has locked is live, and of its name if t retires it.
Touched(t) ==
  /\ tx[t].hit \subseteq Ids
  /\ \A r \in rows : r.id \in RowLocks(t) =>
       r.live /\ (tx[t].pc = "commit" /\ ~ Binds(t) => r.name = tx[t].name)

\* A row that has been inserted and not committed is the only live one of its name.
Vacant(t) ==
  tx[t].pc = "commit" /\ Binds(t) => \A r \in rows : r.live => r.name # tx[t].name

Told(t) ==
  tx[t].pc \in {"demote", "demoting", "insert", "commit"} /\ Binds(t) =>
    MayBind(tx[t].name, Reclaimer(t), tx[t].at)

TxOK(t) ==
  Active(t) =>
    /\ tx[t].id <= ops /\ tx[t].id \notin Ids
    /\ Staged(t) /\ Touched(t) /\ Vacant(t) /\ Told(t)

PairOK(t, u) ==
  t # u /\ Active(t) /\ Active(u) =>
    /\ tx[t].id # tx[u].id
    /\ Busy(t) /\ Busy(u) => tx[t].name # tx[u].name
    /\ RowLocks(t) \cap RowLocks(u) = {}

RowsOK ==
  /\ \A r, q \in rows : r.id = q.id => r = q
  /\ \A r \in rows : r.id <= ops

NameInv ==
  /\ TypeOK /\ RowsOK /\ NeverReissued
  /\ \A t \in Txns : TxOK(t)
  /\ \A t, u \in Txns : PairOK(t, u)

LEMMA InitEstablishes == Init => NameInv
BY NamesAssumption DEF Init, NameInv, TypeOK, RowsOK, NeverReissued, TxOK, PairOK, Active, NoTx, Tx, Node, Row

-----------------------------------------------------------------------------
\* A transaction in progress has all its fields, and advancing it keeps them.
LEMMA TxTyped ==
  ASSUME TypeOK, NEW t \in Txns, Active(t)
  PROVE  tx[t] \in Tx
BY DEF TypeOK, Active, NoTx

LEMMA StepKeepsType ==
  ASSUME TypeOK, rows' = rows, nodes' = nodes, now' = now, ops' \in 0..MaxOps,
         NEW t \in Txns, NEW x \in Tx \cup {NoTx}, tx' = [tx EXCEPT ![t] = x]
  PROVE  TypeOK'
BY DEF TypeOK

LEMMA TypeStep == TypeOK /\ [Next]_vars => TypeOK'
<1> SUFFICES ASSUME TypeOK, [Next]_vars PROVE TypeOK'
  OBVIOUS
<1>1. ASSUME NEW t \in Txns, Request(t) PROVE TypeOK'
  <2>1. ops' \in 1..MaxOps /\ ops' \in 0..MaxOps
    BY <1>1, NamesAssumption DEF Request, TypeOK
  <2>2. ASSUME NEW pc \in {"asked", "lock"}, NEW n \in Names, NEW node \in 0..MaxOps,
               NEW op \in {"bind", "create", "mint", "reclaim", "retire", "revoke"},
               NEW who \in Identities \cup {NoOne}, NEW primary \in BOOLEAN,
               Ask(t, pc, op, n, node, who, primary)
        PROVE  TypeOK'
    <3> DEFINE x == [pc |-> pc, op |-> op, name |-> n, id |-> ops', node |-> node, who |-> who,
                     primary |-> primary, at |-> now, hit |-> {}]
    <3>1. x \in Tx
      BY <2>1 DEF Tx, TypeOK
    <3>2. tx' = [tx EXCEPT ![t] = x]
      BY <2>2 DEF Ask
    <3> HIDE DEF x
    <3> QED BY <1>1, <2>1, <3>1, <3>2, StepKeepsType DEF Request
  <2>3. \A r \in rows : r.node \in 0..MaxOps
    BY DEF TypeOK, Row
  <2>4. \A node \in nodes : node.id \in 0..MaxOps
    BY DEF TypeOK, Node
  <2>5. PICK n \in Names :
       \/ \E node \in nodes, primary \in BOOLEAN :
            Ask(t, "lock", "bind", n, node.id, NoOne, primary)
       \/ Ask(t, "lock", "create", n, ops', NoOne, TRUE)
       \/ \E i \in Identities : Ask(t, "lock", "mint", n, ops', i, TRUE)
       \/ \E i \in Identities : Ask(t, "asked", "reclaim", n, ops', i, TRUE)
       \/ \E r \in rows, op \in {"retire", "revoke"} : Ask(t, "asked", op, n, r.node, NoOne, FALSE)
    BY <1>1 DEF Request, Retired
  <2> QED BY <2>1, <2>2, <2>3, <2>4, <2>5
<1>2. ASSUME NEW t \in Txns, Begin(t) \/ LockName(t) \/ Verdict(t) \/ FindPrimary(t) \/ Demote(t)
                               \/ Insert(t) \/ Retire(t) \/ Lost(t)
      PROVE  TypeOK'
  <2>1. tx[t] \in Tx
    BY <1>2, TxTyped DEF Active, Begin, LockName, Verdict, FindPrimary, Demote, Insert, Retire, Lost
  <2>2. \A S \in SUBSET rows : {r.id : r \in S} \subseteq 1..MaxOps
    BY DEF TypeOK, Row
  <2>3. now \in 0..MaxNow /\ ops \in 0..MaxOps /\ now' = now /\ ops' = ops /\ rows' = rows /\ nodes' = nodes
    BY <1>2 DEF TypeOK, Begin, LockName, Verdict, FindPrimary, Demote, Insert, Retire, Lost, Rollback
  <2>4. PICK x \in Tx \cup {NoTx} : tx' = [tx EXCEPT ![t] = x]
    <3>1. CASE tx' = [tx EXCEPT ![t] = NoTx]
      BY <3>1
    <3>2. CASE Begin(t)
      <4>1. [tx[t] EXCEPT !.pc = "lock", !.at = now] \in Tx
        BY <2>1, <2>3 DEF Tx
      <4> QED BY <3>2, <4>1 DEF Begin
    <3>3. ASSUME NEW pc \in {"insert", "demote", "verdict", "retire", "commit"}, Goto(t, pc)
          PROVE  \E x \in Tx \cup {NoTx} : tx' = [tx EXCEPT ![t] = x]
      <4>1. [tx[t] EXCEPT !.pc = pc] \in Tx
        BY <2>1 DEF Tx
      <4> QED BY <3>3, <4>1 DEF Goto
    <3>4. ASSUME NEW pc \in {"demoting", "insert", "commit"}, NEW S \in SUBSET rows,
                 tx' = [tx EXCEPT ![t].pc = pc, ![t].hit = {r.id : r \in S}]
          PROVE  \E x \in Tx \cup {NoTx} : tx' = [tx EXCEPT ![t] = x]
      <4> DEFINE H == {r.id : r \in S}
      <4>1. H \subseteq 1..MaxOps
        BY <2>2
      <4>2. tx' = [tx EXCEPT ![t] = [tx[t] EXCEPT !.pc = pc, !.hit = H]]
        BY <3>4
      <4> HIDE DEF H
      <4>3. [tx[t] EXCEPT !.pc = pc, !.hit = H] \in Tx
        BY <2>1, <4>1 DEF Tx
      <4> QED BY <4>2, <4>3
    <3>5. CASE Verdict(t) \/ Insert(t) \/ LockName(t) \/ Lost(t)
      BY <3>1, <3>3, <3>5 DEF Verdict, Insert, LockName, Lost, Rollback
    <3>6. CASE FindPrimary(t)
      <4> DEFINE S == {r \in rows : r.node = tx[t].node /\ r.primary}
      <4>1. S \in SUBSET rows /\ tx' = [tx EXCEPT ![t].pc = "demoting", ![t].hit = {r.id : r \in S}]
        BY <3>6 DEF FindPrimary
      <4> HIDE DEF S
      <4> QED BY <3>4, <4>1
    <3>7. CASE Demote(t)
      <4> DEFINE S == {r \in rows : r.id \in tx[t].hit /\ r.primary}
      <4>1. S \in SUBSET rows /\ tx' = [tx EXCEPT ![t].pc = "insert", ![t].hit = {r.id : r \in S}]
        BY <3>7 DEF Demote
      <4> HIDE DEF S
      <4> QED BY <3>4, <4>1
    <3>8. CASE Retire(t)
      <4> DEFINE S == {r \in rows : r.name = tx[t].name /\ r.live}
      <4>1. S \in SUBSET rows /\ \/ tx' = [tx EXCEPT ![t].pc = "commit", ![t].hit = {r.id : r \in S}]
                                 \/ tx' = [tx EXCEPT ![t] = NoTx]
        BY <3>8 DEF Retire, Rollback
      <4> HIDE DEF S
      <4> QED BY <3>1, <3>4, <4>1
    <3> QED BY <1>2, <3>2, <3>5, <3>6, <3>7, <3>8
  <2> QED BY <2>3, <2>4, StepKeepsType
<1>3. ASSUME NEW t \in Txns, CommitBind(t) PROVE TypeOK'
  <2>1. tx[t] \in Tx
    BY <1>3, TxTyped DEF Active, CommitBind
  <2> DEFINE new == [id |-> tx[t].id, name |-> tx[t].name, node |-> tx[t].node,
                     primary |-> tx[t].primary, live |-> TRUE, at |-> tx[t].at, revoked |-> 0]
             down(r) == IF r.id \in tx[t].hit THEN [r EXCEPT !.primary = FALSE] ELSE r
  <2>2. new \in Row /\ (new.primary => new.live)
    BY <2>1, NamesAssumption DEF Row, Tx
  <2>3. \A r \in rows : down(r) \in Row /\ (down(r).primary => down(r).live)
    BY DEF TypeOK, Row
  <2>4. rows' = {down(r) : r \in rows} \cup {new}
    BY <1>3 DEF CommitBind
  <2>5. nodes' \subseteq Node
    <3>1. [id |-> tx[t].node, who |-> tx[t].who, active |-> TRUE] \in Node
      BY <2>1 DEF Node, Tx
    <3> QED BY <1>3, <3>1 DEF CommitBind, TypeOK
  <2>6. tx' \in [Txns -> Tx \cup {NoTx}] /\ ops' = ops /\ now' = now
    BY <1>3 DEF CommitBind, TypeOK
  <2> HIDE DEF new, down
  <2>7. rows' \subseteq Row /\ \A r \in rows' : r.primary => r.live
    BY <2>2, <2>3, <2>4
  <2> QED BY <2>5, <2>6, <2>7 DEF TypeOK
<1>4. ASSUME NEW t \in Txns, CommitRevoke(t) PROVE TypeOK'
  <2>1. tx[t] \in Tx
    BY <1>4, TxTyped DEF Active, CommitRevoke
  <2> DEFINE gone(r) == IF r.id \in tx[t].hit
                        THEN [r EXCEPT !.live = FALSE, !.primary = FALSE, !.revoked = tx[t].at] ELSE r
             off(n) == IF tx[t].op = "revoke" /\ n.id = tx[t].node THEN [n EXCEPT !.active = FALSE] ELSE n
  <2>2. \A r \in rows : gone(r) \in Row /\ (gone(r).primary => gone(r).live)
    BY <2>1 DEF TypeOK, Row, Tx
  <2>3. \A n \in nodes : off(n) \in Node
    BY DEF TypeOK, Node
  <2>4. rows' = {gone(r) : r \in rows} /\ nodes' = {off(n) : n \in nodes}
    BY <1>4 DEF CommitRevoke
  <2>5. tx' \in [Txns -> Tx \cup {NoTx}] /\ ops' = ops /\ now' = now
    BY <1>4 DEF CommitRevoke, TypeOK
  <2> HIDE DEF gone, off
  <2> QED BY <2>2, <2>3, <2>4, <2>5 DEF TypeOK
<1>5. CASE Tick
  BY <1>5, NamesAssumption DEF Tick, TypeOK
<1>6. CASE UNCHANGED vars
  BY <1>6 DEF vars, TypeOK
<1> QED BY <1>1, <1>2, <1>3, <1>4, <1>5, <1>6 DEF Next, Step

-----------------------------------------------------------------------------
\* Where nothing is committed, what is known of the other transactions stays so.
LEMMA OtherKept ==
  ASSUME NameInv, rows' = rows, nodes' = nodes, ops \in Int, ops' \in Int, ops <= ops',
         TypeOK, NEW u \in Txns, tx'[u] = tx[u]
  PROVE  TxOK(u)'
<1> SUFFICES ASSUME Active(u) PROVE TxOK(u)'
  BY DEF TxOK, Active
<1>1. TxOK(u) /\ tx[u] \in Tx
  BY TxTyped DEF NameInv
<1>2. tx'[u].id <= ops' /\ tx'[u].id \notin Ids'
  <2>1. tx[u].id \in Int
    BY <1>1, NamesAssumption DEF Tx
  <2> QED BY <1>1, <2>1 DEF TxOK, Ids
<1>3. Staged(u)'
  BY <1>1 DEF TxOK, Staged, Binds
<1>4. Touched(u)'
  BY <1>1 DEF TxOK, Touched, Ids, RowLocks, Binds
<1>5. Vacant(u)'
  BY <1>1 DEF TxOK, Vacant, Binds
<1>6. Told(u)'
  BY <1>1 DEF TxOK, Told, Binds, MayBind, Retired, Resolves, Reclaimer
<1> QED BY <1>2, <1>3, <1>4, <1>5, <1>6 DEF TxOK

LEMMA Alone ==
  ASSUME NameInv, TypeOK', rows' = rows, nodes' = nodes, ops \in Int, ops' \in Int, ops <= ops',
         NEW t \in Txns, \A u \in Txns : u # t => tx'[u] = tx[u],
         TxOK(t)', \A u \in Txns : PairOK(t, u)'
  PROVE  NameInv'
<1>1. TypeOK
  BY DEF NameInv
<1>2. \A u \in Txns : TxOK(u)'
  BY <1>1, OtherKept
<1>3. ASSUME NEW u \in Txns, NEW v \in Txns PROVE PairOK(u, v)'
  <2>1. PairOK(u, v) /\ PairOK(t, u)'
    BY DEF NameInv
  <2>2. CASE u = t
    BY <2>2
  <2>3. CASE v = t
    BY <2>1, <2>3 DEF PairOK, Active, Busy
  <2>4. CASE u # t /\ v # t
    BY <2>1, <2>4 DEF PairOK, Active, Busy, RowLocks
  <2> QED BY <2>2, <2>3, <2>4
<1>4. RowsOK' /\ NeverReissued'
  <2>1. \A r \in rows : r.id \in Int
    BY <1>1, NamesAssumption DEF TypeOK, Row
  <2> QED BY <2>1 DEF NameInv, RowsOK, NeverReissued
<1> QED BY <1>2, <1>3, <1>4 DEF NameInv

\* A step that takes no lock and touches no further row disturbs no other transaction.
LEMMA Unobtrusive ==
  ASSUME NameInv, NEW t \in Txns, Active(t), NEW u \in Txns, u # t => tx'[u] = tx[u],
         tx'[t].id = tx[t].id, tx'[t].name = tx[t].name, Busy(t)' => Busy(t),
         RowLocks(t)' \subseteq RowLocks(t)
  PROVE  PairOK(t, u)'
<1>1. PairOK(t, u)
  BY DEF NameInv
<1> QED BY <1>1 DEF PairOK, Active, Busy, RowLocks

LEMMA Ended ==
  ASSUME NameInv, TypeOK', NEW t \in Txns, Rollback(t), ops' = ops
  PROVE  NameInv'
<1>1. tx'[t] = NoTx /\ ops \in Int /\ \A u \in Txns : u # t => tx'[u] = tx[u]
  BY NamesAssumption DEF Rollback, NameInv, TypeOK
<1>2. TxOK(t)' /\ \A u \in Txns : PairOK(t, u)'
  BY <1>1 DEF TxOK, PairOK, Active, NoTx
<1> QED BY <1>1, <1>2, Alone DEF Rollback

\* A step that only moves t on: its stage, and what it must know there.
LEMMA Advanced ==
  ASSUME NameInv, TypeOK', NEW t \in Txns, Active(t), NEW pc, pc # "idle", Goto(t, pc),
         UNCHANGED <<rows, nodes, ops>>, Staged(t)', Touched(t)', Vacant(t)', Told(t)',
         \A u \in Txns : PairOK(t, u)'
  PROVE  NameInv'
<1>1. tx[t] \in Tx /\ ops \in Int /\ TxOK(t)
  BY TxTyped, NamesAssumption DEF NameInv, TypeOK
<1>2. tx' = [tx EXCEPT ![t] = [tx[t] EXCEPT !.pc = pc]] /\ tx'[t].id = tx[t].id
  BY <1>1 DEF Goto, NameInv, TypeOK, Tx
<1>3. \A u \in Txns : u # t => tx'[u] = tx[u]
  BY <1>2 DEF NameInv, TypeOK
<1>4. TxOK(t)'
  BY <1>1, <1>2 DEF TxOK, Ids
<1> QED BY <1>1, <1>3, <1>4, Alone

-----------------------------------------------------------------------------
\* A request starts with an id nobody has, and has touched nothing.
LEMMA RequestStep ==
  ASSUME NameInv, TypeOK', NEW t \in Txns, Request(t)
  PROVE  NameInv'
<1>1. ops \in Int /\ ops' = ops + 1 /\ rows' = rows /\ nodes' = nodes
  BY NamesAssumption DEF Request, NameInv, TypeOK
<1>2. tx'[t].pc \in {"asked", "lock"} /\ tx'[t].id = ops' /\ tx'[t].hit = {}
  BY DEF Request, Ask, NameInv, TypeOK
<1>3. \A u \in Txns : u # t => tx'[u] = tx[u]
  BY DEF Request, Ask, NameInv, TypeOK
<1>4. \A u \in Txns : Active(u) => tx[u].id \in Int /\ tx[u].id <= ops
  BY TxTyped, NamesAssumption DEF NameInv, TxOK, Tx
<1>5. TxOK(t)'
  <2>1. tx'[t].id \notin Ids'
    BY <1>1, <1>2 DEF Ids, NameInv, RowsOK
  <2> QED BY <1>1, <1>2, <2>1 DEF TxOK, Staged, Touched, Vacant, Told, RowLocks
<1>6. \A u \in Txns : PairOK(t, u)'
  BY <1>1, <1>2, <1>3, <1>4 DEF PairOK, Active, Busy, RowLocks
<1> QED BY <1>1, <1>3, <1>5, <1>6, Alone

LEMMA BeginStep ==
  ASSUME NameInv, TypeOK', NEW t \in Txns, Begin(t)
  PROVE  NameInv'
<1>1. tx[t] \in Tx /\ TxOK(t) /\ Active(t) /\ ops \in Int
  BY TxTyped, NamesAssumption DEF NameInv, TypeOK, Begin, Active
<1>2. /\ tx'[t].pc = "lock" /\ tx'[t].id = tx[t].id /\ tx'[t].name = tx[t].name /\ tx'[t].hit = tx[t].hit
      /\ \A u \in Txns : u # t => tx'[u] = tx[u]
      /\ rows' = rows /\ nodes' = nodes /\ ops' = ops
  BY <1>1 DEF Begin, NameInv, TypeOK, Tx
<1>3. TxOK(t)'
  BY <1>1, <1>2 DEF TxOK, Begin, Active, Staged, Touched, Vacant, Told, RowLocks, Ids
<1>4. \A u \in Txns : PairOK(t, u)'
  BY <1>1, <1>2, Unobtrusive DEF Busy, RowLocks
<1> QED BY <1>1, <1>2, <1>3, <1>4, Alone

\* What Goto leaves alone.
LEMMA GotoKeeps ==
  ASSUME TypeOK, NEW t \in Txns, Active(t), NEW pc, Goto(t, pc)
  PROVE  /\ tx'[t].pc = pc /\ tx'[t].id = tx[t].id /\ tx'[t].name = tx[t].name
         /\ tx'[t].hit = tx[t].hit /\ tx'[t].op = tx[t].op /\ tx'[t].who = tx[t].who
         /\ tx'[t].at = tx[t].at
         /\ \A u \in Txns : u # t => tx'[u] = tx[u]
BY TxTyped DEF Goto, TypeOK, Tx

LEMMA LockNameStep ==
  ASSUME NameInv, TypeOK', NEW t \in Txns, LockName(t)
  PROVE  NameInv'
<1> DEFINE pc == IF Binds(t) THEN "verdict" ELSE "retire"
<1>1. TypeOK /\ TxOK(t) /\ Active(t) /\ Goto(t, pc) /\ UNCHANGED <<rows, nodes, ops>>
  BY DEF NameInv, LockName, Active
<1>2. pc \in {"verdict", "retire"} /\ (pc = "verdict" <=> Binds(t))
  OBVIOUS
<1> HIDE DEF pc
<1>3. /\ tx'[t].pc = pc /\ tx'[t].name = tx[t].name /\ tx'[t].id = tx[t].id
      /\ tx'[t].hit = tx[t].hit /\ tx'[t].op = tx[t].op
      /\ \A u \in Txns : u # t => tx'[u] = tx[u]
  BY <1>1, GotoKeeps
<1>4. Staged(t)'
  BY <1>1, <1>2, <1>3 DEF TxOK, Staged, Binds, LockName
<1>5. Touched(t)' /\ Vacant(t)' /\ Told(t)'
  BY <1>1, <1>2, <1>3 DEF TxOK, Touched, Vacant, Told, RowLocks, Ids
<1>6. ASSUME NEW u \in Txns PROVE PairOK(t, u)'
  <2>1. PairOK(t, u)
    BY DEF NameInv
  <2> QED BY <1>1, <1>2, <1>3, <2>1 DEF PairOK, Active, Busy, RowLocks, LockName, HoldsName
<1> QED BY <1>1, <1>2, <1>4, <1>5, <1>6, Advanced

\* The verdict is what the rest of the transaction relies on.
LEMMA VerdictStep ==
  ASSUME NameInv, TypeOK', NEW t \in Txns, Verdict(t)
  PROVE  NameInv'
<1>1. CASE Rollback(t)
  BY <1>1, Ended DEF Verdict
<1>2. CASE MayBind(tx[t].name, Reclaimer(t), tx[t].at)
  <2> DEFINE pc == IF tx[t].op = "bind" /\ tx[t].primary THEN "demote" ELSE "insert"
  <2>1. TypeOK /\ TxOK(t) /\ Active(t) /\ Goto(t, pc) /\ UNCHANGED <<rows, nodes, ops>>
    BY <1>2 DEF NameInv, Verdict, Active
  <2>2. pc \in {"demote", "insert"}
    OBVIOUS
  <2> HIDE DEF pc
  <2>3. /\ tx'[t].pc = pc /\ tx'[t].id = tx[t].id /\ tx'[t].name = tx[t].name /\ tx'[t].hit = tx[t].hit
        /\ tx'[t].op = tx[t].op /\ tx'[t].who = tx[t].who /\ tx'[t].at = tx[t].at
        /\ \A u \in Txns : u # t => tx'[u] = tx[u]
    BY <2>1, GotoKeeps
  <2>4. Staged(t)'
    BY <2>1, <2>2, <2>3 DEF TxOK, Staged, Binds, Verdict
  <2>5. tx[t].hit = {}
    BY <2>1 DEF TxOK, Staged, Verdict
  <2>6. Touched(t)' /\ Vacant(t)'
    BY <2>2, <2>3, <2>5 DEF Touched, Vacant, RowLocks
  <2>7. Told(t)'
    BY <1>2, <2>1, <2>3 DEF Told, MayBind, Retired, Resolves, Reclaimer
  <2>8. \A u \in Txns : PairOK(t, u)'
    BY <2>1, <2>2, <2>3, <2>5, Unobtrusive DEF Busy, RowLocks, Verdict
  <2> QED BY <2>1, <2>2, <2>4, <2>6, <2>7, <2>8, Advanced
<1> QED BY <1>1, <1>2 DEF Verdict

-----------------------------------------------------------------------------
\* The statements of one transaction, as the others see them: where it goes,
\* which rows it has touched, and that its request is the same.
Advance(t, pc, hit) ==
  /\ tx'[t].pc = pc /\ tx'[t].hit = hit
  /\ tx'[t].id = tx[t].id /\ tx'[t].name = tx[t].name /\ tx'[t].op = tx[t].op
  /\ tx'[t].who = tx[t].who /\ tx'[t].at = tx[t].at
  /\ \A u \in Txns : u # t => tx'[u] = tx[u]
  /\ UNCHANGED <<rows, nodes, ops>>

LEMMA HitAdvances ==
  ASSUME TypeOK, NEW t \in Txns, Active(t), NEW pc, NEW hit,
         tx' = [tx EXCEPT ![t].pc = pc, ![t].hit = hit], UNCHANGED <<rows, nodes, ops>>
  PROVE  Advance(t, pc, hit)
<1>1. tx' = [tx EXCEPT ![t] = [tx[t] EXCEPT !.pc = pc, !.hit = hit]]
  OBVIOUS
<1> QED BY <1>1, TxTyped DEF Advance, TypeOK, Tx

LEMMA AdvanceKeepsVerdict ==
  ASSUME NameInv, NEW t \in Txns, Told(t), NEW pc, NEW hit, Advance(t, pc, hit),
         tx[t].pc \in {"demote", "demoting", "insert"}
  PROVE  Told(t)'
BY DEF Told, Advance, MayBind, Retired, Resolves, Reclaimer, Binds

LEMMA AdvancedTo ==
  ASSUME NameInv, TypeOK', NEW t \in Txns, Active(t), NEW pc, NEW hit, Advance(t, pc, hit),
         Staged(t)', Touched(t)', Vacant(t)', Told(t)', \A u \in Txns : PairOK(t, u)'
  PROVE  NameInv'
<1>1. TypeOK /\ TxOK(t) /\ ops \in Int
  BY NamesAssumption DEF NameInv, TypeOK
<1>2. TxOK(t)'
  BY <1>1 DEF TxOK, Advance, Ids
<1> QED BY <1>1, <1>2, Alone DEF Advance

LEMMA FindPrimaryStep ==
  ASSUME NameInv, TypeOK', NEW t \in Txns, FindPrimary(t)
  PROVE  NameInv'
<1> DEFINE hit == {r.id : r \in {r \in rows : r.node = tx[t].node /\ r.primary}}
<1>1. TypeOK /\ TxOK(t) /\ Active(t) /\ tx[t].pc = "demote" /\ hit \subseteq Ids
  BY DEF NameInv, FindPrimary, Active, Ids
<1>2. tx' = [tx EXCEPT ![t].pc = "demoting", ![t].hit = hit] /\ UNCHANGED <<rows, nodes, ops>>
  BY DEF FindPrimary
<1> HIDE DEF hit
<1>3. Advance(t, "demoting", hit)
  BY <1>1, <1>2, HitAdvances
<1>4. Staged(t)' /\ Touched(t)' /\ Vacant(t)'
  BY <1>1, <1>3 DEF TxOK, Staged, Touched, Vacant, Advance, Binds, RowLocks, Ids
<1>5. Told(t)'
  BY <1>1, <1>3, AdvanceKeepsVerdict DEF TxOK
<1>6. \A u \in Txns : PairOK(t, u)'
  BY <1>1, <1>3, Unobtrusive DEF Advance, Busy, RowLocks
<1> QED BY <1>1, <1>3, <1>4, <1>5, <1>6, AdvancedTo

\* The rows t goes on to hold are nobody else's.
LEMMA LocksApart ==
  ASSUME NameInv, NEW t \in Txns, Busy(t), NEW pc, NEW hit, Advance(t, pc, hit), Untouched(t, hit)
  PROVE  \A u \in Txns : PairOK(t, u)'
<1> SUFFICES ASSUME NEW u \in Txns PROVE PairOK(t, u)'
  OBVIOUS
<1>1. PairOK(t, u)
  BY DEF NameInv
<1>2. u # t => RowLocks(u)' = RowLocks(u) /\ RowLocks(u) \cap hit = {}
  BY DEF Advance, RowLocks, Untouched
<1>3. RowLocks(t)' \subseteq hit
  BY DEF Advance, RowLocks
<1> QED BY <1>1, <1>2, <1>3 DEF PairOK, Advance, Active, Busy

\* The rows demoted are primary by now, so live.
LEMMA DemoteStep ==
  ASSUME NameInv, TypeOK', NEW t \in Txns, Demote(t)
  PROVE  NameInv'
<1> DEFINE hit == {r.id : r \in {r \in rows : r.id \in tx[t].hit /\ r.primary}}
<1>1. TypeOK /\ TxOK(t) /\ Active(t) /\ Busy(t) /\ tx[t].pc = "demoting" /\ RowsOK
  BY DEF NameInv, Demote, Active, Busy
<1>2. tx' = [tx EXCEPT ![t].pc = "insert", ![t].hit = hit] /\ UNCHANGED <<rows, nodes, ops>>
  BY DEF Demote
<1>3. hit \subseteq Ids /\ hit \subseteq tx[t].hit
  BY DEF Ids
<1>4. \A r \in rows : r.id \in hit => r.live
  BY <1>1 DEF RowsOK, TypeOK
<1> HIDE DEF hit
<1>5. Advance(t, "insert", hit)
  BY <1>1, <1>2, HitAdvances
<1>6. Staged(t)' /\ Touched(t)' /\ Vacant(t)'
  BY <1>1, <1>3, <1>4, <1>5 DEF TxOK, Staged, Touched, Vacant, Advance, Binds, RowLocks, Ids
<1>7. Told(t)'
  BY <1>1, <1>5, AdvanceKeepsVerdict DEF TxOK
<1>8. Untouched(t, hit)
  BY <1>3 DEF Demote, Untouched
<1> QED BY <1>1, <1>5, <1>6, <1>7, <1>8, LocksApart, AdvancedTo

LEMMA InsertStep ==
  ASSUME NameInv, TypeOK', NEW t \in Txns, Insert(t)
  PROVE  NameInv'
<1>1. CASE Rollback(t)
  BY <1>1, Ended DEF Insert
<1>2. CASE InTheWay(t) = {} /\ Goto(t, "commit") /\ UNCHANGED <<rows, nodes>>
  <2>1. TypeOK /\ TxOK(t) /\ Active(t) /\ tx[t].pc = "insert" /\ Binds(t)
    BY DEF NameInv, Insert, Active, TxOK, Staged
  <2>2. Advance(t, "commit", tx[t].hit)
    BY <1>2, <2>1, GotoKeeps DEF Advance, Insert
  <2>3. \A r \in rows : r.live => r.name # tx[t].name
    BY <1>2 DEF InTheWay
  <2>4. Staged(t)' /\ Touched(t)' /\ Vacant(t)'
    BY <2>1, <2>2, <2>3 DEF TxOK, Staged, Touched, Vacant, Advance, Binds, RowLocks, Ids
  <2>5. Told(t)'
    BY <2>1, <2>2, AdvanceKeepsVerdict DEF TxOK
  <2>6. \A u \in Txns : PairOK(t, u)'
    BY <2>1, <2>2, Unobtrusive DEF Advance, Busy, RowLocks
  <2> QED BY <2>1, <2>2, <2>4, <2>5, <2>6, AdvancedTo
<1> QED BY <1>1, <1>2 DEF Insert

\* The rows retired are live by now, and of the name t has locked.
LEMMA RetireStep ==
  ASSUME NameInv, TypeOK', NEW t \in Txns, Retire(t)
  PROVE  NameInv'
<1> DEFINE hit == {r.id : r \in {r \in rows : r.name = tx[t].name /\ r.live}}
<1>1. CASE Rollback(t)
  BY <1>1, Ended DEF Retire
<1>2. CASE tx' = [tx EXCEPT ![t].pc = "commit", ![t].hit = hit] /\ UNCHANGED <<rows, nodes>>
  <2>1. TypeOK /\ TxOK(t) /\ Active(t) /\ Busy(t) /\ ~ Binds(t) /\ RowsOK
    BY DEF NameInv, Retire, Active, Busy, TxOK, Staged
  <2>2. hit \subseteq Ids /\ \A r \in rows : r.id \in hit => r.live /\ r.name = tx[t].name
    BY <2>1 DEF Ids, RowsOK
  <2>3. Untouched(t, hit) /\ ops' = ops
    BY DEF Retire
  <2> HIDE DEF hit
  <2>4. Advance(t, "commit", hit)
    BY <1>2, <2>1, <2>3, HitAdvances
  <2>5. Staged(t)' /\ Touched(t)' /\ Vacant(t)' /\ Told(t)'
    BY <2>1, <2>2, <2>4 DEF Staged, Touched, Vacant, Told, Advance, Binds, RowLocks, Ids
  <2> QED BY <2>1, <2>3, <2>4, <2>5, LocksApart, AdvancedTo
<1> QED BY <1>1, <1>2 DEF Retire

-----------------------------------------------------------------------------
\* Two rows of one binding: the same but for whether it is its node's primary.
Alike(r, q) ==
  /\ r.id = q.id /\ r.name = q.name /\ r.node = q.node
  /\ r.live = q.live /\ r.at = q.at /\ r.revoked = q.revoked

\* A verdict outlives a commit that retires nothing of its name and revives nothing.
LEMMA VerdictKept ==
  ASSUME NEW n, NEW who, NEW at, MayBind(n, who, at),
         \A q \in Retired(n)' : \E r \in Retired(n) : r.node = q.node /\ r.revoked = q.revoked,
         \A node, i : Resolves(node, i) => Resolves(node, i)'
  PROVE  MayBind(n, who, at)'
<1>1. CASE Retired(n) = {}
  BY <1>1 DEF MayBind
<1>2. CASE Rule[n] = "immediate"
  BY <1>2 DEF MayBind
<1>3. CASE Rule[n] = "hold" /\ who # NoOne /\ \A r \in Retired(n) : Resolves(r.node, who)
  BY <1>3 DEF MayBind
<1>4. CASE Rule[n] = "hold" /\ \A r \in Retired(n) : r.revoked + Hold <= at
  BY <1>4 DEF MayBind
<1> QED BY <1>1, <1>2, <1>3, <1>4 DEF MayBind

\* A transaction that has committed is in nobody's way.
LEMMA CommitPairs ==
  ASSUME NameInv, NEW t \in Txns, tx' = [tx EXCEPT ![t] = NoTx]
  PROVE  \A u, v \in Txns : PairOK(u, v)'
<1>1. \A u \in Txns : tx'[u] = IF u = t THEN NoTx ELSE tx[u]
  BY DEF NameInv, TypeOK
<1> SUFFICES ASSUME NEW u \in Txns, NEW v \in Txns PROVE PairOK(u, v)'
  OBVIOUS
<1>2. PairOK(u, v)
  BY DEF NameInv
<1> QED BY <1>1, <1>2 DEF PairOK, Active, Busy, RowLocks, NoTx

\* What a bind commits: its own row beside those there were, and its node.
LEMMA Bound ==
  ASSUME NameInv, NEW t \in Txns, CommitBind(t)
  PROVE  /\ \A q \in rows' : \/ q.id = tx[t].id /\ q.name = tx[t].name /\ q.live /\ q.at = tx[t].at /\ q.node = tx[t].node
                             \/ \E r \in rows : Alike(r, q)
         /\ \A r \in rows : \E q \in rows' : Alike(r, q)
         /\ \A q, p \in rows' : q.id = p.id => q = p
         /\ Ids' = Ids \cup {tx[t].id}
         /\ \A node, i : Resolves(node, i) => Resolves(node, i)'
         /\ \A node, i : tx[t].op # "bind" /\ node = tx[t].node /\ i = tx[t].who => Resolves(node, i)'
<1> DEFINE new == [id |-> tx[t].id, name |-> tx[t].name, node |-> tx[t].node,
                   primary |-> tx[t].primary, live |-> TRUE, at |-> tx[t].at, revoked |-> 0]
           down(r) == IF r.id \in tx[t].hit THEN [r EXCEPT !.primary = FALSE] ELSE r
<1>1. rows' = {down(r) : r \in rows} \cup {new}
  BY DEF CommitBind
<1>2. \A r \in rows : Alike(r, down(r))
  BY DEF Alike, NameInv, TypeOK, Row
<1>3. new.id = tx[t].id /\ new.name = tx[t].name /\ new.live /\ new.at = tx[t].at /\ new.node = tx[t].node
  OBVIOUS
<1> HIDE DEF new, down
<1>4. tx[t].id \notin Ids /\ RowsOK
  BY DEF NameInv, TxOK, Active, CommitBind
<1>5. \A q \in rows' : q = new \/ \E r \in rows : q = down(r) /\ Alike(r, q)
  BY <1>1, <1>2
<1>6. \A q, p \in rows' : q.id = p.id => q = p
  <2> SUFFICES ASSUME NEW q \in rows', NEW p \in rows', q.id = p.id PROVE q = p
    OBVIOUS
  <2>1. CASE q = new \/ p = new
    BY <2>1, <1>3, <1>4, <1>5 DEF Alike, Ids
  <2>2. CASE q # new /\ p # new
    <3>1. PICK r \in rows : q = down(r) /\ Alike(r, q)
      BY <2>2, <1>5
    <3>2. PICK s \in rows : p = down(s) /\ Alike(s, p)
      BY <2>2, <1>5
    <3>3. r = s
      BY <3>1, <3>2, <1>4 DEF Alike, RowsOK
    <3> QED BY <3>1, <3>2, <3>3
  <2> QED BY <2>1, <2>2
<1>7. Ids' = Ids \cup {tx[t].id}
  BY <1>1, <1>2, <1>3 DEF Ids, Alike
<1>8. \A node, i : Resolves(node, i) => Resolves(node, i)'
  <2>1. nodes \subseteq nodes'
    BY DEF CommitBind
  <2> QED BY <2>1 DEF Resolves
<1>9. \A node, i : tx[t].op # "bind" /\ node = tx[t].node /\ i = tx[t].who => Resolves(node, i)'
  <2>1. tx[t].op # "bind" => [id |-> tx[t].node, who |-> tx[t].who, active |-> TRUE] \in nodes'
    BY DEF CommitBind
  <2> QED BY <2>1 DEF Resolves
<1> QED BY <1>1, <1>2, <1>3, <1>5, <1>6, <1>7, <1>8, <1>9

LEMMA CommitBindStep ==
  ASSUME NameInv, TypeOK', NEW t \in Txns, CommitBind(t)
  PROVE  NameInv'
<1>1. TypeOK /\ TxOK(t) /\ Active(t) /\ Busy(t) /\ RowsOK /\ NeverReissued /\ ops' = ops /\ tx' = [tx EXCEPT ![t] = NoTx]
  BY DEF NameInv, CommitBind, Active, Busy
<1>2. tx[t] \in Tx /\ ops \in Int
  BY <1>1, TxTyped, NamesAssumption DEF TypeOK
<1>3. MayBind(tx[t].name, Reclaimer(t), tx[t].at) /\ \A r \in rows : r.live => r.name # tx[t].name
  BY <1>1 DEF TxOK, Told, Vacant, CommitBind
<1>4. \A n : \A q \in Retired(n)' : \E r \in Retired(n) : Alike(r, q)
  BY Bound DEF Retired, Alike
<1>5. RowsOK'
  <2>1. tx[t].id \in Int /\ tx[t].id <= ops
    BY <1>1, <1>2, NamesAssumption DEF TxOK, Tx
  <2> QED BY <1>1, <2>1, Bound DEF RowsOK, Alike
<1>6. NeverReissued'
  <2> SUFFICES ASSUME NEW q \in rows', NEW p \in rows', q.name = p.name, Rule[q.name] = "never"
               PROVE  q.id = p.id
    BY Bound DEF NeverReissued
  <2>1. Rule[tx[t].name] = "never" => \A r \in rows : r.name # tx[t].name
    BY <1>3 DEF MayBind, Retired
  <2> QED BY <1>1, <2>1, Bound DEF NeverReissued, Alike
<1>7. ASSUME NEW u \in Txns PROVE TxOK(u)'
  <2>1. CASE u = t
    BY <1>1, <2>1 DEF TxOK, Active, NoTx, TypeOK
  <2>2. CASE u # t
    <3> SUFFICES ASSUME Active(u) PROVE TxOK(u)'
      BY <1>1, <2>2 DEF TxOK, Active, TypeOK
    <3>1. tx'[u] = tx[u] /\ TxOK(u) /\ PairOK(t, u)
      BY <1>1, <2>2 DEF NameInv, TypeOK
    <3>2. tx'[u].id <= ops' /\ tx'[u].id \notin Ids'
      BY <1>1, <2>2, <3>1, Bound DEF TxOK, PairOK
    <3>3. Staged(u)'
      BY <3>1 DEF TxOK, Staged, Binds
    <3>4. Touched(u)'
      BY <1>1, <3>1, Bound DEF TxOK, Touched, RowLocks, Binds, Alike
    <3>5. Vacant(u)'
      BY <1>1, <2>2, <3>1, Bound DEF TxOK, Vacant, Binds, PairOK, Busy, Alike
    <3>6. Told(u)'
      <4> SUFFICES ASSUME Told(u)!1 PROVE MayBind(tx[u].name, Reclaimer(u), tx[u].at)'
        BY <3>1 DEF Told, Binds
      <4>1. MayBind(tx[u].name, Reclaimer(u), tx[u].at)
        BY <3>1 DEF TxOK, Told
      <4>2. MayBind(tx[u].name, Reclaimer(u), tx[u].at) => \A n, i, at : n = tx[u].name /\ i = Reclaimer(u) /\ at = tx[u].at
                                                                   => MayBind(n, i, at)'
        BY <1>4, Bound, VerdictKept DEF Alike
      <4> QED BY <3>1, <4>1, <4>2 DEF Reclaimer, MayBind, Retired, Resolves
    <3> QED BY <3>2, <3>3, <3>4, <3>5, <3>6 DEF TxOK
  <2> QED BY <2>1, <2>2
<1> QED BY <1>1, <1>5, <1>6, <1>7, CommitPairs DEF NameInv

\* What a revoke commits: every row it has not touched as it was, the others retired.
LEMMA Revoked ==
  ASSUME NameInv, NEW t \in Txns, CommitRevoke(t)
  PROVE  /\ \A q \in rows' : \E r \in rows :
              /\ q.id = r.id /\ q.name = r.name /\ q.node = r.node
              /\ IF r.id \in tx[t].hit THEN ~ q.live ELSE q = r
         /\ \A r \in rows : r.id \notin tx[t].hit => r \in rows'
         /\ \A q, p \in rows' : q.id = p.id => q = p
         /\ Ids' = Ids
         /\ \A node, i : Resolves(node, i) => Resolves(node, i)'
<1> DEFINE gone(r) == IF r.id \in tx[t].hit
                      THEN [r EXCEPT !.live = FALSE, !.primary = FALSE, !.revoked = tx[t].at] ELSE r
           off(n) == IF tx[t].op = "revoke" /\ n.id = tx[t].node THEN [n EXCEPT !.active = FALSE] ELSE n
<1>1. rows' = {gone(r) : r \in rows} /\ nodes' = {off(n) : n \in nodes}
  BY DEF CommitRevoke
<1>2. \A r \in rows : /\ gone(r).id = r.id /\ gone(r).name = r.name /\ gone(r).node = r.node
                      /\ IF r.id \in tx[t].hit THEN ~ gone(r).live ELSE gone(r) = r
  BY DEF NameInv, TypeOK, Row
<1>3. ASSUME NEW node, NEW i, NEW b \in BOOLEAN, [id |-> node, who |-> i, active |-> b] \in nodes
      PROVE  \E c \in BOOLEAN : off([id |-> node, who |-> i, active |-> b]) = [id |-> node, who |-> i, active |-> c]
  OBVIOUS
<1> HIDE DEF gone, off
<1>4. \A q \in rows' : \E r \in rows : q = gone(r) /\ q.id = r.id
  BY <1>1, <1>2
<1>5. \A q, p \in rows' : q.id = p.id => q = p
  BY <1>4 DEF NameInv, RowsOK
<1>6. Ids' = Ids
  BY <1>1, <1>2 DEF Ids
<1>7. ASSUME NEW node, NEW i, Resolves(node, i)
      PROVE  Resolves(node, i)'
  <2>1. PICK b \in BOOLEAN : [id |-> node, who |-> i, active |-> b] \in nodes
    BY <1>7 DEF Resolves
  <2>2. PICK c \in BOOLEAN : [id |-> node, who |-> i, active |-> c] \in nodes'
    BY <1>1, <1>3, <2>1
  <2> QED BY <2>2 DEF Resolves
<1> QED BY <1>1, <1>2, <1>5, <1>6, <1>7

LEMMA CommitRevokeStep ==
  ASSUME NameInv, TypeOK', NEW t \in Txns, CommitRevoke(t)
  PROVE  NameInv'
<1>1. TypeOK /\ TxOK(t) /\ Active(t) /\ Busy(t) /\ RowsOK /\ NeverReissued /\ ops' = ops /\ tx' = [tx EXCEPT ![t] = NoTx]
  BY DEF NameInv, CommitRevoke, Active, Busy
<1>2. RowLocks(t) = tx[t].hit /\ \A r \in rows : r.id \in tx[t].hit => r.live /\ r.name = tx[t].name
  BY <1>1 DEF TxOK, Touched, RowLocks, CommitRevoke
<1>3. RowsOK' /\ NeverReissued'
  <2>1. RowsOK'
    BY <1>1, Revoked DEF RowsOK
  <2>2. ASSUME NEW q \in rows', NEW p \in rows', q.name = p.name, Rule[q.name] = "never" PROVE q = p
    <3>1. PICK r \in rows : q.id = r.id /\ q.name = r.name
      BY Revoked
    <3>2. PICK s \in rows : p.id = s.id /\ p.name = s.name
      BY Revoked
    <3>3. r = s
      BY <1>1, <2>2, <3>1, <3>2 DEF NeverReissued
    <3> QED BY <3>1, <3>2, <3>3, Revoked
  <2> QED BY <2>1, <2>2 DEF NeverReissued
<1>4. ASSUME NEW u \in Txns PROVE TxOK(u)'
  <2>1. CASE u = t
    BY <1>1, <2>1 DEF TxOK, Active, NoTx, TypeOK
  <2>2. CASE u # t
    <3> SUFFICES ASSUME Active(u) PROVE TxOK(u)'
      BY <1>1, <2>2 DEF TxOK, Active, TypeOK
    <3>1. tx'[u] = tx[u] /\ TxOK(u) /\ PairOK(t, u)
      BY <1>1, <2>2 DEF NameInv, TypeOK
    <3>2. tx'[u].id <= ops' /\ tx'[u].id \notin Ids'
      BY <1>1, <3>1, Revoked DEF TxOK
    <3>3. Staged(u)'
      BY <3>1 DEF TxOK, Staged, Binds
    <3>4. Touched(u)'
      <4>1. RowLocks(u)' = RowLocks(u) /\ RowLocks(u) \cap tx[t].hit = {}
        BY <1>1, <1>2, <2>2, <3>1 DEF PairOK, RowLocks
      <4> QED BY <3>1, <4>1, Revoked DEF TxOK, Touched, Binds
    <3>5. Vacant(u)'
      BY <3>1, Revoked DEF TxOK, Vacant, Binds
    <3>6. Told(u)'
      <4> SUFFICES ASSUME Told(u)!1 PROVE MayBind(tx[u].name, Reclaimer(u), tx[u].at)'
        BY <3>1 DEF Told, Binds
      <4>1. MayBind(tx[u].name, Reclaimer(u), tx[u].at) /\ tx[u].name # tx[t].name
        BY <1>1, <2>2, <3>1 DEF TxOK, Told, PairOK, Busy
      <4>2. \A n : n = tx[u].name => Retired(n)' \subseteq Retired(n)
        BY <1>2, <4>1, Revoked DEF Retired
      <4>3. \A n, i, at : n = tx[u].name /\ i = Reclaimer(u) /\ at = tx[u].at => MayBind(n, i, at)'
        BY <4>1, <4>2, Revoked, VerdictKept
      <4> QED BY <3>1, <4>3 DEF Reclaimer, MayBind, Retired, Resolves
    <3> QED BY <3>2, <3>3, <3>4, <3>5, <3>6 DEF TxOK
  <2> QED BY <2>1, <2>2
<1> QED BY <1>1, <1>3, <1>4, CommitPairs DEF NameInv

-----------------------------------------------------------------------------
LEMMA NameInvStep == NameInv /\ [Next]_vars => NameInv'
<1> SUFFICES ASSUME NameInv, [Next]_vars PROVE NameInv'
  OBVIOUS
<1>1. TypeOK'
  BY TypeStep DEF NameInv
<1>2. CASE Tick \/ UNCHANGED vars
  <2>1. UNCHANGED <<rows, nodes, tx, ops>>
    BY <1>2 DEF Tick, vars
  <2>2. RowsOK' /\ NeverReissued'
    BY <2>1 DEF NameInv, RowsOK, NeverReissued
  <2>3. \A u \in Txns : TxOK(u)'
    BY <2>1, OtherKept, NamesAssumption DEF NameInv, TypeOK
  <2>4. \A u, v \in Txns : PairOK(u, v)'
    BY <2>1 DEF NameInv, PairOK, Active, Busy, RowLocks
  <2> QED BY <1>1, <2>2, <2>3, <2>4 DEF NameInv
<1>3. ASSUME NEW t \in Txns, Request(t) \/ Step(t) \/ Lost(t) PROVE NameInv'
  <2>1. CASE Lost(t)
    BY <1>1, <2>1, Ended DEF Lost
  <2> QED
    BY <1>1, <1>3, <2>1, RequestStep, BeginStep, LockNameStep, VerdictStep, FindPrimaryStep, DemoteStep,
       InsertStep, CommitBindStep, RetireStep, CommitRevokeStep DEF Step
<1> QED BY <1>2, <1>3 DEF Next

\* Every name the plane ever writes is well formed and no retired row is its
\* node's primary, a name of a namespace that never reissues is bound once, and
\* what a bind was told stays true until its commit (may_bind_name behind lock_name).
THEOREM NamesStand == Spec => [](TypeOK /\ NeverReissued /\ VerdictStands)
<1>1. NameInv => TypeOK /\ NeverReissued /\ VerdictStands
  BY DEF NameInv, VerdictStands, TxOK, Told, Active
<1> QED BY <1>1, InitEstablishes, NameInvStep, PTL DEF Spec

\* No write ever changes a retired binding (op_revoke_name, "only the LIVE row is retired").
THEOREM HistoryIsKept == Spec => HistoryKept
<1>1. ASSUME NameInv, [Next]_vars, NEW r \in rows, ~ r.live PROVE r \in rows'
  <2>1. CASE rows' = rows
    BY <2>1
  <2>2. ASSUME NEW t \in Txns, CommitRevoke(t) PROVE r \in rows'
    <3>1. r.id \notin tx[t].hit
      BY <1>1, <2>2 DEF NameInv, TxOK, Active, Touched, RowLocks, CommitRevoke
    <3> QED BY <1>1, <2>2, <3>1, Revoked
  <2>3. ASSUME NEW t \in Txns, CommitBind(t) PROVE r \in rows'
    <3>1. r.id \notin tx[t].hit
      BY <1>1, <2>3 DEF NameInv, TxOK, Active, Touched, RowLocks, CommitBind
    <3> QED BY <2>3, <3>1 DEF CommitBind
  <2> QED
    BY <1>1, <2>1, <2>2, <2>3 DEF Next, Step, vars, Tick, Request, Begin, LockName, Verdict, FindPrimary,
       Demote, Insert, Retire, Lost, Rollback
<1>2. NameInv /\ [Next]_vars => [\A r \in rows : ~ r.live => r \in rows']_rows
  BY <1>1
<1> QED BY <1>2, InitEstablishes, NameInvStep, PTL DEF Spec, HistoryKept

\* No one binds a name before its hold has run out, unless everyone it ever
\* reached is the one identity that binds it (may_bind_name, "Self-reclaim").
THEOREM QuarantineIsHeld == Spec => QuarantineHeld
<1> DEFINE Held == \A q \in rows' : \A r \in rows :
                     /\ q.id \notin {p.id : p \in rows}
                     /\ r.name = q.name /\ Rule[r.name] = "hold" /\ q.at < r.revoked + Hold
                     => \E i \in Identities : Resolves(r.node, i)' /\ Resolves(q.node, i)'
<1>1. ASSUME NameInv, NEW t \in Txns, CommitBind(t) PROVE Held
  <2> SUFFICES ASSUME NEW q \in rows', NEW r \in rows, q.id \notin Ids, r.name = q.name,
                      Rule[r.name] = "hold", q.at < r.revoked + Hold
               PROVE  \E i \in Identities : Resolves(r.node, i)' /\ Resolves(q.node, i)'
    BY DEF Ids
  <2>1. TypeOK /\ TxOK(t) /\ Active(t) /\ tx[t] \in Tx
    BY <1>1, TxTyped DEF NameInv, CommitBind, Active
  <2>2. q.name = tx[t].name /\ q.at = tx[t].at /\ q.node = tx[t].node
    BY <1>1, Bound DEF Alike, Ids
  <2>3. r \in Retired(q.name)
    BY <1>1, <2>1, <2>2 DEF TxOK, Vacant, Retired, CommitBind
  <2>4. MayBind(q.name, Reclaimer(t), q.at)
    BY <1>1, <2>1, <2>2 DEF TxOK, Told, CommitBind
  <2>5. ~ (r.revoked + Hold <= q.at)
    <3>1. r.revoked \in Int /\ q.at \in Int /\ Hold \in Int
      BY <2>1, <2>2, NamesAssumption DEF TypeOK, Row, Tx
    <3> QED BY <3>1
  <2>6. Reclaimer(t) # NoOne /\ Resolves(r.node, Reclaimer(t))
    BY <2>3, <2>4, <2>5 DEF MayBind
  <2>7. tx[t].op = "reclaim" /\ Reclaimer(t) = tx[t].who /\ tx[t].who \in Identities
    BY <2>1, <2>6 DEF Reclaimer, Tx
  <2>8. \A i : i = tx[t].who => Resolves(r.node, i)' /\ Resolves(q.node, i)'
    BY <1>1, <2>2, <2>6, <2>7, Bound
  <2> QED BY <2>7, <2>8
<1>2. ASSUME NameInv, NEW t \in Txns, CommitRevoke(t) PROVE Held
  BY <1>2, Revoked
<1> HIDE DEF Held
<1>3. ASSUME NameInv, [Next]_vars, rows' # rows PROVE Held
  BY <1>1, <1>2, <1>3 DEF Next, Step, vars, Tick, Request, Begin, LockName, Verdict, FindPrimary,
     Demote, Insert, Retire, Lost, Rollback
<1>4. NameInv /\ [Next]_vars => [Held]_rows
  BY <1>3
<1> QED BY <1>4, InitEstablishes, NameInvStep, PTL DEF Spec, QuarantineHeld, Held

\* A verdict outlives the wait between may_bind_name and the commit: no other bind,
\* revoke or rebinding can make it false while its transaction holds the name's lock.
THEOREM VerdictsLast == Spec => []VerdictStands
  BY NamesStand, PTL

\* Every row, lock and transaction has its type, and no retired row is a primary.
THEOREM NamesTyped == Spec => []TypeOK
  BY NamesStand, PTL
-----------------------------------------------------------------------------
\* Towards the registry: a name has one live row, a node one primary row, and only
\* node 0 is known by an id that no row has.
OneEach ==
  /\ \A r, q \in rows : r.live /\ q.live /\ r.name = q.name => r = q
  /\ \A r, q \in rows : r.primary /\ q.primary /\ r.node = q.node => r = q
  /\ \A m \in nodes : m.id = 0 \/ m.id \in Ids

\* What t names: a node that exists, or the one it makes, as its primary.
Aimed(t) ==
  IF tx[t].op = "bind" THEN tx[t].who = NoOne /\ \E m \in nodes : m.id = tx[t].node
  ELSE Binds(t) => tx[t].node = tx[t].id /\ tx[t].primary

\* Whom t demotes: primaries of its node, and by the time it has inserted all of them.
Displaced(t) ==
  /\ tx[t].pc \in {"demote", "demoting"} => tx[t].op = "bind" /\ tx[t].primary
  /\ \A r \in rows : r.id \in tx[t].hit /\ Binds(t) =>
       r.node = tx[t].node /\ tx[t].primary /\ (tx[t].pc \in {"insert", "commit"} => r.primary)
  /\ tx[t].pc = "commit" /\ Binds(t) /\ tx[t].primary =>
       \A r \in rows : r.primary /\ r.node = tx[t].node => r.id \in tx[t].hit

\* What t retires is there.
Found(t) == tx[t].pc = "commit" /\ ~ Binds(t) => tx[t].hit # {}

Plain(t) == Active(t) => Aimed(t) /\ Displaced(t) /\ Found(t)

Apart(t, u) ==
  t # u /\ tx[t].pc = "commit" /\ Binds(t) /\ tx[t].primary
        /\ tx[u].pc = "commit" /\ Binds(u) /\ tx[u].primary => tx[t].node # tx[u].node

RegistryInv ==
  /\ OneEach
  /\ \A t \in Txns : Plain(t)
  /\ \A t, u \in Txns : Apart(t, u)

\* A statement moves t on: its request is the same, and nothing is committed.
SameRequest(t) ==
  /\ tx'[t].op = tx[t].op /\ tx'[t].id = tx[t].id /\ tx'[t].node = tx[t].node
  /\ tx'[t].who = tx[t].who /\ tx'[t].primary = tx[t].primary
  /\ \A u \in Txns : u # t => tx'[u] = tx[u]
  /\ UNCHANGED <<rows, nodes>>

LEMMA MovesOn ==
  ASSUME TypeOK, NEW t \in Txns, Active(t), UNCHANGED <<rows, nodes>>, NEW pc,
         Goto(t, pc) \/ tx' = [tx EXCEPT ![t].pc = pc, ![t].at = now]
  PROVE  SameRequest(t) /\ tx'[t].pc = pc
<1>1. tx[t] \in Tx /\ tx \in [Txns -> Tx \cup {NoTx}]
  BY TxTyped DEF TypeOK
<1>2. CASE Goto(t, pc)
  BY <1>1, <1>2 DEF Goto, SameRequest, Tx
<1>3. CASE tx' = [tx EXCEPT ![t].pc = pc, ![t].at = now]
  <2>1. tx' = [tx EXCEPT ![t] = [tx[t] EXCEPT !.pc = pc, !.at = now]]
    BY <1>3
  <2> QED BY <1>1, <2>1 DEF SameRequest, Tx
<1> QED BY <1>2, <1>3

LEMMA HitMovesOn ==
  ASSUME TypeOK, NEW t \in Txns, Active(t), UNCHANGED <<rows, nodes>>, NEW pc, NEW hit,
         tx' = [tx EXCEPT ![t].pc = pc, ![t].hit = hit]
  PROVE  SameRequest(t) /\ tx'[t].pc = pc /\ tx'[t].hit = hit
<1>1. tx[t] \in Tx /\ tx \in [Txns -> Tx \cup {NoTx}]
  BY TxTyped DEF TypeOK
<1>2. tx' = [tx EXCEPT ![t] = [tx[t] EXCEPT !.pc = pc, !.hit = hit]]
  OBVIOUS
<1> QED BY <1>1, <1>2 DEF SameRequest, Tx

\* Where nothing is committed, only the one that moved has anything to show.
LEMMA OneMoved ==
  ASSUME RegistryInv, UNCHANGED <<rows, nodes>>, NEW t \in Txns,
         \A u \in Txns : u # t => tx'[u] = tx[u], Plain(t)', \A u \in Txns : Apart(t, u)'
  PROVE  RegistryInv'
<1>1. OneEach'
  BY DEF RegistryInv, OneEach, Ids
<1>2. ASSUME NEW u \in Txns, u # t PROVE Plain(u)'
  BY <1>2 DEF RegistryInv, Plain, Active, Aimed, Displaced, Found, Binds
<1>3. ASSUME NEW u \in Txns, NEW v \in Txns PROVE Apart(u, v)'
  <2>1. Apart(u, v) /\ Apart(t, u)' /\ Apart(t, v)'
    BY DEF RegistryInv
  <2>2. CASE u = t
    BY <2>1, <2>2
  <2>3. CASE v = t
    BY <2>1, <2>3 DEF Apart, Binds
  <2>4. CASE u # t /\ v # t
    BY <2>1, <2>4 DEF Apart, Binds
  <2> QED BY <2>2, <2>3, <2>4
<1> QED BY <1>1, <1>2, <1>3 DEF RegistryInv

LEMMA EndedToo ==
  ASSUME NameInv, RegistryInv, NEW t \in Txns, Rollback(t)
  PROVE  RegistryInv'
<1>1. tx'[t] = NoTx /\ \A u \in Txns : u # t => tx'[u] = tx[u]
  BY DEF Rollback, NameInv, TypeOK
<1>2. Plain(t)' /\ \A u \in Txns : Apart(t, u)'
  BY <1>1 DEF Plain, Active, Apart, NoTx
<1> QED BY <1>1, <1>2, OneMoved DEF Rollback

LEMMA RequestPlain ==
  ASSUME NameInv, RegistryInv, NEW t \in Txns, Request(t)
  PROVE  RegistryInv'
<1>1. UNCHANGED <<rows, nodes>> /\ \A u \in Txns : u # t => tx'[u] = tx[u]
  BY DEF Request, Ask, NameInv, TypeOK
<1>2. tx'[t].pc \in {"asked", "lock"} /\ tx'[t].hit = {} /\ Aimed(t)'
  BY <1>1 DEF Request, Ask, NameInv, TypeOK, Aimed, Binds
<1>3. Plain(t)' /\ \A u \in Txns : Apart(t, u)'
  BY <1>2 DEF Plain, Displaced, Found, Apart
<1> QED BY <1>1, <1>3, OneMoved

\* A statement that leaves t short of its commit, or about to retire what it found.
LEMMA StatementPlain ==
  ASSUME NameInv, RegistryInv, NEW t \in Txns, Active(t), SameRequest(t), Displaced(t)',
         tx'[t].pc # "commit" \/ (~ Binds(t) /\ tx'[t].hit # {})
  PROVE  RegistryInv'
<1>1. Aimed(t)
  BY DEF RegistryInv, Plain
<1>2. Aimed(t)' /\ Found(t)' /\ \A u \in Txns : Apart(t, u)'
  BY <1>1 DEF SameRequest, Aimed, Found, Apart, Binds
<1> QED BY <1>2, OneMoved DEF SameRequest, Plain

LEMMA EarlyPlain ==
  ASSUME NameInv, RegistryInv, NEW t \in Txns, Begin(t) \/ LockName(t) \/ Verdict(t)
  PROVE  RegistryInv'
<1>1. CASE Rollback(t)
  BY <1>1, EndedToo
<1>2. CASE ~ Rollback(t)
  <2>1. TypeOK /\ Active(t) /\ tx[t].hit = {} /\ UNCHANGED <<rows, nodes>>
    BY <1>2 DEF NameInv, TxOK, Staged, Active, Begin, LockName, Verdict
  <2>2. PICK pc \in {"lock", "verdict", "retire", "insert", "demote"} :
          /\ Goto(t, pc) \/ tx' = [tx EXCEPT ![t].pc = pc, ![t].at = now]
          /\ pc = "demote" => tx[t].op = "bind" /\ tx[t].primary
    BY <1>2 DEF Begin, LockName, Verdict
  <2>3. SameRequest(t) /\ tx'[t].pc = pc
    BY <2>1, <2>2, MovesOn
  <2>4. tx'[t].hit = {}
    <3>1. tx[t] \in Tx /\ tx \in [Txns -> Tx \cup {NoTx}]
      BY <2>1, TxTyped DEF TypeOK
    <3>2. CASE Goto(t, pc)
      BY <2>1, <3>2, GotoKeeps
    <3>3. CASE tx' = [tx EXCEPT ![t].pc = pc, ![t].at = now]
      <4>1. tx' = [tx EXCEPT ![t] = [tx[t] EXCEPT !.pc = pc, !.at = now]]
        BY <3>3
      <4> QED BY <2>1, <3>1, <4>1 DEF Tx
    <3> QED BY <2>2, <3>2, <3>3
  <2>5. Displaced(t)'
    BY <2>2, <2>3, <2>4 DEF Displaced, SameRequest
  <2> QED BY <2>1, <2>2, <2>3, <2>5, StatementPlain
<1> QED BY <1>1, <1>2

LEMMA FindPrimaryPlain ==
  ASSUME NameInv, RegistryInv, NEW t \in Txns, FindPrimary(t)
  PROVE  RegistryInv'
<1> DEFINE hit == {r.id : r \in {r \in rows : r.node = tx[t].node /\ r.primary}}
<1>1. TypeOK /\ RowsOK /\ Active(t) /\ Displaced(t) /\ tx[t].pc = "demote"
  BY DEF NameInv, RegistryInv, Plain, FindPrimary, Active
<1>2. tx' = [tx EXCEPT ![t].pc = "demoting", ![t].hit = hit] /\ UNCHANGED <<rows, nodes>>
  BY DEF FindPrimary
<1>3. \A r \in rows : r.id \in hit => r.node = tx[t].node
  BY <1>1 DEF RowsOK
<1> HIDE DEF hit
<1>4. SameRequest(t) /\ tx'[t].pc = "demoting" /\ tx'[t].hit = hit
  BY <1>1, <1>2, HitMovesOn
<1>5. Displaced(t)'
  BY <1>1, <1>3, <1>4 DEF Displaced, SameRequest, Binds
<1> QED BY <1>1, <1>4, <1>5, StatementPlain

LEMMA DemotePlain ==
  ASSUME NameInv, RegistryInv, NEW t \in Txns, Demote(t)
  PROVE  RegistryInv'
<1> DEFINE hit == {r.id : r \in {r \in rows : r.id \in tx[t].hit /\ r.primary}}
<1>1. TypeOK /\ RowsOK /\ Active(t) /\ Displaced(t) /\ tx[t].pc = "demoting"
  BY DEF NameInv, RegistryInv, Plain, Demote, Active
<1>2. tx' = [tx EXCEPT ![t].pc = "insert", ![t].hit = hit] /\ UNCHANGED <<rows, nodes>>
  BY DEF Demote
<1>3. \A r \in rows : r.id \in hit => r.id \in tx[t].hit /\ r.primary
  BY <1>1 DEF RowsOK
<1> HIDE DEF hit
<1>4. SameRequest(t) /\ tx'[t].pc = "insert" /\ tx'[t].hit = hit
  BY <1>1, <1>2, HitMovesOn
<1>5. Displaced(t)'
  BY <1>1, <1>3, <1>4 DEF Displaced, SameRequest, Binds
<1> QED BY <1>1, <1>4, <1>5, StatementPlain

LEMMA RetirePlain ==
  ASSUME NameInv, RegistryInv, NEW t \in Txns, Retire(t)
  PROVE  RegistryInv'
<1> DEFINE hit == {r.id : r \in {r \in rows : r.name = tx[t].name /\ r.live}}
<1>1. CASE Rollback(t)
  BY <1>1, EndedToo
<1>2. CASE hit # {} /\ tx' = [tx EXCEPT ![t].pc = "commit", ![t].hit = hit] /\ UNCHANGED <<rows, nodes>>
  <2>1. TypeOK /\ Active(t) /\ ~ Binds(t)
    BY DEF NameInv, TxOK, Staged, Retire, Active
  <2> HIDE DEF hit
  <2>2. SameRequest(t) /\ tx'[t].pc = "commit" /\ tx'[t].hit = hit
    BY <1>2, <2>1, HitMovesOn
  <2>3. Displaced(t)'
    BY <2>1, <2>2 DEF Displaced, SameRequest, Binds
  <2> QED BY <1>2, <2>1, <2>2, <2>3, StatementPlain
<1> QED BY <1>1, <1>2 DEF Retire

\* The unique indexes leave no primary row of the node that t has not demoted.
LEMMA InsertPlain ==
  ASSUME NameInv, RegistryInv, NEW t \in Txns, Insert(t)
  PROVE  RegistryInv'
<1>1. CASE Rollback(t)
  BY <1>1, EndedToo
<1>2. CASE InTheWay(t) = {} /\ Goto(t, "commit") /\ UNCHANGED <<rows, nodes>>
  <2>1. TypeOK /\ Active(t) /\ tx[t].pc = "insert" /\ Binds(t) /\ Displaced(t) /\ Aimed(t)
    BY DEF NameInv, RegistryInv, Plain, TxOK, Staged, Insert, Active
  <2>2. SameRequest(t) /\ tx'[t].pc = "commit" /\ tx'[t].hit = tx[t].hit
    BY <1>2, <2>1, MovesOn, GotoKeeps
  <2>3. tx[t].primary => \A r \in rows : r.primary /\ r.node = tx[t].node => r.id \in tx[t].hit
    BY <1>2 DEF InTheWay
  <2>4. Displaced(t)'
    BY <2>1, <2>2, <2>3 DEF Displaced, SameRequest, Binds
  <2>5. Aimed(t)' /\ Found(t)'
    BY <2>1, <2>2 DEF Aimed, Found, SameRequest, Binds
  <2>6. ASSUME NEW u \in Txns PROVE Apart(t, u)'
    <3>1. u # t /\ tx[u].pc = "commit" /\ Binds(u) /\ tx[u].primary /\ tx[t].primary => tx[t].node # tx[u].node
      BY DEF Insert
    <3> QED BY <2>2, <3>1 DEF Apart, SameRequest, Binds
  <2> QED BY <2>2, <2>4, <2>5, <2>6, OneMoved DEF SameRequest, Plain
<1> QED BY <1>1, <1>2 DEF Insert

-----------------------------------------------------------------------------
\* What a bind leaves primary: its own row if it asked for that, and whatever it has not demoted.
LEMMA BoundPrimary ==
  ASSUME NameInv, NEW t \in Txns, CommitBind(t)
  PROVE  \A q \in rows' :
           \/ /\ q.id = tx[t].id /\ q.name = tx[t].name /\ q.node = tx[t].node
              /\ q.primary = tx[t].primary
           \/ \E r \in rows : Alike(r, q) /\ (q.primary => r.primary) /\
                              (r.id \notin tx[t].hit => q = r) /\ (r.id \in tx[t].hit => ~ q.primary)
<1> DEFINE new == [id |-> tx[t].id, name |-> tx[t].name, node |-> tx[t].node,
                   primary |-> tx[t].primary, live |-> TRUE, at |-> tx[t].at, revoked |-> 0]
           down(r) == IF r.id \in tx[t].hit THEN [r EXCEPT !.primary = FALSE] ELSE r
<1>1. rows' = {down(r) : r \in rows} \cup {new}
  BY DEF CommitBind
<1>2. \A r \in rows : /\ Alike(r, down(r)) /\ (down(r).primary => r.primary)
                      /\ r.id \notin tx[t].hit => down(r) = r
                      /\ r.id \in tx[t].hit => ~ down(r).primary
  BY DEF Alike, NameInv, TypeOK, Row
<1>3. new.id = tx[t].id /\ new.name = tx[t].name /\ new.node = tx[t].node /\ new.primary = tx[t].primary
  OBVIOUS
<1> HIDE DEF new, down
<1> QED BY <1>1, <1>2, <1>3

LEMMA CommitBindPlain ==
  ASSUME NameInv, RegistryInv, NEW t \in Txns, CommitBind(t)
  PROVE  RegistryInv'
<1>1. /\ TxOK(t) /\ Plain(t) /\ RowsOK /\ OneEach /\ tx[t].pc = "commit" /\ Binds(t)
      /\ Active(t) /\ tx[t].id \notin Ids /\ Aimed(t) /\ Displaced(t) /\ Vacant(t)
  BY DEF NameInv, RegistryInv, Plain, CommitBind, Active, TxOK
<1>2. \A u \in Txns : tx'[u] = IF u = t THEN NoTx ELSE tx[u]
  BY DEF CommitBind, NameInv, TypeOK
<1>3. OneEach'
  <2>1. ASSUME NEW q \in rows', NEW p \in rows', q.live, p.live, q.name = p.name PROVE q.id = p.id
    <3>1. \A r \in rows : r.live => r.name # tx[t].name
      BY <1>1 DEF Vacant
    <3> QED BY <1>1, <2>1, <3>1, Bound DEF Alike, OneEach
  <2>2. ASSUME NEW q \in rows', NEW p \in rows', q.primary, p.primary, q.node = p.node PROVE q.id = p.id
    <3>1. tx[t].primary => \A r \in rows : r.primary /\ r.node = tx[t].node => r.id \in tx[t].hit
      BY <1>1 DEF Displaced
    <3>2. CASE q.id = tx[t].id \/ p.id = tx[t].id
      BY <1>1, <2>2, <3>1, <3>2, BoundPrimary DEF Alike, Ids
    <3>3. CASE q.id # tx[t].id /\ p.id # tx[t].id
      <4>1. PICK r \in rows : Alike(r, q) /\ r.primary
        BY <2>2, <3>3, BoundPrimary
      <4>2. PICK s \in rows : Alike(s, p) /\ s.primary
        BY <2>2, <3>3, BoundPrimary
      <4> QED BY <1>1, <2>2, <4>1, <4>2 DEF Alike, OneEach
    <3> QED BY <3>2, <3>3
  <2>3. \A m \in nodes' : m.id = 0 \/ m.id \in Ids'
    <3>1. Ids' = Ids \cup {tx[t].id}
      BY Bound
    <3>2. nodes' = nodes \/ nodes' = nodes \cup {[id |-> tx[t].id, who |-> tx[t].who, active |-> TRUE]}
      BY <1>1 DEF CommitBind, Aimed
    <3> QED BY <1>1, <3>1, <3>2 DEF OneEach
  <2> QED BY <2>1, <2>2, <2>3, Bound DEF OneEach
<1>4. ASSUME NEW u \in Txns, u # t, Active(u) PROVE Plain(u)'
  <2>1. tx'[u] = tx[u] /\ Plain(u) /\ PairOK(t, u) /\ Apart(t, u) /\ TxOK(u)
    BY <1>2, <1>4 DEF NameInv, RegistryInv
  <2>2. Aimed(u)'
    <3>1. nodes \subseteq nodes' /\ Aimed(u)
      BY <1>4, <2>1 DEF CommitBind, Plain
    <3> QED BY <2>1, <3>1 DEF Aimed, Binds
  <2>3. Displaced(u) /\ Found(u) /\ tx[u].hit \subseteq Ids
    BY <1>4, <2>1 DEF Plain, TxOK, Touched
  <2>4. tx[u].pc \in {"insert", "commit"} => tx[u].hit \cap tx[t].hit = {}
    BY <1>1, <1>4, <2>1 DEF PairOK, RowLocks
  <2>5. ASSUME NEW q \in rows', q.id \in tx[u].hit, Binds(u)
        PROVE  q.node = tx[u].node /\ tx[u].primary /\ (tx[u].pc \in {"insert", "commit"} => q.primary)
    <3>1. PICK r \in rows : Alike(r, q) /\ (r.id \notin tx[t].hit => q = r)
      BY <1>1, <2>3, <2>5, BoundPrimary
    <3> QED BY <2>3, <2>4, <2>5, <3>1 DEF Alike, Displaced
  <2>6. ASSUME tx[u].pc = "commit", Binds(u), tx[u].primary, NEW q \in rows', q.primary, q.node = tx[u].node
        PROVE  q.id \in tx[u].hit
    <3>1. tx[t].primary => tx[t].node # tx[u].node
      BY <1>1, <1>4, <2>1, <2>6 DEF Apart
    <3>2. PICK r \in rows : Alike(r, q) /\ r.primary
      BY <2>6, <3>1, BoundPrimary
    <3> QED BY <2>3, <2>6, <3>2 DEF Alike, Displaced
  <2>7. Displaced(u)'
    BY <2>1, <2>3, <2>5, <2>6 DEF Displaced, Binds
  <2>8. Found(u)'
    BY <2>1, <2>3 DEF Found, Binds
  <2> QED BY <2>2, <2>7, <2>8 DEF Plain
<1>5. \A u \in Txns : Plain(u)'
  BY <1>2, <1>4 DEF Plain, Active, NoTx
<1>6. \A u, v \in Txns : Apart(u, v)'
  BY <1>2 DEF Apart, Binds, NoTx, RegistryInv
<1> QED BY <1>3, <1>5, <1>6 DEF RegistryInv

LEMMA CommitRevokePlain ==
  ASSUME NameInv, RegistryInv, TypeOK', NEW t \in Txns, CommitRevoke(t)
  PROVE  RegistryInv'
<1>1. TxOK(t) /\ RowsOK /\ OneEach /\ tx[t].pc = "commit" /\ ~ Binds(t) /\ Active(t)
  BY DEF NameInv, RegistryInv, CommitRevoke, Active
<1>2. \A u \in Txns : tx'[u] = IF u = t THEN NoTx ELSE tx[u]
  BY DEF CommitRevoke, NameInv, TypeOK
<1>3. \A q \in rows' : \E r \in rows :
        /\ q.id = r.id /\ q.name = r.name /\ q.node = r.node
        /\ IF r.id \in tx[t].hit THEN ~ q.live /\ ~ q.primary ELSE q = r
  BY Revoked DEF TypeOK
<1>4. \A m \in nodes' : \E k \in nodes : m.id = k.id
  <2>1. \A k \in nodes : [k EXCEPT !.active = FALSE].id = k.id
    BY DEF NameInv, TypeOK, Node
  <2> QED BY <2>1 DEF CommitRevoke
<1>5. \A k \in nodes : \E m \in nodes' : m.id = k.id
  <2> SUFFICES ASSUME NEW k \in nodes PROVE \E m \in nodes' : m.id = k.id
    OBVIOUS
  <2> DEFINE m == IF tx[t].op = "revoke" /\ k.id = tx[t].node THEN [k EXCEPT !.active = FALSE] ELSE k
  <2>1. m \in nodes' /\ m.id = k.id
    BY DEF CommitRevoke, NameInv, TypeOK, Node
  <2> QED BY <2>1
<1>6. OneEach'
  <2>1. \A m \in nodes' : m.id = 0 \/ m.id \in Ids'
    BY <1>1, <1>4, Revoked DEF OneEach
  <2>2. ASSUME NEW q \in rows', NEW p \in rows',
               (q.live /\ p.live /\ q.name = p.name) \/ (q.primary /\ p.primary /\ q.node = p.node)
        PROVE  q = p
    <3>1. q \in rows /\ p \in rows
      BY <1>3, <2>2 DEF TypeOK
    <3> QED BY <1>1, <2>2, <3>1 DEF OneEach
  <2> QED BY <2>1, <2>2 DEF OneEach
<1>7. ASSUME NEW u \in Txns, u # t, Active(u) PROVE Plain(u)'
  <2>1. tx'[u] = tx[u] /\ Plain(u) /\ PairOK(t, u)
    BY <1>2, <1>7 DEF NameInv, RegistryInv
  <2>2. Aimed(u) /\ Displaced(u) /\ Found(u)
    BY <1>7, <2>1 DEF Plain
  <2>3. Aimed(u)' /\ Found(u)'
    BY <1>5, <2>1, <2>2 DEF Aimed, Found, Binds
  <2>4. tx[u].pc \in {"insert", "commit"} => tx[u].hit \cap tx[t].hit = {}
    BY <1>1, <1>7, <2>1 DEF PairOK, RowLocks
  <2>5. ASSUME NEW q \in rows', q.id \in tx[u].hit, Binds(u)
        PROVE  q.node = tx[u].node /\ tx[u].primary /\ (tx[u].pc \in {"insert", "commit"} => q.primary)
    BY <1>3, <2>2, <2>4, <2>5 DEF Displaced
  <2>6. ASSUME tx[u].pc = "commit", Binds(u), tx[u].primary, NEW q \in rows', q.primary, q.node = tx[u].node
        PROVE  q.id \in tx[u].hit
    <3>1. q \in rows
      BY <1>3, <2>6
    <3> QED BY <2>2, <2>6, <3>1 DEF Displaced
  <2>7. Displaced(u)'
    BY <2>1, <2>2, <2>5, <2>6 DEF Displaced, Binds
  <2> QED BY <2>3, <2>7 DEF Plain
<1>8. \A u \in Txns : Plain(u)'
  BY <1>2, <1>7 DEF Plain, Active, NoTx
<1>9. \A u, v \in Txns : Apart(u, v)'
  BY <1>2 DEF Apart, Binds, NoTx, RegistryInv
<1> QED BY <1>6, <1>8, <1>9 DEF RegistryInv

LEMMA RegistryInit == Init => RegistryInv
BY DEF Init, RegistryInv, OneEach, Plain, Active, Apart, NoTx

LEMMA RegistryInvStep == NameInv /\ NameInv' /\ RegistryInv /\ [Next]_vars => RegistryInv'
<1> SUFFICES ASSUME NameInv, NameInv', RegistryInv, [Next]_vars PROVE RegistryInv'
  OBVIOUS
<1>1. CASE Tick \/ UNCHANGED vars
  BY <1>1 DEF Tick, vars, RegistryInv, OneEach, Ids, Plain, Active, Aimed, Displaced, Found, Apart, Binds
<1>2. ASSUME NEW t \in Txns, Request(t) \/ Step(t) \/ Lost(t) PROVE RegistryInv'
  <2>1. TypeOK'
    BY DEF NameInv
  <2> QED
    BY <1>2, <2>1, EndedToo, RequestPlain, EarlyPlain, FindPrimaryPlain, DemotePlain, InsertPlain,
       RetirePlain, CommitBindPlain, CommitRevokePlain DEF Step, Lost
<1> QED BY <1>1, <1>2 DEF Next

-----------------------------------------------------------------------------
\* The rule, as the registry says it and as the transaction asked it.
LEMMA AllowedWhenTold ==
  ASSUME NEW n, NEW who, NEW at, MayBind(n, who, at)
  PROVE  Promised!Allowed(n, who, at)
<1>1. Promised!Past(n) = Retired(n)
  BY DEF Promised!Past, Retired
<1>2. ASSUME NEW r, Resolves(r.node, who) PROVE \E m \in nodes : m.id = r.node /\ m.who = who
  BY <1>2 DEF Resolves
<1>3. (\A r \in Retired(n) : Resolves(r.node, who)) => Promised!Always(n, who)
  BY <1>1, <1>2 DEF Promised!Always
<1>4. Retired(n) = {} => Promised!Past(n) = {}
  BY <1>1
<1>5. (\A r \in Retired(n) : r.revoked + Hold <= at) => \A r \in Promised!Past(n) : r.revoked + Hold <= at
  BY <1>1
<1> QED BY <1>3, <1>4, <1>5, Zenon DEF MayBind, Promised!Allowed

\* A commit that binds is the registry binding: what it displaces is all there is to displace.
LEMMA CommitBinds ==
  ASSUME NameInv, RegistryInv, NEW t \in Txns, CommitBind(t)
  PROVE  Promised!Bind(tx[t].id, tx[t].name, tx[t].node, Reclaimer(t), tx[t].primary, tx[t].at)
<1>1. /\ TypeOK /\ TxOK(t) /\ Displaced(t) /\ tx[t].pc = "commit" /\ Binds(t)
      /\ tx[t].id \notin Ids /\ Vacant(t) /\ Told(t)
  BY DEF NameInv, RegistryInv, Plain, CommitBind, Active, TxOK
<1>2. Promised!Free(tx[t].name)
  BY <1>1 DEF Promised!Free, Vacant
<1>3. Promised!Allowed(tx[t].name, Reclaimer(t), tx[t].at)
  BY <1>1, AllowedWhenTold DEF Told
<1> DEFINE new == [id |-> tx[t].id, name |-> tx[t].name, node |-> tx[t].node,
                   primary |-> tx[t].primary, live |-> TRUE, at |-> tx[t].at, revoked |-> 0]
           down(r) == IF r.id \in tx[t].hit THEN [r EXCEPT !.primary = FALSE] ELSE r
           displaced(r) == IF tx[t].primary /\ r.node = tx[t].node THEN [r EXCEPT !.primary = FALSE] ELSE r
<1>4. \A r \in rows : down(r) = displaced(r)
  <2> SUFFICES ASSUME NEW r \in rows PROVE down(r) = displaced(r)
    OBVIOUS
  <2>1. CASE r.id \in tx[t].hit
    BY <1>1, <2>1 DEF Displaced
  <2>2. CASE r.id \notin tx[t].hit /\ tx[t].primary /\ r.node = tx[t].node
    <3>1. r.primary = FALSE /\ r \in Row
      BY <1>1, <2>2 DEF Displaced, TypeOK, Row
    <3>2. [r EXCEPT !.primary = FALSE] = r
      BY <3>1 DEF Row
    <3> QED BY <2>2, <3>2
  <2>3. CASE r.id \notin tx[t].hit /\ ~ (tx[t].primary /\ r.node = tx[t].node)
    BY <2>3
  <2> QED BY <2>1, <2>2, <2>3
<1>5. rows' = {down(r) : r \in rows} \cup {new}
  BY DEF CommitBind
<1>6. {down(r) : r \in rows} = {displaced(r) : r \in rows}
  <2> HIDE DEF down, displaced
  <2> QED BY <1>4
<1>7. rows' = {displaced(r) : r \in rows} \cup {new}
  BY <1>5, <1>6
<1>8. \A r \in rows : r.id # tx[t].id
  BY <1>1 DEF Ids
<1> QED BY <1>2, <1>3, <1>7, <1>8 DEF Promised!Bind

LEMMA CommitBindNames ==
  ASSUME NameInv, RegistryInv, NEW t \in Txns, CommitBind(t)
  PROVE  Promised!Next
<1> DEFINE id == tx[t].id  n == tx[t].name  at == tx[t].at
<1>1. TypeOK /\ tx[t] \in Tx /\ Aimed(t) /\ Binds(t) /\ OneEach /\ id \notin Ids
  BY TxTyped DEF NameInv, RegistryInv, Plain, CommitBind, Active, TxOK
<1>2. id \in 1..MaxOps /\ n \in Names /\ at \in 0..MaxNow /\ tx[t].who \in Identities \cup {NoOne}
      /\ tx[t].primary \in BOOLEAN
  BY <1>1 DEF Tx
<1>3. Promised!Bind(id, n, tx[t].node, Reclaimer(t), tx[t].primary, at)
  BY CommitBinds
<1>4. CASE tx[t].op = "bind"
  <2>1. PICK m \in nodes : m.id = tx[t].node
    BY <1>1, <1>4 DEF Aimed
  <2>2. Reclaimer(t) = NoOne /\ nodes' = nodes
    BY <1>4 DEF Reclaimer, CommitBind
  <2>3. Promised!Bind(id, n, m.id, NoOne, tx[t].primary, at)
    BY <1>3, <2>1, <2>2
  <2>4. Promised!Name(id, n, at)
    BY <1>2, <2>2, <2>3 DEF Promised!Name
  <2> QED BY <1>2, <2>4 DEF Promised!Next
<1>5. CASE tx[t].op # "bind"
  <2>1. tx[t].node = id /\ tx[t].primary = TRUE
    BY <1>1, <1>5 DEF Aimed, Tx
  <2>2. nodes' = nodes \cup {[id |-> id, who |-> tx[t].who, active |-> TRUE]}
    BY <1>5, <2>1 DEF CommitBind
  <2>3. \A m \in nodes : m.id # id
    <3>1. id # 0
      BY <1>2, NamesAssumption
    <3> QED BY <1>1, <3>1 DEF OneEach
  <2> DEFINE asked == tx[t].op = "reclaim"
  <2>4. asked \in BOOLEAN /\ Reclaimer(t) = IF asked THEN tx[t].who ELSE NoOne
    BY DEF Reclaimer
  <2> HIDE DEF asked
  <2>5. Promised!Bind(id, n, id, IF asked THEN tx[t].who ELSE NoOne, TRUE, at)
    BY <1>3, <2>1, <2>4
  <2>6. Promised!Issue(id, n, at)
    BY <1>2, <2>2, <2>3, <2>4, <2>5 DEF Promised!Issue
  <2> QED BY <1>2, <2>6 DEF Promised!Next
<1> QED BY <1>4, <1>5

\* A commit that retires finds one live row: what it has touched is live and of one name.
LEMMA CommitRevokeRetires ==
  ASSUME NameInv, RegistryInv, NEW t \in Txns, CommitRevoke(t)
  PROVE  Promised!Next
<1>1. /\ TypeOK /\ RowsOK /\ OneEach /\ Touched(t) /\ Found(t) /\ tx[t] \in Tx
      /\ tx[t].pc = "commit" /\ ~ Binds(t)
  BY TxTyped DEF NameInv, RegistryInv, Plain, CommitRevoke, Active, TxOK
<1>2. PICK r \in rows : r.id \in tx[t].hit
  BY <1>1 DEF Found, Touched, Ids
<1>3. \A q \in rows : q.id \in tx[t].hit => q.live /\ q.name = tx[t].name
  BY <1>1 DEF Touched, RowLocks
<1>4. \A q \in rows : q.id \in tx[t].hit <=> q = r
  BY <1>1, <1>2, <1>3 DEF OneEach
<1> DEFINE at == tx[t].at
           gone(q) == [q EXCEPT !.live = FALSE, !.primary = FALSE, !.revoked = at]
<1>5. rows' = {IF q.id \in tx[t].hit THEN gone(q) ELSE q : q \in rows}
  BY DEF CommitRevoke
<1> HIDE DEF gone
<1>6. rows' = (rows \ {r}) \cup {gone(r)}
  BY <1>4, <1>5
<1>7. \/ UNCHANGED nodes
      \/ \E m \in nodes : nodes' = {IF k.id = m.id THEN [k EXCEPT !.active = FALSE] ELSE k : k \in nodes}
  <2>1. nodes' = {IF tx[t].op = "revoke" /\ k.id = tx[t].node THEN [k EXCEPT !.active = FALSE] ELSE k : k \in nodes}
    BY DEF CommitRevoke
  <2>2. CASE tx[t].op = "revoke" /\ \E m \in nodes : m.id = tx[t].node
    <3>1. PICK m \in nodes : m.id = tx[t].node
      BY <2>2
    <3>2. nodes' = {IF k.id = m.id THEN [k EXCEPT !.active = FALSE] ELSE k : k \in nodes}
      BY <2>1, <2>2, <3>1
    <3> QED BY <3>2
  <2>3. CASE ~ (tx[t].op = "revoke" /\ \E m \in nodes : m.id = tx[t].node)
    BY <2>1, <2>3
  <2> QED BY <2>2, <2>3
<1>8. Promised!Retire(r, at)
  BY <1>2, <1>3, <1>6, <1>7 DEF Promised!Retire, gone
<1>9. at \in 0..MaxNow
  BY <1>1 DEF Tx
<1> QED BY <1>8, <1>9 DEF Promised!Next

\* A name has one live binding and a node one primary name at any time, whatever
\* transactions race: the name lock and the checks of the unique indexes, with the
\* rows a demotion has locked, see to it.
THEOREM OneOfEach == Spec => []OneEach
<1>1. RegistryInv => OneEach
  BY DEF RegistryInv
<1> QED BY <1>1, InitEstablishes, NameInvStep, RegistryInit, RegistryInvStep, PTL DEF Spec

\* The name plane implements the registry: each transaction takes effect at its commit,
\* as one binding the rule allows at that moment or one retirement, and all that happens
\* in between is a stutter.
THEOREM NamesAreARegistry == Spec => ByTheRule /\ Promised!Spec
<1>1. Init => Promised!Init
  BY DEF Init, Promised!Init
<1>2. NameInv /\ RegistryInv /\ [Next]_vars =>
        [UNCHANGED <<rows, nodes>> \/ Promised!Next]_<<rows, nodes>> /\ [Promised!Next]_(Promised!vars)
  <2> SUFFICES ASSUME NameInv, RegistryInv, [Next]_vars PROVE UNCHANGED <<rows, nodes>> \/ Promised!Next
    BY Zenon DEF Promised!vars
  <2>1. ASSUME NEW t \in Txns, Request(t) \/ Step(t) \/ Lost(t) PROVE UNCHANGED <<rows, nodes>> \/ Promised!Next
    <3>1. CASE CommitBind(t)
      BY <3>1, CommitBindNames
    <3>2. CASE CommitRevoke(t)
      BY <3>2, CommitRevokeRetires
    <3>3. CASE ~ CommitBind(t) /\ ~ CommitRevoke(t)
      <4>1. UNCHANGED <<rows, nodes>>
        BY <2>1, <3>3 DEF Step, Request, Lost, Rollback, Begin, LockName, Verdict, FindPrimary, Demote, Insert, Retire
      <4> QED BY <4>1
    <3> QED BY <3>1, <3>2, <3>3
  <2>2. CASE Tick \/ UNCHANGED vars
    <3>1. UNCHANGED <<rows, nodes>>
      BY <2>2 DEF Tick, vars
    <3> QED BY <3>1
  <2> QED BY <2>1, <2>2 DEF Next
<1> QED BY <1>1, <1>2, InitEstablishes, NameInvStep, RegistryInit, RegistryInvStep, PTL
        DEF Spec, ByTheRule, Promised!Spec

================================================================================
