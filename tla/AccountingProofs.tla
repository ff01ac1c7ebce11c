-------------------------- MODULE AccountingProofs ---------------------------
(***************************************************************************)
(* What must add up, proved for any users, keys, amounts and connections   *)
(* of the wallet, and for any streams, sources, ladders, cost tables and   *)
(* budgets of the live lane.                                               *)
(*                                                                         *)
(* The first part is about sums over finite sets, which both need: the     *)
(* fold of the community modules is the number of the units in the set.    *)
(*                                                                         *)
(* The second is about the wallet.  Its first invariant is about what      *)
(* transactions hold against each other: no two hold one row or one key,   *)
(* what a transaction has changed is held, and no change takes a balance   *)
(* below zero.  Its second follows the money: what a transaction has moved *)
(* at each statement, so that what it posts when it commits is exactly the *)
(* difference it makes.                                                    *)
(*                                                                         *)
(* The third is about the live lane: rows and leases of streams that have  *)
(* ended, and the capacity that is leased.  A lease is what its ladder was *)
(* planned until the ladder falls behind, and is then charged no more.     *)
(***************************************************************************)
EXTENDS Wallet, LiveLane, FiniteSetTheorems, WellFoundedInduction, TLAPS

-----------------------------------------------------------------------------
(* Sums over finite sets. *)

\* What is claimed of every subset of a finite set and fails, fails for one whose
\* proper subsets it holds of.
LEMMA SmallestSubset ==
  ASSUME NEW S, IsFiniteSet(S), NEW F \in SUBSET SUBSET S, F # {}
  PROVE  \E T \in F : \A U \in SUBSET T : U # T => U \notin F
<1>1. IsWellFoundedOn(StrictSubsetOrdering(S), SUBSET S)
  BY FS_StrictSubsetOrderingWellFounded, FS_FiniteSubsetsOfFinite
<1>2. PICK T \in F : \A U \in F : <<U, T>> \notin StrictSubsetOrdering(S)
  BY <1>1, WFMin
<1>3. ASSUME NEW U \in SUBSET T, U # T, U \in F PROVE FALSE
  BY <1>2, <1>3 DEF StrictSubsetOrdering
<1> QED
  BY <1>3

\* Every element of S as many times as w says.
Units(w, S) == {p \in S \X Nat : p[2] \in 1..w[p[1]]}

LEMMA UnitsStep ==
  ASSUME NEW D, NEW w \in [D -> Nat], NEW S \in SUBSET D, NEW x \in S, IsFiniteSet(Units(w, S \ {x}))
  PROVE  /\ IsFiniteSet(Units(w, S))
         /\ Cardinality(Units(w, S)) = w[x] + Cardinality(Units(w, S \ {x}))
<1> DEFINE rest == Units(w, S \ {x})
           here == {x} \X (1..w[x])
<1>1. w[x] \in Nat
  OBVIOUS
<1>2. IsFiniteSet(1..w[x]) /\ Cardinality(1..w[x]) = w[x]
  BY <1>1, FS_Interval
<1>3. IsFiniteSet({x}) /\ Cardinality({x}) = 1
  BY FS_Singleton
<1>4. IsFiniteSet(here) /\ Cardinality(here) = 1 * w[x]
  BY <1>2, <1>3, FS_Product
<1>5. Units(w, S) = rest \cup here
  BY <1>1 DEF Units
<1>6. rest \cap here = {}
  BY DEF Units
<1>7. Cardinality(rest \cap here) = 0
  BY <1>6, FS_EmptySet
<1>8. Cardinality(rest) \in Nat
  BY FS_CardinalityType
<1> HIDE DEF rest, here
<1>9. IsFiniteSet(rest)
  BY DEF rest
<1>10. /\ IsFiniteSet(rest \cup here)
       /\ Cardinality(rest \cup here) = Cardinality(rest) + Cardinality(here) - Cardinality(rest \cap here)
  BY <1>4, <1>9, FS_Union
<1>11. Cardinality(rest \cup here) = w[x] + Cardinality(rest)
  BY <1>1, <1>4, <1>7, <1>8, <1>10
<1> QED
  BY <1>5, <1>10, <1>11 DEF rest

LEMMA UnitsFinite ==
  ASSUME NEW D, NEW w \in [D -> Nat], NEW S \in SUBSET D, IsFiniteSet(S)
  PROVE  IsFiniteSet(Units(w, S)) /\ Cardinality(Units(w, S)) \in Nat
<1> DEFINE F == {T \in SUBSET S : ~ IsFiniteSet(Units(w, T))}
<1>1. F = {}
  <2> SUFFICES ASSUME F # {} PROVE FALSE
    OBVIOUS
  <2>1. PICK T \in F : \A U \in SUBSET T : U # T => U \notin F
    <3> HIDE DEF F
    <3>1. F \in SUBSET SUBSET S
      BY DEF F
    <3> QED
      BY <3>1, SmallestSubset
  <2>2. Units(w, {}) = {}
    BY DEF Units
  <2>3. T # {}
    BY <2>2, FS_EmptySet
  <2>4. PICK x \in T : TRUE
    BY <2>3
  <2>5. IsFiniteSet(Units(w, T \ {x}))
    BY <2>1, <2>4
  <2>6. IsFiniteSet(Units(w, T))
    BY <2>4, <2>5, UnitsStep
  <2> QED
    BY <2>6
<1>2. IsFiniteSet(Units(w, S))
  BY <1>1
<1> QED
  BY <1>2, FS_CardinalityType

Pick(T) == CHOOSE x \in T : TRUE

\* h adds w up over every subset of S, an element at a time (MapThenSumSet).
Adds(h, w, S) == h = [T \in SUBSET S |-> IF T = {} THEN 0 ELSE w[Pick(T)] + h[T \ {Pick(T)}]]

LEMMA PickIs == ASSUME NEW T, T # {} PROVE Pick(T) \in T
BY DEF Pick

LEMMA UnitsAdd ==
  ASSUME NEW D, NEW w \in [D -> Nat], NEW S \in SUBSET D, IsFiniteSet(S)
  PROVE  Adds([T \in SUBSET S |-> Cardinality(Units(w, T))], w, S)
<1> DEFINE h == [T \in SUBSET S |-> Cardinality(Units(w, T))]
<1> SUFFICES ASSUME NEW T \in SUBSET S
             PROVE  Cardinality(Units(w, T)) = IF T = {} THEN 0 ELSE w[Pick(T)] + h[T \ {Pick(T)}]
  BY DEF Adds
<1>1. CASE T = {}
  <2>1. Units(w, {}) = {}
    BY DEF Units
  <2> QED
    BY <1>1, <2>1, FS_EmptySet
<1>2. CASE T # {}
  <2>1. Pick(T) \in T
    BY <1>2, PickIs
  <2>2. IsFiniteSet(T \ {Pick(T)}) /\ T \ {Pick(T)} \in SUBSET D
    BY FS_Subset
  <2>3. IsFiniteSet(Units(w, T \ {Pick(T)}))
    BY <2>2, UnitsFinite
  <2> QED
    BY <1>2, <2>1, <2>3, UnitsStep
<1> QED
  BY <1>1, <1>2

LEMMA AddsUnits ==
  ASSUME NEW D, NEW w \in [D -> Nat], NEW S \in SUBSET D, IsFiniteSet(S), NEW h, Adds(h, w, S)
  PROVE  h[S] = Cardinality(Units(w, S))
<1> DEFINE F == {T \in SUBSET S : h[T] # Cardinality(Units(w, T))}
           g == [T \in SUBSET S |-> Cardinality(Units(w, T))]
<1>g. Adds(g, w, S)
  BY UnitsAdd
<1> HIDE DEF g
<1>e. /\ \A T \in SUBSET S : h[T] = IF T = {} THEN 0 ELSE w[Pick(T)] + h[T \ {Pick(T)}]
      /\ \A T \in SUBSET S : g[T] = IF T = {} THEN 0 ELSE w[Pick(T)] + g[T \ {Pick(T)}]
  BY <1>g DEF Adds
<1>1. F = {}
  <2> SUFFICES ASSUME F # {} PROVE FALSE
    OBVIOUS
  <2>1. PICK T \in F : \A U \in SUBSET T : U # T => U \notin F
    <3> HIDE DEF F
    <3>1. F \in SUBSET SUBSET S
      BY DEF F
    <3> QED
      BY <3>1, SmallestSubset
  <2>2. h[T] # g[T]
    BY <2>1 DEF g
  <2>3. T # {}
    BY <2>2, <1>e
  <2>4. Pick(T) \in T
    BY <2>3, PickIs
  <2>5. T \ {Pick(T)} \notin F
    BY <2>1, <2>4
  <2>6. h[T \ {Pick(T)}] = g[T \ {Pick(T)}]
    BY <2>5 DEF g
  <2>7. h[T] = g[T]
    BY <1>e, <2>3, <2>6
  <2> QED
    BY <2>2, <2>7
<1> QED
  BY <1>1

\* The sum of w over a finite set is the number of its units.
SumOver(w, S) == Cardinality(Units(w, S))

LEMMA SumStep ==
  ASSUME NEW D, NEW w \in [D -> Nat], NEW S \in SUBSET D, IsFiniteSet(S), NEW x \in S
  PROVE  SumOver(w, S) = w[x] + SumOver(w, S \ {x}) /\ SumOver(w, S) \in Nat /\ SumOver(w, S \ {x}) \in Nat
<1>1. IsFiniteSet(S \ {x}) /\ S \ {x} \in SUBSET D
  BY FS_Subset
<1> QED
  BY <1>1, UnitsFinite, UnitsStep DEF SumOver

LEMMA SumNat ==
  ASSUME NEW D, NEW w \in [D -> Nat], NEW S \in SUBSET D, IsFiniteSet(S)
  PROVE  SumOver(w, S) \in Nat
BY UnitsFinite DEF SumOver

LEMMA SumEmpty == ASSUME NEW w PROVE SumOver(w, {}) = 0
<1>1. Units(w, {}) = {}
  BY DEF Units
<1> QED
  BY <1>1, FS_EmptySet DEF SumOver

LEMMA SumSubset ==
  ASSUME NEW D, NEW w \in [D -> Nat], NEW S \in SUBSET D, IsFiniteSet(S), NEW T \in SUBSET S
  PROVE  SumOver(w, T) <= SumOver(w, S)
<1>1. Units(w, T) \subseteq Units(w, S)
  BY DEF Units
<1> QED
  BY <1>1, UnitsFinite, FS_Subset DEF SumOver

LEMMA SumSame ==
  ASSUME NEW w, NEW v, NEW S, \A x \in S : w[x] = v[x] PROVE SumOver(w, S) = SumOver(v, S)
<1>1. Units(w, S) = Units(v, S)
  BY DEF Units
<1> QED
  BY <1>1 DEF SumOver

-----------------------------------------------------------------------------
(* Wallet: what transactions hold against each other. *)

Keyed(w) == w.pc \notin {"idle", "insert"}

\* What w has changed it holds, and the books can take it.
Sound(w) ==
  /\ \A a \in Accounts : w.delta[a] # 0 => a \in w.held
  /\ \A a \in Accounts : balance[a] + w.delta[a] >= 0
  /\ w.pc = "debit" => w.from \in w.held /\ balance[w.from] + w.delta[w.from] >= w.amount
  /\ w.pc \in {"ensure", "balance", "debit", "credit"} => w.left # <<>>

Disjoint ==
  \A c, d \in Conns : c # d =>
    /\ conn[c].held \cap conn[d].held = {}
    /\ Keyed(conn[c]) /\ Keyed(conn[d]) => conn[c].key # conn[d].key

NewKeys == \A c \in Conns : Keyed(conn[c]) => \A q \in transactions : q.key # conn[c].key

WalletInv ==
  /\ TypeOK /\ OncePerKey /\ Disjoint /\ NewKeys
  /\ \A c \in Conns : conn[c].pc # "idle" => Sound(conn[c])

-----------------------------------------------------------------------------
LEMMA FeeBounds ==
  ASSUME NEW op \in Kinds, NEW amount \in Nat
  PROVE  Fee(op, amount) \in Nat /\ Fee(op, amount) <= amount
<1>1. Bps[op] \in {250, 300, 100, 200}
  BY DEF Bps, Kinds
<1> QED BY <1>1 DEF Fee

LEMMA Shares ==
  ASSUME NEW r \in Work, NEW a \in Accounts
  PROVE  Share(r, a) \in Nat
<1>1. r.op \in Kinds /\ r.amount \in Nat
  BY DEF Work
<1> QED BY <1>1, FeeBounds DEF Share

LEMMA Payees ==
  ASSUME NEW r \in Work
  PROVE  /\ Paid(r) \in Seq(Accounts) /\ Paid(r) # <<>>
         /\ Parties(r) \in Seq(Accounts) /\ Parties(r) # <<>>
<1>1. r.from \in Accounts /\ r.to \in Accounts /\ FeeAccount \in Accounts
  BY DEF Work, Accounts
<1>2. Paid(r) \in Seq(Accounts) /\ Paid(r) # <<>>
  BY <1>1 DEF Paid
<1> QED BY <1>1, <1>2 DEF Parties

LEMMA AtWork ==
  ASSUME TypeOK, NEW c \in Conns, conn[c].pc # "idle"
  PROVE  conn[c] \in Work
BY DEF TypeOK, Idle

\* A statement that changes only its own transaction.
LEMMA Statement ==
  ASSUME WalletInv, NEW c \in Conns, UNCHANGED Books,
         conn' = [conn EXCEPT ![c] = conn'[c]], conn'[c] \in Work, Sound(conn'[c]),
         \A d \in Conns \ {c} : conn'[c].held \cap conn[d].held = {},
         Keyed(conn'[c]) => conn'[c].key = conn[c].key /\ Keyed(conn[c])
  PROVE  WalletInv'
<1> USE DEF WalletInv, Books
<1>1. conn \in [Conns -> Work \cup {Idle}] /\ conn' \in [Conns -> Work \cup {Idle}]
  BY DEF TypeOK
<1>2. TypeOK' /\ OncePerKey'
  BY <1>1 DEF TypeOK, OncePerKey
<1>3. \A d \in Conns : conn'[d].pc # "idle" => Sound(conn[d])' 
  <2>1. Sound(conn[c])'
    BY DEF Sound
  <2>2. ASSUME NEW d \in Conns \ {c}, conn[d].pc # "idle" PROVE Sound(conn[d])'
    <3>1. Sound(conn[d]) /\ conn'[d] = conn[d]
      BY <2>2, <1>1
    <3> QED BY <3>1 DEF Sound
  <2> QED BY <2>1, <2>2, <1>1
<1>4. Disjoint'
  BY <1>1 DEF Disjoint, Keyed
<1>5. NewKeys'
  BY <1>1 DEF NewKeys, Keyed
<1> QED BY <1>2, <1>3, <1>4, <1>5

LEMMA RollbackKeeps ==
  ASSUME WalletInv, NEW c \in Conns, Rollback(c), ops' = ops
  PROVE  WalletInv'
<1> USE DEF WalletInv, Rollback
<1>1. conn \in [Conns -> Work \cup {Idle}] /\ conn' \in [Conns -> Work \cup {Idle}]
  BY DEF TypeOK
<1>2. TypeOK' /\ OncePerKey'
  BY <1>1 DEF TypeOK, OncePerKey
<1>3. \A d \in Conns : conn'[d].pc # "idle" => Sound(conn[d])'
  BY <1>1 DEF Sound, Idle
<1>4. Disjoint'
  BY <1>1 DEF Disjoint, Keyed, Idle
<1>5. NewKeys'
  BY <1>1 DEF NewKeys, Keyed, Idle
<1> QED BY <1>2, <1>3, <1>4, <1>5

-----------------------------------------------------------------------------
LEMMA RequestKeeps ==
  ASSUME WalletInv, NEW c \in Conns, Request(c)
  PROVE  WalletInv'
<1> USE DEF WalletInv
<1>0. PICK ask \in Asks, from \in Users, to \in Users, key \in Keys \cup {ops'} :
        /\ ask.op \in {"transfer", "tip"} => from # to
        /\ ask.op \in {"deposit", "withdrawal"} => from = to
        /\ key \in Keys \/ ask.op = "tip"
        /\ conn' = [conn EXCEPT ![c] =
          [pc |-> "insert", id |-> ops', key |-> key, op |-> ask.op, amount |-> ask.amount,
           from |-> from, to |-> to, new |-> {}, held |-> {}, left |-> <<>>,
           delta |-> [a \in Accounts |-> 0]]]
  BY DEF Request
<1>a. /\ conn \in [Conns -> Work \cup {Idle}] /\ ops' \in 1..MaxOps
      /\ ask.op \in Kinds /\ ask.amount \in Nat \ {0}
  BY WalletAssumption DEF Request, TypeOK
<1>1. /\ conn' = [conn EXCEPT ![c] = conn'[c]] /\ conn'[c] \in Work
      /\ conn'[c].pc = "insert" /\ conn'[c].held = {}
      /\ conn'[c].delta = [a \in Accounts |-> 0]
  BY <1>0, <1>a DEF Work
<1>2. TypeOK' /\ OncePerKey'
  BY <1>1, <1>a, WalletAssumption DEF TypeOK, OncePerKey, Request
<1>3. Sound(conn[c])'
  BY <1>1, <1>a DEF Sound, Request, TypeOK
<1>4. ASSUME NEW d \in Conns, conn'[d].pc # "idle" PROVE Sound(conn[d])'
  BY <1>1, <1>a, <1>3, <1>4 DEF Sound, Request
<1>5. Disjoint'
  BY <1>1, <1>a DEF Disjoint, Keyed
<1>6. NewKeys'
  BY <1>1, <1>a DEF NewKeys, Keyed, Request
<1> QED BY <1>2, <1>4, <1>5, <1>6

LEMMA InsertKeeps ==
  ASSUME WalletInv, NEW c \in Conns, Insert(c)
  PROVE  WalletInv'
<1> DEFINE w == [conn[c] EXCEPT !.pc = "ensure", !.left = Parties(conn[c])]
<1>1. CASE \E q \in transactions : q.key = conn[c].key
  BY <1>1, RollbackKeeps DEF Insert
<1>2. CASE ~ \E q \in transactions : q.key = conn[c].key
  <2>1. conn[c] \in Work /\ conn[c].pc = "insert" /\ Sound(conn[c])
    BY AtWork DEF Insert, WalletInv
  <2>2. w \in Work
    BY <2>1, Payees DEF Work
  <2>3. conn' = [conn EXCEPT ![c] = w] /\ UNCHANGED Books
    BY <1>2 DEF Insert
  <2>4. conn \in [Conns -> Work \cup {Idle}]
    BY DEF WalletInv, TypeOK
  <2>5. TypeOK' /\ OncePerKey'
    BY <2>2, <2>3, <2>4 DEF WalletInv, TypeOK, OncePerKey, Books
  <2>6. w.left # <<>> /\ w.held = conn[c].held /\ w.delta = conn[c].delta /\ w.pc = "ensure" /\ w.key = conn[c].key
    BY <2>1, Payees DEF Work
  <2>7. Sound(conn[c])'
    BY <2>1, <2>3, <2>4, <2>6 DEF Sound, Books
  <2>8. ASSUME NEW d \in Conns, conn'[d].pc # "idle" PROVE Sound(conn[d])'
    BY <2>3, <2>4, <2>7, <2>8 DEF Sound, Books, WalletInv
  <2>9. Disjoint'
    BY <2>3, <2>4, <2>6 DEF Disjoint, Keyed, WalletInv, Insert, Unwritten
  <2>10. NewKeys'
    BY <1>2, <2>3, <2>4, <2>6 DEF NewKeys, Keyed, WalletInv, Books
  <2> QED BY <2>5, <2>8, <2>9, <2>10 DEF WalletInv
<1> QED BY <1>1, <1>2

LEMMA EnsureKeeps ==
  ASSUME WalletInv, NEW c \in Conns, Ensure(c)
  PROVE  WalletInv'
<1>1. /\ conn[c] \in Work /\ conn[c].pc = "ensure" /\ conn[c].left # <<>> /\ Sound(conn[c])
      /\ conn \in [Conns -> Work \cup {Idle}]
  BY AtWork DEF Ensure, WalletInv, Sound, TypeOK
<1>2. Head(conn[c].left) \in Accounts /\ Tail(conn[c].left) \in Seq(Accounts)
  BY <1>1 DEF Work
<1>3. /\ conn' = [conn EXCEPT ![c] = conn'[c]] /\ conn'[c] \in Work
      /\ conn'[c].held = conn[c].held /\ conn'[c].delta = conn[c].delta
      /\ conn'[c].left # <<>> /\ conn'[c].pc \in {"ensure", "balance", "credit"}
      /\ conn'[c].key = conn[c].key
  BY <1>1, <1>2, Payees DEF Ensure, Work
<1>4. Sound(conn'[c])
  BY <1>1, <1>3 DEF Sound
<1>5. \A d \in Conns \ {c} : conn'[c].held \cap conn[d].held = {}
  BY <1>3 DEF WalletInv, Disjoint
<1>6. Keyed(conn'[c]) => conn'[c].key = conn[c].key /\ Keyed(conn[c])
  BY <1>1, <1>3 DEF Keyed
<1>7. UNCHANGED Books
  BY DEF Ensure
<1> QED BY <1>3, <1>4, <1>5, <1>6, <1>7, Statement

LEMMA LockBalanceKeeps ==
  ASSUME WalletInv, NEW c \in Conns, LockBalance(c)
  PROVE  WalletInv'
<1>1. CASE Balance(c, conn[c].from) < conn[c].amount
  BY <1>1, RollbackKeeps DEF LockBalance
<1>2. CASE ~ Balance(c, conn[c].from) < conn[c].amount
  <2>1. /\ conn[c] \in Work /\ conn[c].pc = "balance" /\ Sound(conn[c]) /\ balance \in [Accounts -> Nat]
        /\ conn \in [Conns -> Work \cup {Idle}]
    BY AtWork DEF LockBalance, WalletInv, TypeOK
  <2>2. conn[c].from \in Accounts
    BY <2>1 DEF Work, Accounts
  <2> DEFINE w == [conn[c] EXCEPT !.pc = "debit", !.held = @ \cup {conn[c].from}]
  <2>6. w \in Work
    BY <2>1, <2>2 DEF Work
  <2>7. conn' = [conn EXCEPT ![c] = w]
    BY <1>2 DEF LockBalance
  <2>3. /\ conn' = [conn EXCEPT ![c] = conn'[c]] /\ conn'[c] \in Work
        /\ conn'[c].held = conn[c].held \cup {conn[c].from} /\ conn'[c].delta = conn[c].delta
        /\ conn'[c].pc = "debit" /\ conn'[c].key = conn[c].key /\ conn'[c].left = conn[c].left
        /\ conn'[c].from = conn[c].from /\ conn'[c].amount = conn[c].amount
    BY <2>1, <2>6, <2>7 DEF Work
  <2>4. Sound(conn'[c])
    BY <1>2, <2>1, <2>2, <2>3 DEF Sound, Balance, Work
  <2>5. \A d \in Conns \ {c} : conn'[c].held \cap conn[d].held = {}
    BY <2>3 DEF LockBalance, Free, WalletInv, Disjoint
  <2> QED BY <1>2, <2>1, <2>3, <2>4, <2>5, Statement DEF LockBalance, Keyed
<1> QED BY <1>1, <1>2

LEMMA DebitKeeps ==
  ASSUME WalletInv, NEW c \in Conns, Debit(c)
  PROVE  WalletInv'
<1>1. CASE Balance(c, conn[c].from) < conn[c].amount
  BY <1>1, RollbackKeeps DEF Debit
<1>2. CASE ~ Balance(c, conn[c].from) < conn[c].amount
  <2>1. /\ conn[c] \in Work /\ conn[c].pc = "debit" /\ Sound(conn[c]) /\ balance \in [Accounts -> Nat]
        /\ conn \in [Conns -> Work \cup {Idle}]
    BY AtWork DEF Debit, WalletInv, TypeOK
  <2>2. conn[c].from \in Accounts
    BY <2>1 DEF Work, Accounts
  <2> DEFINE delta == [conn[c].delta EXCEPT ![conn[c].from] = @ - conn[c].amount]
             w == [conn[c] EXCEPT !.pc = "credit", !.held = @ \cup {conn[c].from}, !.delta = delta]
  <2>3. conn[c].delta \in [Accounts -> Int] /\ conn[c].amount \in Nat
    BY <2>1 DEF Work
  <2>4. w \in Work
    <3>1. delta \in [Accounts -> Int]
      BY <2>2, <2>3
    <3> HIDE DEF delta
    <3> QED BY <2>1, <2>2, <3>1 DEF Work
  <2>5. conn' = [conn EXCEPT ![c] = w] /\ UNCHANGED Books
    <3>1. UNCHANGED Books
      BY <1>2 DEF Debit
    <3>2. conn' = [conn EXCEPT ![c].pc = "credit", ![c].held = @ \cup {conn[c].from},
                               ![c].delta[conn[c].from] = @ - conn[c].amount]
      BY <1>2 DEF Debit
    <3> QED BY <2>1, <3>1, <3>2
  <2>6. /\ w.held = conn[c].held \cup {conn[c].from} /\ w.delta = delta
        /\ w.pc = "credit" /\ w.key = conn[c].key /\ w.left = conn[c].left
    BY <2>1 DEF Work
  <2>7. /\ \A a \in Accounts : w.delta[a] # 0 => a \in w.held
        /\ \A a \in Accounts : balance[a] + w.delta[a] >= 0
    BY <1>2, <2>1, <2>2, <2>3, <2>6 DEF Sound, Balance
  <2>8. Sound(w) /\ conn'[c] = w
    BY <2>1, <2>5, <2>6, <2>7 DEF Sound
  <2>9. \A d \in Conns \ {c} : w.held \cap conn[d].held = {}
    BY <2>6 DEF Debit, Free, WalletInv, Disjoint
  <2> HIDE DEF w
  <2> QED BY <2>1, <2>4, <2>5, <2>6, <2>8, <2>9, Statement DEF Keyed
<1> QED BY <1>1, <1>2

LEMMA CreditKeeps ==
  ASSUME WalletInv, NEW c \in Conns, Credit(c)
  PROVE  WalletInv'
<1> DEFINE a == Head(conn[c].left)
           share == Share(conn[c], a)
           delta == [conn[c].delta EXCEPT ![a] = @ + share]
           then == IF Tail(conn[c].left) = <<>> THEN "commit" ELSE "credit"
           w == [conn[c] EXCEPT !.held = @ \cup {a}, !.delta = delta,
                                !.left = Tail(@), !.pc = then]
<1>1. /\ conn[c] \in Work /\ conn[c].pc = "credit" /\ Sound(conn[c]) /\ balance \in [Accounts -> Nat]
      /\ conn \in [Conns -> Work \cup {Idle}] /\ conn[c].left # <<>>
  BY AtWork DEF Credit, WalletInv, TypeOK, Sound
<1>2. a \in Accounts /\ Tail(conn[c].left) \in Seq(Accounts) /\ conn[c].delta \in [Accounts -> Int]
  BY <1>1 DEF Work
<1>3. share \in Nat
  BY <1>1, <1>2, Shares
<1> HIDE DEF share, then
<1>4. delta \in [Accounts -> Int]
  BY <1>2, <1>3
<1>5. then \in {"commit", "credit"} /\ (then = "credit" => Tail(conn[c].left) # <<>>)
  BY DEF then
<1>6. w \in Work
  <2> HIDE DEF a, delta
  <2> QED BY <1>1, <1>2, <1>4, <1>5 DEF Work
<1>7. conn' = [conn EXCEPT ![c] = w] /\ UNCHANGED Books
  BY <1>1 DEF Credit, share, then
<1>8. /\ w.held = conn[c].held \cup {a} /\ w.delta = delta
      /\ w.pc = then /\ w.key = conn[c].key /\ w.left = Tail(conn[c].left)
  BY <1>1 DEF Work
<1>9. /\ \A b \in Accounts : w.delta[b] # 0 => b \in w.held
      /\ \A b \in Accounts : balance[b] + w.delta[b] >= 0
  <2>1. ASSUME NEW b \in Accounts PROVE (delta[b] # 0 => b \in conn[c].held \cup {a}) /\ balance[b] + delta[b] >= 0
    <3>1. /\ conn[c].delta[b] \in Int /\ balance[b] \in Nat /\ balance[b] + conn[c].delta[b] >= 0
          /\ conn[c].delta[b] # 0 => b \in conn[c].held
      BY <1>1, <1>2 DEF Sound
    <3>2. CASE b = a
      <4>1. delta[b] = conn[c].delta[b] + share
        BY <1>2, <3>2
      <4> QED BY <1>3, <3>1, <3>2, <4>1
    <3>3. CASE b # a
      <4>1. delta[b] = conn[c].delta[b]
        BY <1>2, <3>3
      <4> QED BY <3>1, <4>1
    <3> QED BY <3>2, <3>3
  <2> QED BY <1>8, <2>1
<1>10. Sound(w) /\ conn'[c] = w
  BY <1>1, <1>5, <1>7, <1>8, <1>9 DEF Sound
<1>11. \A d \in Conns \ {c} : w.held \cap conn[d].held = {}
  BY <1>8 DEF Credit, Free, WalletInv, Disjoint
<1> HIDE DEF w
<1> QED BY <1>1, <1>5, <1>6, <1>7, <1>8, <1>10, <1>11, Statement DEF Keyed

LEMMA CommitKeeps ==
  ASSUME WalletInv, NEW c \in Conns, Commit(c)
  PROVE  WalletInv'
<1>1. /\ conn[c] \in Work /\ conn[c].pc = "commit" /\ Sound(conn[c]) /\ balance \in [Accounts -> Nat]
      /\ conn \in [Conns -> Work \cup {Idle}]
  BY AtWork DEF Commit, WalletInv, TypeOK
<1>2. conn[c].delta \in [Accounts -> Int] /\ conn[c].amount \in Nat \ {0} /\ conn[c].from \in Accounts
  BY <1>1 DEF Work, Accounts
<1>3. conn' = [conn EXCEPT ![c] = Idle] /\ conn' \in [Conns -> Work \cup {Idle}]
  BY <1>1 DEF Commit
<1>4. balance' \in [Accounts -> Nat] /\ \A a \in Accounts : balance'[a] = balance[a] + conn[c].delta[a]
  BY <1>1, <1>2 DEF Commit, Sound, Balance
<1>5. \A e \in Posted(conn[c]) : e.account \in Accounts /\ e.amount \in Nat \ {0}
  <2>1. \A i \in DOMAIN Paid(conn[c]) : Paid(conn[c])[i] \in Accounts
    BY <1>1, Payees
  <2>2. \A i \in DOMAIN Paid(conn[c]) : Share(conn[c], Paid(conn[c])[i]) \in Nat
    BY <1>1, <2>1, Shares
  <2> QED BY <1>2, <2>1, <2>2 DEF Posted, Entry
<1>6. TypeOK'
  BY <1>1, <1>3, <1>4, <1>5 DEF Commit, WalletInv, TypeOK, Work
<1>7. OncePerKey'
  BY <1>1 DEF Commit, WalletInv, OncePerKey, NewKeys, Keyed
<1>8. ASSUME NEW d \in Conns, conn'[d].pc # "idle" PROVE Sound(conn[d])'
  <2>1. d # c /\ conn'[d] = conn[d] /\ conn[d] \in Work /\ Sound(conn[d])
    BY <1>1, <1>3, <1>8, AtWork DEF Idle, WalletInv
  <2>2. conn[d].held \cap conn[c].held = {} /\ conn[d].from \in Accounts /\ conn[d].delta \in [Accounts -> Int]
    BY <2>1 DEF WalletInv, Disjoint, Work, Accounts
  <2>3. \A a \in conn[d].held \cap Accounts : balance'[a] = balance[a]
    BY <1>1, <1>2, <1>4, <2>2 DEF Sound
  <2>4. \A a \in Accounts : balance'[a] + conn[d].delta[a] >= 0
    BY <1>4, <2>1, <2>2, <2>3 DEF Sound
  <2> QED BY <2>1, <2>2, <2>3, <2>4 DEF Sound
<1>9. Disjoint'
  BY <1>1, <1>3 DEF WalletInv, Disjoint, Keyed, Idle
<1>10. NewKeys'
  BY <1>1, <1>3 DEF Commit, WalletInv, NewKeys, Disjoint, Keyed, Idle
<1> QED BY <1>6, <1>7, <1>8, <1>9, <1>10 DEF WalletInv

-----------------------------------------------------------------------------
LEMMA InitEstablishes == Init => WalletInv
BY WalletAssumption DEF Init, WalletInv, TypeOK, OncePerKey, Disjoint, NewKeys, Keyed, Idle

LEMMA WalletInvStep == WalletInv /\ [Next]_vars => WalletInv'
<1> SUFFICES ASSUME WalletInv, [Next]_vars PROVE WalletInv'
  OBVIOUS
<1>1. CASE UNCHANGED vars
  BY <1>1 DEF vars, WalletInv, TypeOK, OncePerKey, Disjoint, NewKeys, Keyed, Sound
<1>2. ASSUME NEW c \in Conns, Request(c) PROVE WalletInv'
  BY <1>2, RequestKeeps
<1>3. ASSUME NEW c \in Conns, Step(c) PROVE WalletInv'
  BY <1>3, InsertKeeps, EnsureKeeps, LockBalanceKeeps, DebitKeeps, CreditKeeps, CommitKeeps,
     RollbackKeeps DEF Step, Deadlock
<1>4. ASSUME NEW c \in Conns, Lost(c) PROVE WalletInv'
  BY <1>4, RollbackKeeps DEF Lost
<1> QED BY <1>1, <1>2, <1>3, <1>4 DEF Next

\* Every table and transaction has its type (so no balance is ever negative);
\* a key is executed once, however its requests race and are sent again; and
\* what locked_balance found is still there when it is debited.
THEOREM WalletHolds == Spec => [](TypeOK /\ OncePerKey /\ FundsStand)
<1>1. WalletInv => TypeOK /\ OncePerKey /\ FundsStand
  <2> SUFFICES ASSUME WalletInv, NEW c \in Conns, conn[c].pc = "debit"
               PROVE  Balance(c, conn[c].from) >= conn[c].amount
    BY DEF WalletInv, FundsStand
  <2> QED BY DEF WalletInv, Sound, Balance
<1> QED BY <1>1, InitEstablishes, WalletInvStep, PTL DEF Spec

\* The balance a transfer was let pass with is there when it is debited, whatever the
\* other connections commit in between: the row lock of locked_balance is enough.
THEOREM FundsLast == Spec => []FundsStand
  BY WalletHolds, PTL

\* No account, whatever is sent and sent again at once, is ever overdrawn.
THEOREM NeverOverdrawn == Spec => []TypeOK
  BY WalletHolds, PTL

-----------------------------------------------------------------------------
(* Wallet: the ledger. *)

AmountOf(S) == [e \in S |-> e.amount]

\* The fold of the community modules adds the amounts up.
LEMMA TotalIs ==
  ASSUME NEW S, IsFiniteSet(S), \A e \in S : e.amount \in Nat
  PROVE  Total(S) = SumOver(AmountOf(S), S)
<1> DEFINE w == AmountOf(S)
           A(h) == h = [T \in SUBSET S |-> IF T = {} THEN 0 ELSE Pick(T).amount + h[T \ {Pick(T)}]]
           H == CHOOSE h : A(h)
<1>1. Total(S) = H[S]
  BY DEF Total, MapThenSumSet, MapThenFoldSet, Pick
<1>2. w \in [S -> Nat]
  BY DEF AmountOf
<1>3. \A h : A(h) <=> Adds(h, w, S)
  <2> SUFFICES ASSUME NEW h
               PROVE  [T \in SUBSET S |-> IF T = {} THEN 0 ELSE Pick(T).amount + h[T \ {Pick(T)}]]
                        = [T \in SUBSET S |-> IF T = {} THEN 0 ELSE w[Pick(T)] + h[T \ {Pick(T)}]]
    BY DEF Adds
  <2>1. \A T \in SUBSET S : T # {} => Pick(T).amount = w[Pick(T)]
    BY PickIs DEF AmountOf
  <2> HIDE DEF w
  <2> QED
    BY <2>1
<1>4. \E h : Adds(h, w, S)
  BY <1>2, UnitsAdd
<1> HIDE DEF A
<1>5. A(H)
  BY <1>3, <1>4
<1>6. Adds(H, w, S)
  BY <1>3, <1>5
<1> HIDE DEF H, w
<1>7. H[S] = Cardinality(Units(w, S))
  BY <1>2, <1>6, AddsUnits
<1> QED
  BY <1>1, <1>7 DEF SumOver, w

\* An entry more raises the total by its amount.
LEMMA TotalAdds ==
  ASSUME NEW S, IsFiniteSet(S), NEW e, e \notin S, \A x \in S \cup {e} : x.amount \in Nat
  PROVE  Total(S \cup {e}) = Total(S) + e.amount /\ Total(S) \in Nat
<1> DEFINE R == S \cup {e}
<1>1. IsFiniteSet(R) /\ R \ {e} = S /\ e \in R
  BY FS_AddElement
<1>2. AmountOf(R) \in [R -> Nat] /\ AmountOf(S) \in [S -> Nat] /\ AmountOf(R)[e] = e.amount
  BY DEF AmountOf
<1>3. SumOver(AmountOf(R), S) = SumOver(AmountOf(S), S)
  <2>1. \A x \in S : AmountOf(R)[x] = AmountOf(S)[x]
    BY DEF AmountOf
  <2> QED
    BY <2>1, SumSame
<1>4. Total(R) = SumOver(AmountOf(R), R) /\ Total(S) = SumOver(AmountOf(S), S)
  BY <1>1, TotalIs
<1> HIDE DEF R
<1>5. SumOver(AmountOf(R), R) = AmountOf(R)[e] + SumOver(AmountOf(R), S) /\ SumOver(AmountOf(R), S) \in Nat
  BY <1>1, <1>2, SumStep
<1>6. e.amount \in Nat
  BY <1>2, <1>1 DEF AmountOf
<1> QED
  BY <1>2, <1>3, <1>4, <1>5, <1>6 DEF R

-----------------------------------------------------------------------------
(* What a transaction has moved, and what it will post. *)

PaidOf(r) == {Paid(r)[i] : i \in DOMAIN Paid(r)}
Debt(r, a) == IF Debits(r.op) /\ a = r.from THEN r.amount ELSE 0
Due(r, a) == IF a \in PaidOf(r) THEN Share(r, a) ELSE 0

\* At each statement the transaction has changed what those before it change.
Moved(w) ==
  /\ w.pc \in {"insert", "ensure"} => \A a \in Accounts : w.delta[a] = 0
  /\ w.pc \in {"balance", "debit"} =>
       Debits(w.op) /\ w.left = Paid(w) /\ \A a \in Accounts : w.delta[a] = 0
  /\ w.pc = "credit" =>
       \/ w.left = Paid(w) /\ \A a \in Accounts : w.delta[a] = 0 - Debt(w, a)
       \/ /\ w.op # "withdrawal" /\ w.left = <<FeeAccount>>
          /\ \A a \in Accounts : w.delta[a] = (IF a = w.to THEN Share(w, a) ELSE 0) - Debt(w, a)
  /\ w.pc = "commit" => \A a \in Accounts : w.delta[a] = Due(w, a) - Debt(w, a)

AllMoved == \A c \in Conns : conn[c].pc # "idle" => Moved(conn[c])

\* Nobody posts under the id of another.
Numbered ==
  /\ \A e \in entries : e.id \in Nat /\ e.id <= ops
  /\ \A c \in Conns : conn[c].pc # "idle" =>
       /\ conn[c].id <= ops /\ \A e \in entries : e.id # conn[c].id
       /\ \A d \in Conns \ {c} : conn[d].pc # "idle" => conn[d].id # conn[c].id

LedgerInv == AllMoved /\ Numbered /\ IsFiniteSet(entries) /\ BooksAgree

LEMMA PaidIs ==
  ASSUME NEW r \in Work
  PROVE  /\ r.op = "withdrawal" => Paid(r) = <<FeeAccount>> /\ PaidOf(r) = {FeeAccount}
         /\ r.op # "withdrawal" => /\ Paid(r) = <<r.to, FeeAccount>> /\ PaidOf(r) = {r.to, FeeAccount}
                                   /\ r.to # FeeAccount
<1>1. CASE r.op = "withdrawal"
  <2>1. Paid(r) = <<FeeAccount>>
    BY <1>1 DEF Paid
  <2>2. DOMAIN Paid(r) = {1}
    BY <2>1
  <2>3. PaidOf(r) = {Paid(r)[1]}
    BY <2>2 DEF PaidOf
  <2>4. Paid(r)[1] = FeeAccount
    BY <2>1
  <2>5. PaidOf(r) = {FeeAccount}
    BY <2>3, <2>4
  <2>6. Paid(r) = <<FeeAccount>> /\ PaidOf(r) = {FeeAccount}
    BY <2>1, <2>5
  <2> QED
    BY <1>1, <2>6, Zenon
<1>2. CASE r.op # "withdrawal"
  <2>0. <<r.to>> \in Seq(Accounts) /\ <<FeeAccount>> \in Seq(Accounts)
    BY DEF Work, Accounts
  <2>1. Paid(r) = <<r.to, FeeAccount>>
    <3>1. Paid(r) = <<r.to>> \o <<FeeAccount>>
      BY <1>2 DEF Paid
    <3>2. /\ Len(Paid(r)) = 2 /\ Paid(r) \in Seq(Accounts)
          /\ Paid(r)[1] = r.to /\ Paid(r)[2] = FeeAccount
      BY <2>0, <3>1
    <3> QED
      BY <3>2
  <2>2. r.to # FeeAccount
    BY WalletAssumption DEF Work
  <2>3. DOMAIN Paid(r) = {1, 2}
    BY <2>1
  <2>4. PaidOf(r) = {Paid(r)[1], Paid(r)[2]}
    BY <2>3 DEF PaidOf
  <2> QED
    BY <1>2, <2>1, <2>2, <2>4
<1> QED
  BY <1>1, <1>2

\* A transaction changes nobody else's.
LEMMA OneMoves ==
  ASSUME WalletInv, AllMoved, NEW c \in Conns, NEW w, conn' = [conn EXCEPT ![c] = w], w.pc # "idle" => Moved(w)
  PROVE  AllMoved'
<1>1. DOMAIN conn = Conns
  BY DEF WalletInv, TypeOK
<1>2. \A d \in Conns : conn'[d] = IF d = c THEN w ELSE conn[d]
  BY <1>1
<1> QED
  BY <1>2 DEF AllMoved, Moved

\* Moved is about nothing but the amounts and the parties of the transaction.
LEMMA SameParties ==
  ASSUME NEW w, NEW v, v.op = w.op, v.amount = w.amount, v.from = w.from, v.to = w.to
  PROVE  /\ Paid(v) = Paid(w) /\ PaidOf(v) = PaidOf(w) /\ Debits(v.op) = Debits(w.op)
         /\ \A a : Debt(v, a) = Debt(w, a) /\ Due(v, a) = Due(w, a) /\ Share(v, a) = Share(w, a)
<1>1. Paid(v) = Paid(w)
  BY DEF Paid
<1>2. \A a : Share(v, a) = Share(w, a)
  BY DEF Share
<1> QED
  BY <1>1, <1>2 DEF PaidOf, Debt, Due

\* What a statement leaves alone of a transaction.
LEMMA MovedInsert ==
  ASSUME WalletInv, AllMoved, NEW c \in Conns, Insert(c) PROVE AllMoved'
<1>1. CASE Rollback(c)
  BY <1>1, OneMoves DEF Rollback, Idle
<1>2. CASE ~ Rollback(c)
  <2> DEFINE w == [conn[c] EXCEPT !.pc = "ensure", !.left = Parties(conn[c])]
  <2>1. conn' = [conn EXCEPT ![c] = w]
    BY <1>2 DEF Insert
  <2>2. conn[c] \in Work /\ conn[c].pc = "insert" /\ Moved(conn[c])
    BY AtWork DEF Insert, AllMoved, WalletInv
  <2>3. w.pc = "ensure" /\ w.delta = conn[c].delta
    BY <2>2 DEF Work
  <2>4. Moved(w)
    BY <2>2, <2>3 DEF Moved
  <2> HIDE DEF w
  <2> QED
    BY <2>1, <2>4, OneMoves
<1> QED
  BY <1>1, <1>2

LEMMA MovedEnsure ==
  ASSUME WalletInv, AllMoved, NEW c \in Conns, Ensure(c) PROVE AllMoved'
<1> DEFINE left == Tail(conn[c].left)
           new == conn[c].new \cup ({Head(conn[c].left)} \ accounts)
           at == IF left # <<>> THEN "ensure" ELSE IF Debits(conn[c].op) THEN "balance" ELSE "credit"
           next == IF left = <<>> THEN Paid(conn[c]) ELSE left
           w == [conn[c] EXCEPT !.new = new, !.left = next, !.pc = at]
<1>1. conn' = [conn EXCEPT ![c] = w]
  BY DEF Ensure
<1>2. conn[c] \in Work /\ conn[c].pc = "ensure" /\ Moved(conn[c])
  BY AtWork DEF Ensure, AllMoved, WalletInv
<1>3. \A a \in Accounts : conn[c].delta[a] = 0
  BY <1>2 DEF Moved
<1> HIDE DEF new, at, next
<1>4. /\ w.op = conn[c].op /\ w.amount = conn[c].amount /\ w.from = conn[c].from /\ w.to = conn[c].to
      /\ w.pc = at /\ w.left = next /\ w.delta = conn[c].delta
  BY <1>2 DEF Work
<1> HIDE DEF w
<1>5. Paid(w) = Paid(conn[c]) /\ \A a : Debt(w, a) = Debt(conn[c], a)
  BY <1>4, SameParties
<1>6. CASE at = "ensure"
  BY <1>1, <1>3, <1>4, <1>6, OneMoves DEF Moved
<1>7. CASE at = "balance"
  <2>1. next = Paid(conn[c]) /\ Debits(conn[c].op)
    BY <1>7 DEF at, next
  <2>2. Moved(w)
    BY <1>3, <1>4, <1>5, <1>7, <2>1 DEF Moved, Debits
  <2> QED
    BY <1>1, <2>2, OneMoves
<1>8. CASE at = "credit"
  <2>1. next = Paid(conn[c]) /\ ~ Debits(conn[c].op)
    BY <1>8 DEF at, next
  <2>2. \A a \in Accounts : Debt(w, a) = 0
    BY <1>5, <2>1 DEF Debt
  <2>3. Moved(w)
    BY <1>3, <1>4, <1>5, <1>8, <2>1, <2>2 DEF Moved
  <2> QED
    BY <1>1, <2>3, OneMoves
<1> QED
  BY <1>6, <1>7, <1>8 DEF at

LEMMA MovedLockBalance ==
  ASSUME WalletInv, AllMoved, NEW c \in Conns, LockBalance(c) PROVE AllMoved'
<1>1. CASE Rollback(c)
  BY <1>1, OneMoves DEF Rollback, Idle
<1>2. CASE ~ Rollback(c)
  <2> DEFINE w == [conn[c] EXCEPT !.pc = "debit", !.held = @ \cup {conn[c].from}]
  <2>1. conn' = [conn EXCEPT ![c] = w]
    BY <1>2 DEF LockBalance
  <2>2. conn[c] \in Work /\ conn[c].pc = "balance" /\ Moved(conn[c])
    BY AtWork DEF LockBalance, AllMoved, WalletInv
  <2>3. /\ w.op = conn[c].op /\ w.amount = conn[c].amount /\ w.from = conn[c].from /\ w.to = conn[c].to
        /\ w.pc = "debit" /\ w.left = conn[c].left /\ w.delta = conn[c].delta
    BY <2>2 DEF Work
  <2> HIDE DEF w
  <2>4. Paid(w) = Paid(conn[c])
    BY <2>3, SameParties
  <2>5. Moved(w)
    BY <2>2, <2>3, <2>4 DEF Moved
  <2> QED
    BY <2>1, <2>5, OneMoves
<1> QED
  BY <1>1, <1>2

LEMMA MovedDebit ==
  ASSUME WalletInv, AllMoved, NEW c \in Conns, Debit(c) PROVE AllMoved'
<1>1. CASE Rollback(c)
  BY <1>1, OneMoves DEF Rollback, Idle
<1>2. CASE ~ Rollback(c)
  <2>1. conn[c] \in Work /\ conn[c].pc = "debit" /\ Moved(conn[c]) /\ conn \in [Conns -> Work \cup {Idle}]
    BY AtWork DEF Debit, AllMoved, WalletInv, TypeOK
  <2>2. conn[c].from \in Accounts /\ conn[c].delta \in [Accounts -> Int] /\ conn[c].amount \in Nat
    BY <2>1 DEF Work, Accounts
  <2> DEFINE delta == [conn[c].delta EXCEPT ![conn[c].from] = @ - conn[c].amount]
             w == [conn[c] EXCEPT !.pc = "credit", !.held = @ \cup {conn[c].from}, !.delta = delta]
  <2>3. conn' = [conn EXCEPT ![c] = w]
    <3>1. conn' = [conn EXCEPT ![c].pc = "credit", ![c].held = @ \cup {conn[c].from},
                               ![c].delta[conn[c].from] = @ - conn[c].amount]
      BY <1>2 DEF Debit
    <3> QED
      BY <2>1, <3>1
  <2>4. /\ w.op = conn[c].op /\ w.amount = conn[c].amount /\ w.from = conn[c].from /\ w.to = conn[c].to
        /\ w.pc = "credit" /\ w.left = conn[c].left /\ w.delta = delta
    BY <2>1 DEF Work
  <2>5. Debits(conn[c].op) /\ conn[c].left = Paid(conn[c]) /\ \A a \in Accounts : conn[c].delta[a] = 0
    BY <2>1 DEF Moved
  <2>7. \A a \in Accounts : delta[a] = 0 - Debt(conn[c], a)
    BY <2>2, <2>5 DEF Debt
  <2> HIDE DEF w, delta
  <2>6. Paid(w) = Paid(conn[c]) /\ \A a : Debt(w, a) = Debt(conn[c], a)
    BY <2>4, SameParties
  <2>8. Moved(w)
    BY <2>4, <2>5, <2>6, <2>7 DEF Moved
  <2> QED
    BY <2>3, <2>8, OneMoves
<1> QED
  BY <1>1, <1>2

LEMMA MovedCredit ==
  ASSUME WalletInv, AllMoved, NEW c \in Conns, Credit(c) PROVE AllMoved'
<1> DEFINE a == Head(conn[c].left)
           share == Share(conn[c], a)
           delta == [conn[c].delta EXCEPT ![a] = @ + share]
           then == IF Tail(conn[c].left) = <<>> THEN "commit" ELSE "credit"
           w == [conn[c] EXCEPT !.held = @ \cup {a}, !.delta = delta, !.left = Tail(@), !.pc = then]
<1>1. /\ conn[c] \in Work /\ conn[c].pc = "credit" /\ Moved(conn[c]) /\ Sound(conn[c]) /\ conn[c].left # <<>>
      /\ conn \in [Conns -> Work \cup {Idle}]
  BY AtWork DEF Credit, AllMoved, WalletInv, TypeOK, Sound
<1>2. a \in Accounts /\ conn[c].delta \in [Accounts -> Int] /\ conn[c].amount \in Nat
      /\ FeeAccount \in Accounts /\ conn[c].to \in Accounts
  BY <1>1 DEF Work, Accounts
<1>3. \A b \in Accounts : Share(conn[c], b) \in Nat /\ Debt(conn[c], b) \in Nat
  BY <1>1, <1>2, Shares DEF Debt
<1>4. conn' = [conn EXCEPT ![c] = w]
  BY <1>1 DEF Credit
<1> HIDE DEF delta, then
<1>5. /\ w.op = conn[c].op /\ w.amount = conn[c].amount /\ w.from = conn[c].from /\ w.to = conn[c].to
      /\ w.pc = then /\ w.left = Tail(conn[c].left) /\ w.delta = delta
  BY <1>1 DEF Work
<1>6. /\ Paid(w) = Paid(conn[c])
      /\ \A b : Debt(w, b) = Debt(conn[c], b) /\ Due(w, b) = Due(conn[c], b) /\ Share(w, b) = Share(conn[c], b)
  BY <1>5, SameParties
<1>7. \A b \in Accounts : delta[b] = IF b = a THEN conn[c].delta[b] + Share(conn[c], b) ELSE conn[c].delta[b]
  BY <1>2 DEF delta
<1> HIDE DEF w
<1>8. CASE conn[c].left = Paid(conn[c]) /\ conn[c].op = "withdrawal"
  <2>1. conn[c].left = <<FeeAccount>> /\ PaidOf(conn[c]) = {FeeAccount}
    BY <1>1, <1>8, PaidIs
  <2>2. a = FeeAccount /\ then = "commit"
    BY <2>1 DEF then
  <2>3. \A b \in Accounts : conn[c].delta[b] = 0 - Debt(conn[c], b)
    BY <1>1, <1>8 DEF Moved
  <2>4. \A b \in Accounts : delta[b] = Due(conn[c], b) - Debt(conn[c], b)
    BY <1>3, <1>7, <2>1, <2>2, <2>3 DEF Due
  <2> QED
    BY <1>4, <1>5, <1>6, <2>2, <2>4, OneMoves DEF Moved
<1>9. CASE conn[c].left = Paid(conn[c]) /\ conn[c].op # "withdrawal"
  <2>1. conn[c].left = <<conn[c].to, FeeAccount>>
    BY <1>1, <1>9, PaidIs
  <2>2. a = conn[c].to /\ Tail(conn[c].left) = <<FeeAccount>> /\ then = "credit"
    BY <2>1 DEF then
  <2>3. \A b \in Accounts : conn[c].delta[b] = 0 - Debt(conn[c], b)
    BY <1>1, <1>9, <2>1, <1>2 DEF Moved
  <2>4. \A b \in Accounts : delta[b] = (IF b = conn[c].to THEN Share(conn[c], b) ELSE 0) - Debt(conn[c], b)
    BY <1>3, <1>7, <2>2, <2>3
  <2>5. Moved(w)
    BY <1>5, <1>6, <1>9, <2>2, <2>4 DEF Moved
  <2> QED
    BY <1>4, <2>5, OneMoves
<1>10. CASE conn[c].left # Paid(conn[c])
  <2>1. /\ conn[c].op # "withdrawal" /\ conn[c].left = <<FeeAccount>>
        /\ \A b \in Accounts : conn[c].delta[b] = (IF b = conn[c].to THEN Share(conn[c], b) ELSE 0) - Debt(conn[c], b)
    BY <1>1, <1>10 DEF Moved
  <2>2. a = FeeAccount /\ then = "commit"
    BY <2>1 DEF then
  <2>3. PaidOf(conn[c]) = {conn[c].to, FeeAccount} /\ conn[c].to # FeeAccount
    BY <1>1, <2>1, PaidIs
  <2>4. \A b \in Accounts : delta[b] = Due(conn[c], b) - Debt(conn[c], b)
    BY <1>3, <1>7, <2>1, <2>2, <2>3 DEF Due
  <2> QED
    BY <1>4, <1>5, <1>6, <2>2, <2>4, OneMoves DEF Moved
<1> QED
  BY <1>8, <1>9, <1>10

LEMMA Requested ==
  ASSUME WalletInv, NEW c \in Conns, Request(c)
  PROVE  /\ conn' = [conn EXCEPT ![c] = conn'[c]] /\ conn'[c].pc = "insert" /\ conn'[c].id = ops'
         /\ \A a \in Accounts : conn'[c].delta[a] = 0
         /\ ops' = ops + 1 /\ UNCHANGED <<balance, entries>>
<1>0. PICK ask \in Asks, from \in Users, to \in Users, key \in Keys \cup {ops'} :
        /\ ask.op \in {"transfer", "tip"} => from # to
        /\ ask.op \in {"deposit", "withdrawal"} => from = to
        /\ key \in Keys \/ ask.op = "tip"
        /\ conn' = [conn EXCEPT ![c] =
          [pc |-> "insert", id |-> ops', key |-> key, op |-> ask.op, amount |-> ask.amount,
           from |-> from, to |-> to, new |-> {}, held |-> {}, left |-> <<>>,
           delta |-> [a \in Accounts |-> 0]]]
  BY DEF Request
<1>1. conn \in [Conns -> Work \cup {Idle}]
  BY DEF WalletInv, TypeOK
<1>2. ops' = ops + 1 /\ UNCHANGED <<balance, entries>>
  BY DEF Request
<1>3. conn'[c] = [pc |-> "insert", id |-> ops', key |-> key, op |-> ask.op, amount |-> ask.amount,
                  from |-> from, to |-> to, new |-> {}, held |-> {}, left |-> <<>>,
                  delta |-> [a \in Accounts |-> 0]]
  BY <1>0, <1>1
<1>4. conn'[c].pc = "insert" /\ conn'[c].id = ops' /\ conn'[c].delta = [a \in Accounts |-> 0]
  BY <1>3
<1>5. conn' = [conn EXCEPT ![c] = conn'[c]]
  BY <1>0, <1>1
<1> QED
  BY <1>2, <1>4, <1>5

LEMMA MovedRequest ==
  ASSUME WalletInv, AllMoved, NEW c \in Conns, Request(c) PROVE AllMoved'
<1> DEFINE w == conn'[c]
<1>1. conn' = [conn EXCEPT ![c] = w] /\ Moved(w)
  BY Requested DEF Moved
<1> HIDE DEF w
<1> QED
  BY <1>1, OneMoves

LEMMA MovedStep == ASSUME WalletInv, AllMoved, [Next]_vars PROVE AllMoved'
<1>1. CASE UNCHANGED vars
  BY <1>1 DEF vars, AllMoved, Moved
<1>2. ASSUME NEW c \in Conns, Rollback(c) \/ Commit(c) PROVE AllMoved'
  <2>1. conn' = [conn EXCEPT ![c] = Idle]
    BY <1>2 DEF Rollback, Commit
  <2> QED
    BY <2>1, OneMoves DEF Idle
<1> QED
  BY <1>1, <1>2, MovedRequest, MovedInsert, MovedEnsure, MovedLockBalance, MovedDebit, MovedCredit
     DEF Next, Step, Deadlock, Lost

\* Only a commit posts, and only a request takes a new id.
LEMMA WhatChanges ==
  ASSUME WalletInv, [Next]_vars
  PROVE  \/ /\ UNCHANGED <<balance, entries>> /\ ops' \in {ops, ops + 1}
            /\ \A c \in Conns : conn'[c].pc # "idle" =>
                 \/ conn[c].pc # "idle" /\ conn'[c].id = conn[c].id
                 \/ ops' = ops + 1 /\ conn'[c].id = ops'
            /\ \A c, d \in Conns : conn'[c] # conn[c] /\ conn'[d] # conn[d] => c = d
         \/ \E c \in Conns : Commit(c)
<1> DEFINE Quiet == /\ UNCHANGED <<balance, entries>> /\ ops' \in {ops, ops + 1}
                    /\ \A c \in Conns : conn'[c].pc # "idle" =>
                         \/ conn[c].pc # "idle" /\ conn'[c].id = conn[c].id
                         \/ ops' = ops + 1 /\ conn'[c].id = ops'
                    /\ \A c, d \in Conns : conn'[c] # conn[c] /\ conn'[d] # conn[d] => c = d
<1>t. conn \in [Conns -> Work \cup {Idle}]
  BY DEF WalletInv, TypeOK
<1>0. ASSUME NEW c \in Conns, NEW w, conn' = [conn EXCEPT ![c] = w], UNCHANGED <<balance, entries>>,
             \/ ops' = ops /\ (w.pc = "idle" \/ (conn[c].pc # "idle" /\ w.id = conn[c].id))
             \/ ops' = ops + 1 /\ w.id = ops'
      PROVE  Quiet
  <2>1. \A d \in Conns : conn'[d] = IF d = c THEN w ELSE conn[d]
    BY <1>0, <1>t
  <2> QED
    BY <1>0, <2>1
<1> HIDE DEF Quiet
<1>1. CASE UNCHANGED vars
  BY <1>1 DEF vars, Quiet
<1>2. ASSUME NEW c \in Conns, Rollback(c), ops' = ops PROVE Quiet
  BY <1>0, <1>2 DEF Rollback, Idle
<1>3. ASSUME NEW c \in Conns, Request(c) PROVE Quiet
  <2> DEFINE w == conn'[c]
  <2>1. conn' = [conn EXCEPT ![c] = w] /\ w.id = ops' /\ ops' = ops + 1 /\ UNCHANGED <<balance, entries>>
    BY <1>3, Requested
  <2> HIDE DEF w
  <2> QED
    BY <1>0, <2>1
<1>4. ASSUME NEW c \in Conns, Insert(c) \/ Ensure(c) \/ LockBalance(c) \/ Debit(c) \/ Credit(c),
             ~ (Rollback(c) /\ ops' = ops)
      PROVE  Quiet
  <2>1. conn[c].pc # "idle" /\ conn[c] \in Work /\ UNCHANGED Books
    BY <1>4, AtWork DEF WalletInv, Insert, Ensure, LockBalance, Debit, Credit
  <2>2. conn' = [conn EXCEPT ![c] = conn'[c]] /\ conn'[c].id = conn[c].id
    <3>1. CASE Insert(c)
      BY <1>4, <1>t, <2>1, <3>1 DEF Insert, Work
    <3>2. CASE Ensure(c)
      BY <1>4, <1>t, <2>1, <3>2 DEF Ensure, Work
    <3>3. CASE LockBalance(c)
      BY <1>4, <1>t, <2>1, <3>3 DEF LockBalance, Work
    <3>4. CASE Debit(c)
      BY <1>4, <1>t, <2>1, <3>4 DEF Debit, Work
    <3>5. CASE Credit(c)
      BY <1>4, <1>t, <2>1, <3>5 DEF Credit, Work
    <3> QED
      BY <1>4, <3>1, <3>2, <3>3, <3>4, <3>5
  <2> QED
    BY <1>0, <2>1, <2>2 DEF Books
<1> QED
  BY <1>1, <1>2, <1>3, <1>4 DEF Next, Step, Deadlock, Lost, Quiet

-----------------------------------------------------------------------------
(* Posting: a commit appends exactly what it has moved. *)

Credits(a) == {e \in entries : e.account = a /\ e.type = "credit"}
Withdrawals(a) == {e \in entries : e.account = a /\ e.type = "debit"}

LEMMA Postings ==
  ASSUME WalletInv, NEW c \in Conns, Commit(c), NEW a \in Accounts
  PROVE  /\ Credits(a)' = Credits(a) \cup
              (IF Due(conn[c], a) > 0 THEN {Entry(conn[c], a, "credit", Due(conn[c], a))} ELSE {})
         /\ Withdrawals(a)' = Withdrawals(a) \cup
              (IF Debt(conn[c], a) > 0 THEN {Entry(conn[c], a, "debit", Debt(conn[c], a))} ELSE {})
<1> DEFINE r == conn[c]
           pays == {Entry(r, b, "credit", Share(r, b)) : b \in PaidOf(r)}
           paid == {e \in pays : e.amount > 0}
           takes == IF Debits(r.op) THEN {Entry(r, r.from, "debit", r.amount)} ELSE {}
<1>1. r \in Work
  BY AtWork DEF Commit, WalletInv
<1>2. entries' = entries \cup paid \cup takes
  BY DEF Commit, Posted, PaidOf
<1>3. r.amount > 0
  BY <1>1 DEF Work
<1>4. /\ \A e \in pays : e.type = "credit" /\ e.account \in PaidOf(r) /\ e = Entry(r, e.account, "credit", Share(r, e.account))
                        /\ e.amount = Share(r, e.account)
      /\ \A b \in PaidOf(r) : Entry(r, b, "credit", Share(r, b)) \in pays
      /\ \A b, n : Entry(r, b, "credit", n).amount = n /\ Entry(r, b, "credit", n).account = b
                  /\ Entry(r, b, "credit", n).type = "credit"
  BY DEF Entry
<1>5. \A e \in takes : /\ e.type = "debit" /\ e.account = r.from /\ Debits(r.op)
                       /\ e = Entry(r, r.from, "debit", r.amount)
  BY DEF Entry
<1>6. {e \in paid : e.account = a /\ e.type = "credit"} =
        IF Due(r, a) > 0 THEN {Entry(r, a, "credit", Due(r, a))} ELSE {}
  <2> HIDE DEF pays, r
  <2> QED
    BY <1>4 DEF Due
<1>7. {e \in takes : e.account = a /\ e.type = "debit"} =
        IF Debt(r, a) > 0 THEN {Entry(r, a, "debit", Debt(r, a))} ELSE {}
  <2>1. Debits(r.op) => Entry(r, r.from, "debit", r.amount) \in takes
    OBVIOUS
  <2>2. CASE Debits(r.op) /\ a = r.from
    <3>1. Debt(r, a) = r.amount
      BY <2>2 DEF Debt
    <3> HIDE DEF takes, r
    <3> QED
      BY <1>3, <1>5, <2>1, <2>2, <3>1
  <2>3. CASE ~ (Debits(r.op) /\ a = r.from)
    <3>1. Debt(r, a) = 0
      BY <2>3 DEF Debt
    <3> HIDE DEF takes, r
    <3> QED
      BY <1>5, <2>3, <3>1
  <2> QED
    BY <2>2, <2>3
<1> HIDE DEF pays, takes, r
<1>8. {e \in paid : e.account = a /\ e.type = "debit"} = {} /\ {e \in takes : e.account = a /\ e.type = "credit"} = {}
  BY <1>4, <1>5
<1> HIDE DEF paid
<1> QED
  BY <1>2, <1>6, <1>7, <1>8 DEF Credits, Withdrawals, r

\* One entry more, or none, and the total is higher by its amount.
LEMMA OneMore ==
  ASSUME NEW S, IsFiniteSet(S), \A x \in S : x.amount \in Nat,
         NEW n \in Nat, NEW e, e \notin S, e.amount = n,
         NEW R, R = S \cup (IF n > 0 THEN {e} ELSE {})
  PROVE  Total(R) = Total(S) + n /\ Total(S) \in Nat
<1>1. \A x \in S \cup {e} : x.amount \in Nat
  OBVIOUS
<1>2. Total(S \cup {e}) = Total(S) + e.amount /\ Total(S) \in Nat
  BY <1>1, TotalAdds
<1>3. CASE n > 0
  BY <1>2, <1>3
<1>4. CASE n = 0
  <2>1. R = S
    BY <1>4
  <2> QED
    BY <1>2, <1>4, <2>1
<1> QED
  BY <1>3, <1>4

LEMMA CommitPosts ==
  ASSUME WalletInv, LedgerInv, NEW c \in Conns, Commit(c)
  PROVE  BooksAgree' /\ IsFiniteSet(entries')
<1> DEFINE r == conn[c]
<1>1. /\ r \in Work /\ Moved(r) /\ r.pc = "commit" /\ \A e \in entries : e.id # r.id
      /\ balance \in [Accounts -> Nat]
  BY AtWork DEF Commit, WalletInv, TypeOK, LedgerInv, AllMoved, Numbered
<1>2. \A a \in Accounts : Due(r, a) \in Nat /\ Debt(r, a) \in Nat
  <2>1. \A a \in Accounts : Share(r, a) \in Nat
    BY <1>1, Shares
  <2>2. r.amount \in Nat
    BY <1>1 DEF Work
  <2> HIDE DEF r
  <2> QED
    BY <2>1, <2>2 DEF Due, Debt
<1>3. \A a \in Accounts : balance'[a] = balance[a] + (Due(r, a) - Debt(r, a))
  BY <1>1 DEF Commit, Balance, Moved
<1>4. ASSUME NEW a \in Accounts
      PROVE  balance'[a] = Total(Credits(a)') - Total(Withdrawals(a)')
  <2>1. IsFiniteSet(Credits(a)) /\ IsFiniteSet(Withdrawals(a)) /\ Credits(a) \subseteq entries /\ Withdrawals(a) \subseteq entries
    BY FS_Subset DEF LedgerInv, Credits, Withdrawals
  <2>2. balance[a] = Total(Credits(a)) - Total(Withdrawals(a))
    BY DEF LedgerInv, BooksAgree, Credits, Withdrawals
  <2>3. /\ Credits(a)' = Credits(a) \cup (IF Due(r, a) > 0 THEN {Entry(r, a, "credit", Due(r, a))} ELSE {})
        /\ Withdrawals(a)' = Withdrawals(a) \cup (IF Debt(r, a) > 0 THEN {Entry(r, a, "debit", Debt(r, a))} ELSE {})
    BY Postings
  <2> DEFINE D == Due(r, a)
             B == Debt(r, a)
             d == Entry(r, a, "credit", D)
             b == Entry(r, a, "debit", B)
  <2>4. d.amount = D /\ b.amount = B /\ d \notin entries /\ b \notin entries /\ \A e \in entries : e.amount \in Nat
    BY <1>1 DEF Entry, WalletInv, TypeOK
  <2>5. D \in Nat /\ B \in Nat /\ balance'[a] = balance[a] + (D - B)
    BY <1>2, <1>3
  <2> HIDE DEF r, D, B, d, b
  <2>6. Total(Credits(a)') = Total(Credits(a)) + D /\ Total(Credits(a)) \in Nat
    <3> DEFINE S == Credits(a)
               R == Credits(a)'
    <3>1. R = S \cup (IF D > 0 THEN {d} ELSE {}) /\ IsFiniteSet(S) /\ S \subseteq entries
      BY <2>1, <2>3 DEF D, d
    <3> HIDE DEF S, R
    <3>2. Total(R) = Total(S) + D /\ Total(S) \in Nat
      BY <2>4, <2>5, <3>1, OneMore
    <3> QED
      BY <3>2 DEF S, R
  <2>7. Total(Withdrawals(a)') = Total(Withdrawals(a)) + B /\ Total(Withdrawals(a)) \in Nat
    <3> DEFINE S == Withdrawals(a)
               R == Withdrawals(a)'
    <3>1. R = S \cup (IF B > 0 THEN {b} ELSE {}) /\ IsFiniteSet(S) /\ S \subseteq entries
      BY <2>1, <2>3 DEF B, b
    <3> HIDE DEF S, R
    <3>2. Total(R) = Total(S) + B /\ Total(S) \in Nat
      BY <2>4, <2>5, <3>1, OneMore
    <3> QED
      BY <3>2 DEF S, R
  <2>8. balance[a] \in Nat
    BY <1>1
  <2> QED
    BY <2>2, <2>5, <2>6, <2>7, <2>8
<1>5. BooksAgree'
  BY <1>4 DEF BooksAgree, Credits, Withdrawals
<1>6. IsFiniteSet(entries')
  <2> DEFINE pays == {Entry(r, b, "credit", Share(r, b)) : b \in PaidOf(r)}
             to == Entry(r, r.to, "credit", Share(r, r.to))
             fee == Entry(r, FeeAccount, "credit", Share(r, FeeAccount))
  <2>1. PaidOf(r) \subseteq {r.to, FeeAccount}
    BY <1>1, PaidIs
  <2>2. IsFiniteSet(pays)
    <3>1. pays \subseteq {to, fee}
      BY <2>1
    <3> HIDE DEF pays, to, fee
    <3>2. IsFiniteSet({to} \cup {fee}) /\ {to} \cup {fee} = {to, fee}
      BY FS_Singleton, FS_AddElement
    <3> QED
      BY <3>1, <3>2, FS_Subset
  <2>3. IsFiniteSet({e \in pays : e.amount > 0})
    BY <2>2, FS_Subset
  <2>4. IsFiniteSet(IF Debits(r.op) THEN {Entry(r, r.from, "debit", r.amount)} ELSE {})
    BY FS_EmptySet, FS_Singleton
  <2> HIDE DEF pays
  <2>5. entries' = entries \cup ({e \in pays : e.amount > 0} \cup
                     (IF Debits(r.op) THEN {Entry(r, r.from, "debit", r.amount)} ELSE {}))
    BY DEF Commit, Posted, PaidOf, pays
  <2> QED
    BY <2>3, <2>4, <2>5, FS_Union DEF LedgerInv
<1> QED
  BY <1>5, <1>6

-----------------------------------------------------------------------------
LEMMA NumberedStep == ASSUME WalletInv, Numbered, [Next]_vars PROVE Numbered'
<1>1. ops \in Nat /\ conn \in [Conns -> Work \cup {Idle}] /\ \A d \in Conns : conn[d].pc # "idle" => conn[d].id \in Nat
  BY AtWork DEF WalletInv, TypeOK, Work
<1>2. CASE /\ UNCHANGED <<balance, entries>> /\ ops' \in {ops, ops + 1}
           /\ \A c \in Conns : conn'[c].pc # "idle" =>
                \/ conn[c].pc # "idle" /\ conn'[c].id = conn[c].id
                \/ ops' = ops + 1 /\ conn'[c].id = ops'
           /\ \A c, d \in Conns : conn'[c] # conn[c] /\ conn'[d] # conn[d] => c = d
  <2>1. \A c \in Conns : conn'[c].pc # "idle" =>
          \/ conn[c].pc # "idle" /\ conn'[c].id = conn[c].id /\ conn[c].id \in Nat /\ conn[c].id <= ops
          \/ ops' = ops + 1 /\ conn'[c].id = ops + 1
    BY <1>1, <1>2 DEF Numbered
  <2>2. ASSUME NEW c \in Conns, conn'[c].pc # "idle"
        PROVE  /\ conn'[c].id <= ops' /\ \A e \in entries : e.id # conn'[c].id
               /\ \A d \in Conns \ {c} : conn'[d].pc # "idle" => conn'[d].id # conn'[c].id
    <3>1. CASE conn[c].pc # "idle" /\ conn'[c].id = conn[c].id
      <4>1. conn[c].id \in Nat /\ conn[c].id <= ops /\ \A e \in entries : e.id # conn[c].id
        BY <1>1, <3>1 DEF Numbered
      <4>2. ASSUME NEW d \in Conns \ {c}, conn'[d].pc # "idle" PROVE conn'[d].id # conn[c].id
        BY <1>1, <2>1, <3>1, <4>1, <4>2 DEF Numbered
      <4> QED
        BY <1>1, <1>2, <3>1, <4>1, <4>2
    <3>2. CASE ops' = ops + 1 /\ conn'[c].id = ops + 1 /\ ~ (conn[c].pc # "idle" /\ conn'[c].id = conn[c].id)
      <4>1. \A e \in entries : e.id # ops + 1
        BY <1>1 DEF Numbered
      <4>2. conn'[c] # conn[c]
        BY <2>2, <3>2
      <4>3. ASSUME NEW d \in Conns \ {c}, conn'[d].pc # "idle" PROVE conn'[d].id # ops + 1
        <5>1. conn'[d] = conn[d]
          BY <1>2, <4>2
        <5>2. conn[d].id \in Nat /\ conn[d].id <= ops
          BY <1>1, <4>3, <5>1 DEF Numbered
        <5> QED
          BY <1>1, <5>1, <5>2
      <4> QED
        BY <1>1, <3>2, <4>1, <4>3
    <3> QED
      BY <2>1, <2>2, <3>1, <3>2
  <2>3. \A e \in entries : e.id \in Nat /\ e.id <= ops'
    BY <1>1, <1>2 DEF Numbered
  <2> QED
    BY <1>2, <2>2, <2>3 DEF Numbered
<1>3. ASSUME NEW c \in Conns, Commit(c) PROVE Numbered'
  <2>1. \A e \in entries' : e \in entries \/ e.id = conn[c].id
    BY <1>3 DEF Commit, Posted, Entry
  <2>2. \A d \in Conns : conn'[d].pc # "idle" => d # c /\ conn'[d] = conn[d]
    BY <1>1, <1>3 DEF Commit, Idle
  <2>3. ops' = ops /\ conn[c].pc # "idle"
    BY <1>3 DEF Commit
  <2> QED
    BY <1>1, <2>1, <2>2, <2>3 DEF Numbered
<1> QED
  BY <1>2, <1>3, WhatChanges

LEMMA LedgerInvStep == ASSUME WalletInv, LedgerInv, [Next]_vars PROVE LedgerInv'
<1>1. AllMoved' /\ Numbered'
  BY MovedStep, NumberedStep DEF LedgerInv
<1>2. BooksAgree' /\ IsFiniteSet(entries')
  <2>1. CASE UNCHANGED <<balance, entries>>
    BY <2>1 DEF LedgerInv, BooksAgree
  <2> QED
    BY <2>1, WhatChanges, CommitPosts
<1> QED
  BY <1>1, <1>2 DEF LedgerInv

LEMMA LedgerInvInit == Init => LedgerInv
<1> SUFFICES ASSUME Init PROVE LedgerInv
  OBVIOUS
<1>1. AllMoved /\ Numbered /\ IsFiniteSet(entries)
  BY FS_EmptySet DEF Init, AllMoved, Numbered, Idle
<1>2. Total({}) = 0
  <2>1. SumOver(AmountOf({}), {}) = 0
    BY SumEmpty
  <2> QED
    BY <2>1, TotalIs, FS_EmptySet
<1>3. \A a \in Accounts : /\ {e \in entries : e.account = a /\ e.type = "credit"} = {}
                         /\ {e \in entries : e.account = a /\ e.type = "debit"} = {}
                         /\ balance[a] = 0
  BY DEF Init
<1> QED
  BY <1>1, <1>2, <1>3 DEF LedgerInv, BooksAgree

\* Whatever transactions race for an account, lose their connection or are sent
\* again, its balance is the sum of its ledger's credits less that of its debits.
THEOREM BooksBalance == Spec => []BooksAgree
<1>1. Init => WalletInv /\ LedgerInv
  BY InitEstablishes, LedgerInvInit
<1>2. WalletInv /\ LedgerInv /\ [Next]_vars => (WalletInv /\ LedgerInv)'
  BY WalletInvStep, LedgerInvStep
<1>3. LedgerInv => BooksAgree
  BY DEF LedgerInv
<1> QED
  BY <1>1, <1>2, <1>3, PTL DEF Spec

-----------------------------------------------------------------------------
(* Wallet: one request at a time. *)

\* A transaction is what was asked for, and nobody pays himself.
Asked(w) ==
  /\ [op |-> w.op, amount |-> w.amount] \in Asks
  /\ w.op \in {"transfer", "tip"} => w.from # w.to

AllAsked == \A c \in Conns : conn[c].pc # "idle" => Asked(conn[c])

LEMMA OneAsked ==
  ASSUME WalletInv, AllAsked, NEW c \in Conns, NEW w, conn' = [conn EXCEPT ![c] = w],
         w.pc # "idle" => Asked(w)
  PROVE  AllAsked'
<1>1. \A d \in Conns : conn'[d] = IF d = c THEN w ELSE conn[d]
  BY DEF WalletInv, TypeOK
<1>2. \A d \in Conns : conn'[d].pc # "idle" => Asked(conn'[d])
  BY <1>1 DEF AllAsked
<1>3. AllAsked' <=> \A d \in Conns : conn'[d].pc # "idle" => Asked(conn'[d])
  BY DEF AllAsked, Asked
<1> QED
  BY <1>2, <1>3, Zenon

LEMMA AskedRequest ==
  ASSUME WalletInv, AllAsked, NEW c \in Conns, Request(c) PROVE AllAsked'
<1>1. PICK ask \in Asks, from \in Users, to \in Users, key \in Keys \cup {ops'} :
        /\ ask.op \in {"transfer", "tip"} => from # to
        /\ ask.op \in {"deposit", "withdrawal"} => from = to
        /\ key \in Keys \/ ask.op = "tip"
        /\ conn' = [conn EXCEPT ![c] =
          [pc |-> "insert", id |-> ops', key |-> key, op |-> ask.op, amount |-> ask.amount,
           from |-> from, to |-> to, new |-> {}, held |-> {}, left |-> <<>>,
           delta |-> [a \in Accounts |-> 0]]]
  BY Zenon DEF Request
<1> DEFINE w == [pc |-> "insert", id |-> ops', key |-> key, op |-> ask.op, amount |-> ask.amount,
                 from |-> from, to |-> to, new |-> {}, held |-> {}, left |-> <<>>,
                 delta |-> [a \in Accounts |-> 0]]
<1>2. w.op = ask.op /\ w.amount = ask.amount /\ w.from = from /\ w.to = to
  OBVIOUS
<1>3. [op |-> ask.op, amount |-> ask.amount] = ask
  BY WalletAssumption
<1>4. conn' = [conn EXCEPT ![c] = w]
  BY <1>1
<1> HIDE DEF w
<1>5. Asked(w)
  BY <1>1, <1>2, <1>3 DEF Asked
<1> QED
  BY <1>4, <1>5, OneAsked

\* A statement leaves what its transaction was asked for alone.
LEMMA AskedStatement ==
  ASSUME WalletInv, AllAsked, NEW c \in Conns,
         Insert(c) \/ Ensure(c) \/ LockBalance(c) \/ Debit(c) \/ Credit(c), ~ Rollback(c)
  PROVE  AllAsked'
<1>1. conn[c].pc # "idle" /\ conn[c] \in Work /\ conn \in [Conns -> Work \cup {Idle}] /\ Asked(conn[c])
  BY AtWork DEF WalletInv, AllAsked, TypeOK, Insert, Ensure, LockBalance, Debit, Credit
<1>2. /\ conn' = [conn EXCEPT ![c] = conn'[c]]
      /\ conn'[c].op = conn[c].op /\ conn'[c].amount = conn[c].amount
      /\ conn'[c].from = conn[c].from /\ conn'[c].to = conn[c].to
  <2>1. CASE Insert(c)
    BY <1>1, <2>1 DEF Insert, Work
  <2>2. CASE Ensure(c)
    BY <1>1, <2>2 DEF Ensure, Work
  <2>3. CASE LockBalance(c)
    BY <1>1, <2>3 DEF LockBalance, Work
  <2>4. CASE Debit(c)
    BY <1>1, <2>4 DEF Debit, Work
  <2>5. CASE Credit(c)
    BY <1>1, <2>5 DEF Credit, Work
  <2> QED
    BY <2>1, <2>2, <2>3, <2>4, <2>5
<1> DEFINE w == conn'[c]
<1>3. Asked(w)
  BY <1>1, <1>2 DEF Asked
<1> HIDE DEF w
<1>4. conn' = [conn EXCEPT ![c] = w]
  BY <1>2 DEF w
<1> QED
  BY <1>3, <1>4, OneAsked

LEMMA AskedStep == ASSUME WalletInv, AllAsked, [Next]_vars PROVE AllAsked'
<1>1. CASE UNCHANGED vars
  BY <1>1 DEF vars, AllAsked, Asked
<1>2. ASSUME NEW c \in Conns, Rollback(c) \/ Commit(c) PROVE AllAsked'
  <2>1. conn' = [conn EXCEPT ![c] = Idle]
    BY <1>2 DEF Rollback, Commit
  <2> QED
    BY <2>1, OneAsked DEF Idle
<1> QED
  BY <1>1, <1>2, AskedRequest, AskedStatement DEF Next, Step, Deadlock, Lost

\* Whatever a step does, the books change only when a transaction commits.
LEMMA BooksRest ==
  ASSUME WalletInv, [Next]_vars
  PROVE  UNCHANGED <<balance, transactions>> \/ \E c \in Conns : Commit(c)
BY DEF Next, Step, Request, Insert, Ensure, LockBalance, Debit, Credit, Deadlock, Lost, Rollback,
       Books, vars

\* A commit carries one request out: the key is new, the payer can pay, and the
\* balances move by what the request asks for.
LEMMA CommitIsOne ==
  ASSUME WalletInv, LedgerInv, AllAsked, NEW c \in Conns, Commit(c)
  PROVE  Promised!Next
<1> DEFINE r == conn[c]
           ask == [op |-> r.op, amount |-> r.amount]
<1>1. /\ r \in Work /\ r.pc = "commit" /\ Moved(r) /\ Asked(r) /\ Sound(r)
      /\ balance \in [Accounts -> Nat] /\ \A q \in transactions : q.key # r.key
  BY AtWork DEF Commit, WalletInv, TypeOK, LedgerInv, AllMoved, AllAsked, NewKeys, Keyed
<1>2. /\ r.op \in Kinds /\ r.amount \in Nat /\ r.from \in Users /\ r.to \in Users
      /\ r.key \in Keys \cup 1..MaxOps /\ FeeAccount \notin Users
  BY <1>1, WalletAssumption DEF Work
<1>3. ask \in Asks /\ ask.op = r.op /\ ask.amount = r.amount /\ (r.op \in {"transfer", "tip"} => r.from # r.to)
  BY <1>1 DEF Asked
<1>4. Promised!Fee(ask) = Fee(r.op, r.amount) /\ Fee(r.op, r.amount) \in Nat
  BY <1>2, FeeBounds DEF Promised!Fee, Fee
<1>5. balance' = [a \in Accounts |-> balance[a] + (Due(r, a) - Debt(r, a))]
  <2>1. \A a \in Accounts : Balance(c, a) = balance[a] + (Due(r, a) - Debt(r, a))
    BY <1>1 DEF Balance, Moved
  <2> QED
    BY <2>1 DEF Commit
<1>6. transactions' = transactions \cup {[id |-> r.id, key |-> r.key, op |-> r.op, amount |-> r.amount]}
  BY DEF Commit
<1>7. Debits(r.op) => balance[r.from] >= r.amount
  <2> SUFFICES ASSUME Debits(r.op) PROVE balance[r.from] >= r.amount
    OBVIOUS
  <2>1. r.from \in Accounts /\ r.from # FeeAccount /\ r.op # "deposit"
    BY <1>2 DEF Accounts, Debits
  <2>2. r.from \notin PaidOf(r)
    BY <1>1, <1>2, <1>3, <2>1, PaidIs DEF Kinds
  <2>3. Due(r, r.from) = 0 /\ Debt(r, r.from) = r.amount
    BY <2>2 DEF Due, Debt
  <2>4. r.delta[r.from] = 0 - r.amount
    BY <1>1, <1>2, <2>1, <2>3 DEF Moved
  <2> QED
    BY <1>1, <1>2, <2>1, <2>4 DEF Sound
<1> HIDE DEF r, ask
<1>8. Promised!Settle(ask, r.key)
  <2> DEFINE F(q) == [key |-> q.key, op |-> q.op, amount |-> q.amount]
             x == [id |-> r.id, key |-> r.key, op |-> r.op, amount |-> r.amount]
  <2>1. \A q \in transactions : F(q).key # r.key
    BY <1>1
  <2>2. F(x) = [key |-> r.key, op |-> ask.op, amount |-> ask.amount]
    BY <1>3
  <2>3. transactions' = transactions \cup {x}
    BY <1>6
  <2>4. Promised!Settle(ask, r.key) <=>
          /\ \A f \in {F(q) : q \in transactions} : f.key # r.key
          /\ {F(q) : q \in transactions'} =
               {F(q) : q \in transactions} \cup {[key |-> r.key, op |-> ask.op, amount |-> ask.amount]}
    BY DEF Promised!Settle
  <2> HIDE DEF F, x
  <2> QED
    BY <2>1, <2>2, <2>3, <2>4
<1>9. \A a \in Accounts : Due(r, a) =
        (IF a = r.to /\ r.op # "withdrawal" THEN r.amount - Fee(r.op, r.amount) ELSE 0)
          + (IF a = FeeAccount THEN Fee(r.op, r.amount) ELSE 0)
  <2>1. \A a \in Accounts : Share(r, a) =
          IF a = FeeAccount THEN Fee(r.op, r.amount) ELSE r.amount - Fee(r.op, r.amount)
    BY DEF Share
  <2>2. PaidOf(r) = (IF r.op = "withdrawal" THEN {} ELSE {r.to}) \cup {FeeAccount} /\ r.to # FeeAccount
    BY <1>1, <1>2, PaidIs
  <2> QED
    BY <1>2, <1>4, <2>1, <2>2 DEF Due
<1>a. ASSUME NEW from \in SUBSET Users, NEW to \in SUBSET Users,
             \A a \in Accounts : Debt(r, a) = IF a \in from THEN r.amount ELSE 0,
             \A a \in Accounts : (a \in to <=> a = r.to /\ r.op # "withdrawal")
      PROVE  Promised!Move(from, to, ask)
  <2>1. Promised!Move(from, to, ask) <=>
          balance' = [a \in Accounts |->
            balance[a] - (IF a \in from THEN r.amount ELSE 0)
              + (IF a \in to THEN r.amount - Fee(r.op, r.amount) ELSE 0)
              + (IF a = FeeAccount THEN Fee(r.op, r.amount) ELSE 0)]
    BY <1>3, <1>4 DEF Promised!Move, Accounts
  <2>2. ASSUME NEW a \in Accounts
        PROVE  balance[a] + (Due(r, a) - Debt(r, a)) =
                 balance[a] - (IF a \in from THEN r.amount ELSE 0)
                   + (IF a \in to THEN r.amount - Fee(r.op, r.amount) ELSE 0)
                   + (IF a = FeeAccount THEN Fee(r.op, r.amount) ELSE 0)
    BY <1>1, <1>2, <1>4, <1>9, <1>a
  <2> QED
    BY <1>5, <2>1, <2>2
<1>b. ASSUME NEW u \in Users, NEW v \in Users,
             Promised!Deposit(u, ask) \/ Promised!Withdraw(u, ask) \/ Promised!Pay(u, v, ask)
      PROVE  Promised!Next
  <2>1. \E x, y \in Users : Promised!Deposit(x, ask) \/ Promised!Withdraw(x, ask) \/ Promised!Pay(x, y, ask)
    BY <1>b, Zenon
  <2>2. \E key \in Keys \cup 1..MaxOps : Promised!Settle(ask, key)
    <3>1. r.key \in Keys \cup 1..MaxOps
      BY <1>2
    <3> DEFINE key == r.key
    <3>2. key \in Keys \cup 1..MaxOps /\ Promised!Settle(ask, key)
      BY <1>8, <3>1
    <3> HIDE DEF key
    <3> QED
      BY <3>2 DEF Promised!Settle
  <2> QED
    BY <1>3, <2>1, <2>2, Zenon DEF Promised!Next
<1>10. CASE r.op = "deposit"
  <2>1. \A a \in Accounts : Debt(r, a) = 0
    BY <1>10 DEF Debt, Debits
  <2>2. Promised!Move({}, {r.to}, ask)
    <3> DEFINE from == {}
               to == {r.to}
    <3>1. from \in SUBSET Users /\ to \in SUBSET Users
      BY <1>2
    <3>2. \A a \in Accounts : Debt(r, a) = IF a \in from THEN r.amount ELSE 0
      BY <2>1
    <3>3. \A a \in Accounts : a \in to <=> a = r.to /\ r.op # "withdrawal"
      BY <1>10
    <3> HIDE DEF from, to
    <3>4. Promised!Move(from, to, ask)
      BY <1>a, <3>1, <3>2, <3>3
    <3> QED
      BY <3>4 DEF from, to
  <2> QED
    BY <1>2, <1>3, <1>8, <1>10, <2>2, <1>b DEF Promised!Deposit
<1>11. CASE r.op = "withdrawal"
  <2>1. \A a \in Accounts : Debt(r, a) = IF a = r.from THEN r.amount ELSE 0
    BY <1>11 DEF Debt, Debits
  <2>2. Promised!Move({r.from}, {}, ask)
    <3> DEFINE from == {r.from}
               to == {}
    <3>1. from \in SUBSET Users /\ to \in SUBSET Users
      BY <1>2
    <3>2. \A a \in Accounts : Debt(r, a) = IF a \in from THEN r.amount ELSE 0
      BY <2>1
    <3>3. \A a \in Accounts : a \in to <=> a = r.to /\ r.op # "withdrawal"
      BY <1>11
    <3> HIDE DEF from, to
    <3>4. Promised!Move(from, to, ask)
      BY <1>a, <3>1, <3>2, <3>3
    <3> QED
      BY <3>4 DEF from, to
  <2> QED
    BY <1>2, <1>3, <1>7, <1>8, <1>11, <2>2, <1>b DEF Promised!Withdraw, Debits
<1>12. CASE r.op \in {"transfer", "tip"}
  <2>1. \A a \in Accounts : Debt(r, a) = IF a = r.from THEN r.amount ELSE 0
    BY <1>12 DEF Debt, Debits
  <2>2. Promised!Move({r.from}, {r.to}, ask)
    <3> DEFINE from == {r.from}
               to == {r.to}
    <3>1. from \in SUBSET Users /\ to \in SUBSET Users
      BY <1>2
    <3>2. \A a \in Accounts : Debt(r, a) = IF a \in from THEN r.amount ELSE 0
      BY <2>1
    <3>3. \A a \in Accounts : a \in to <=> a = r.to /\ r.op # "withdrawal"
      BY <1>12
    <3> HIDE DEF from, to
    <3>4. Promised!Move(from, to, ask)
      BY <1>a, <3>1, <3>2, <3>3
    <3> QED
      BY <3>4 DEF from, to
  <2> QED
    BY <1>2, <1>3, <1>7, <1>8, <1>12, <2>2, <1>b DEF Promised!Pay, Debits
<1> QED
  BY <1>2, <1>10, <1>11, <1>12 DEF Kinds

\* However requests race for rows and keys, lose their connection halfway, break a
\* deadlock or are sent again, what becomes of the books is what Bank does one
\* request at a time.
THEOREM WalletIsABank == Spec => OneAtATime /\ Promised!Spec
<1>1. Init => WalletInv /\ LedgerInv /\ AllAsked /\ Promised!Init
  BY InitEstablishes, LedgerInvInit DEF Init, AllAsked, Idle, Promised!Init, Accounts
<1>2. WalletInv /\ LedgerInv /\ AllAsked /\ [Next]_vars => (WalletInv /\ LedgerInv /\ AllAsked)'
  BY WalletInvStep, LedgerInvStep, AskedStep
<1>3. WalletInv /\ LedgerInv /\ AllAsked /\ [Next]_vars =>
        [UNCHANGED <<balance, transactions>> \/ Promised!Next]_<<balance, transactions>>
  BY BooksRest, CommitIsOne
<1>4. WalletInv /\ LedgerInv /\ AllAsked /\ [Next]_vars => [Promised!Next]_(Promised!vars)
  BY BooksRest, CommitIsOne DEF Promised!vars
<1> QED
  BY <1>1, <1>2, <1>3, <1>4, PTL DEF Spec, OneAtATime, Promised!Spec

-----------------------------------------------------------------------------
(* Nobody waits for ever, however many requests wait for one another. *)

\* What the statement c is at asks for before it can be run: the guards of Step.
MayGoOn(c) ==
  \/ conn[c].pc = "insert" /\ Unwritten(c)
  \/ conn[c].pc = "ensure" /\ Unclaimed(c, Head(conn[c].left))
  \/ conn[c].pc \in {"balance", "debit"} /\ Free(c, conn[c].from)
  \/ conn[c].pc = "credit" /\ Free(c, Head(conn[c].left))
  \/ conn[c].pc = "commit"
  \/ InDeadlock(c)

\* Whoever may not go on waits for a transaction that is open too.
LEMMA WhoWaits ==
  ASSUME WalletInv, NEW c \in Conns, conn[c].pc # "idle", ~ MayGoOn(c)
  PROVE  \E d \in Conns : conn[d].pc # "idle" /\ WaitsFor(c, d)
<1>1. conn[c].pc \in {"insert", "ensure", "balance", "debit", "credit", "commit"}
  BY AtWork DEF WalletInv, Work
<1>2. \A d \in Conns : conn[d].pc = "idle" => conn[d].held = {} /\ conn[d].new = {}
  BY DEF WalletInv, TypeOK, Work, Idle
<1>3. PICK d \in Conns \ {c} :
        CASE conn[c].pc = "insert" -> conn[d].pc \notin {"idle", "insert"} /\ conn[d].key = conn[c].key
          [] conn[c].pc = "ensure" -> Head(conn[c].left) \in conn[d].new
          [] conn[c].pc \in {"balance", "debit"} -> conn[c].from \in conn[d].held
          [] conn[c].pc = "credit" -> Head(conn[c].left) \in conn[d].held
          [] OTHER -> FALSE
  BY <1>1 DEF MayGoOn, Unwritten, Unclaimed, Free
<1>4. WaitsFor(c, d)
  BY <1>3 DEF WaitsFor
<1>5. conn[d].pc # "idle"
  BY <1>1, <1>2, <1>3
<1> QED
  BY <1>4, <1>5

\* In the smallest set of which everybody waits for somebody in it, everybody is waited for.
LEMMA WaitersMeet ==
  ASSUME IsFiniteSet(Conns), NEW O \in SUBSET Conns, O # {},
         \A c \in O : \E d \in O : WaitsFor(c, d)
  PROVE  \E c \in O : InDeadlock(c)
<1> DEFINE F == {S \in SUBSET Conns : S \subseteq O /\ S # {} /\ \A c \in S : \E d \in S : WaitsFor(c, d)}
<1>1. PICK S \in F : \A U \in SUBSET S : U # S => U \notin F
  <2>1. F \in SUBSET SUBSET Conns /\ O \in F
    OBVIOUS
  <2> HIDE DEF F
  <2> QED
    BY <2>1, SmallestSubset
<1>2. ASSUME NEW d \in S, \A e \in S : ~ WaitsFor(e, d) PROVE FALSE
  <2>1. PICK e \in S : WaitsFor(d, e)
    BY <1>1
  <2>2. e \in S \ {d}
    BY <2>1 DEF WaitsFor
  <2>3. \A c \in S \ {d} : \E b \in S \ {d} : WaitsFor(c, b)
    BY <1>1, <1>2
  <2>4. S \ {d} \in F
    BY <1>1, <2>2, <2>3
  <2> QED
    BY <1>1, <2>4
<1>3. PICK c \in S : c \in O
  BY <1>1
<1>4. InDeadlock(c)
  BY <1>1, <1>2, <1>3 DEF InDeadlock
<1> QED
  BY <1>3, <1>4

\* While a request is being served, some transaction has a statement it may run, or is
\* one that the database finds in a deadlock and ends: of any number of connections,
\* nobody waits for ever (handlers.rs, the locks of transfer, tip and withdraw).
THEOREM SomeoneGoesOn ==
  ASSUME IsFiniteSet(Conns)
  PROVE  Spec => []((\E c \in Conns : conn[c].pc # "idle") => \E c \in Conns : MayGoOn(c))
<1>1. ASSUME WalletInv, NEW b \in Conns, conn[b].pc # "idle" PROVE \E c \in Conns : MayGoOn(c)
  <2> SUFFICES ASSUME \A c \in Conns : ~ MayGoOn(c) PROVE FALSE
    OBVIOUS
  <2> DEFINE O == {c \in Conns : conn[c].pc # "idle"}
  <2>1. \A c \in O : \E d \in O : WaitsFor(c, d)
    BY <1>1, WhoWaits
  <2>2. O \in SUBSET Conns /\ O # {}
    BY <1>1
  <2>3. \A c \in O : ~ InDeadlock(c)
    BY DEF MayGoOn
  <2> HIDE DEF O
  <2> QED
    BY <2>1, <2>2, <2>3, WaitersMeet
<1>2. WalletInv => ((\E c \in Conns : conn[c].pc # "idle") => \E c \in Conns : MayGoOn(c))
  BY <1>1
<1> QED
  BY <1>2, InitEstablishes, WalletInvStep, PTL DEF Spec

\* Two open transactions have not both written a new account.
ClaimsApart == \A c, d \in Conns : c # d => conn[c].new \cap conn[d].new = {}

LEMMA ClaimsStep == ASSUME WalletInv, ClaimsApart, [Next]_vars PROVE ClaimsApart'
<1> USE DEF ClaimsApart
<1>1. conn \in [Conns -> Work \cup {Idle}]
  BY DEF WalletInv, TypeOK
<1>2. ASSUME NEW c \in Conns, \A d \in Conns : d # c => conn'[d] = conn[d],
             \A a \in conn'[c].new : a \in conn[c].new \/ \A d \in Conns \ {c} : a \notin conn[d].new
      PROVE  ClaimsApart'
  BY <1>2
<1>3. ASSUME NEW c \in Conns, Rollback(c) \/ Commit(c) PROVE ClaimsApart'
  BY <1>1, <1>2, <1>3 DEF Rollback, Commit, Idle
<1>4. ASSUME NEW c \in Conns, Request(c) PROVE ClaimsApart'
  BY <1>1, <1>2, <1>4 DEF Request
<1>5. ASSUME NEW c \in Conns, Ensure(c) PROVE ClaimsApart'
  <2>1. conn[c] \in Work
    BY <1>5, AtWork DEF Ensure, WalletInv
  <2>2. conn'[c].new = conn[c].new \cup ({Head(conn[c].left)} \ accounts)
    BY <1>1, <1>5, <2>1 DEF Ensure, Work
  <2>3. \A d \in Conns \ {c} : Head(conn[c].left) \notin conn[d].new
    BY <1>5 DEF Ensure, Unclaimed
  <2>4. \A d \in Conns : d # c => conn'[d] = conn[d]
    BY <1>1, <1>5 DEF Ensure
  <2> QED
    BY <1>2, <2>2, <2>3, <2>4
<1>6. ASSUME NEW c \in Conns, Insert(c) \/ LockBalance(c) \/ Debit(c) \/ Credit(c), ~ Rollback(c)
      PROVE  ClaimsApart'
  <2>1. conn[c] \in Work
    BY <1>6, AtWork DEF Insert, LockBalance, Debit, Credit, WalletInv
  <2>2. conn'[c].new = conn[c].new /\ \A d \in Conns : d # c => conn'[d] = conn[d]
    BY <1>1, <1>6, <2>1 DEF Insert, LockBalance, Debit, Credit, Work
  <2> QED
    BY <1>2, <2>2
<1>7. CASE UNCHANGED vars
  BY <1>7 DEF vars
<1> QED
  BY <1>3, <1>4, <1>5, <1>6, <1>7 DEF Next, Step, Deadlock, Lost

\* A transaction waits for one other at most: a key, a new account and a locked row
\* each have one writer.  So a set of which everybody waits and is waited for is made
\* of cycles, and the database's detector finds just those (handlers.rs).
THEOREM WaitsForOne == Spec => [](\A c, d, e \in Conns : WaitsFor(c, d) /\ WaitsFor(c, e) => d = e)
<1>1. Init => ClaimsApart
  BY DEF Init, ClaimsApart, Idle
<1>2. WalletInv /\ ClaimsApart /\ [Next]_vars => ClaimsApart'
  BY ClaimsStep
<1>3. WalletInv /\ ClaimsApart => \A c, d, e \in Conns : WaitsFor(c, d) /\ WaitsFor(c, e) => d = e
  <2> SUFFICES ASSUME WalletInv, ClaimsApart, NEW c \in Conns, NEW d \in Conns, NEW e \in Conns,
                      WaitsFor(c, d), WaitsFor(c, e), d # e
               PROVE  FALSE
    OBVIOUS
  <2>1. /\ conn[d].held \cap conn[e].held = {} /\ conn[d].new \cap conn[e].new = {}
        /\ Keyed(conn[d]) /\ Keyed(conn[e]) => conn[d].key # conn[e].key
    BY DEF WalletInv, Disjoint, ClaimsApart
  <2> QED
    BY <2>1 DEF WaitsFor, Keyed
<1> QED
  BY <1>1, <1>2, <1>3, InitEstablishes, WalletInvStep, PTL DEF Spec

-----------------------------------------------------------------------------
(* Live lane: rows, leases and who gives capacity back. *)

RowType ==
  row \in [Streams -> [status : {"none", "idle", "live", "ended"}, scan : {"pending", "blocked"}, blocked : BOOLEAN]]

\* A lease is a record that names its encoder, which NoLease does not.
LeaseType ==
  /\ DOMAIN lease = Streams
  /\ \A s \in Streams :
       lease[s] = NoLease \/ ("encoder" \in DOMAIN lease[s] /\ lease[s].encoder \in Encoders)

\* Whoever is about to give capacity back has closed the row before.
JobsRelease ==
  \A j \in jobs :
    {"do", "s"} \subseteq DOMAIN j /\ j.s \in Streams /\ (j.do = "release" => row[j.s].status = "ended")

LoopReleases ==
  /\ rec \in [at : {"rest", "media", "orphans", "stale"}, ids : SUBSET Streams, freeing : SUBSET Streams]
  /\ \A s \in rec.freeing : row[s].status = "ended"

LaneInv == RowType /\ LeaseType /\ JobsRelease /\ LoopReleases

\* The rows of a step that ends nothing again: their shape, and who has ended.
RowsKept == RowType' /\ \A s \in Streams : row[s].status = "ended" => row'[s].status = "ended"

\* Who has a lease after a step, compared with before.
LeasesKept ==
  \A s \in Streams : lease[s] # NoLease /\ lease'[s] = NoLease =>
    row[s].status = "ended" \/ Unplannable(s) \/ Restarted

-----------------------------------------------------------------------------
\* No reachable lease is NoLease: what the governor grants names an encoder.
LEMMA EncoderNamed ==
  ASSUME NEW l, "encoder" \in DOMAIN l, l.encoder \in Encoders PROVE l # NoLease
BY DEF NoLease, Encoders

LEMMA PlanNames ==
  ASSUME NEW s, NEW src, NEW nvenc
  PROVE /\ "encoder" \in DOMAIN PlanFor(s, src, nvenc)
        /\ PlanFor(s, src, nvenc).encoder \in Encoders
BY DEF PlanFor, Encoders

LEMMA PressedNames ==
  ASSUME NEW l, "encoder" \in DOMAIN l, l.encoder \in Encoders
  PROVE "encoder" \in DOMAIN Pressed(l) /\ Pressed(l).encoder \in Encoders
BY DEF Pressed

LEMMA ReservedNames ==
  ASSUME NEW s \in Streams, LeaseType
  PROVE /\ Reserved(s) = NoLease \/ ("encoder" \in DOMAIN Reserved(s) /\ Reserved(s).encoder \in Encoders)
        /\ lease[s] # NoLease => Reserved(s) = lease[s]
<1> DEFINE used == UsedCpu(Streams)
<1> DEFINE least == Min({Nominal, CpuBudget - used})
<1>1. \A e, c, n : /\ "encoder" \in DOMAIN Provisional(e, c, n)
                   /\ Provisional(e, c, n).encoder = e
  BY DEF Provisional
<1>2. Reserved(s) \in {lease[s], NoLease, Provisional("nvenc", NominalCard.cpu, NominalCard.sessions),
                       Provisional("x264", least, 0)}
  BY DEF Reserved
<1>3. lease[s] # NoLease => Reserved(s) = lease[s]
  BY DEF Reserved
<1> QED
  BY <1>1, <1>2, <1>3 DEF LeaseType, Encoders

-----------------------------------------------------------------------------
(* What one step does to each part of the invariant. *)

LaneKept == RowsKept /\ LeasesKept /\ LeaseType' /\ JobsRelease' /\ LoopReleases'

\* Rows that keep who has ended keep what the requests and the loop rest on.
LEMMA EndedCarries ==
  ASSUME JobsRelease, LoopReleases, RowsKept
  PROVE /\ \A j \in jobs : /\ {"do", "s"} \subseteq DOMAIN j /\ j.s \in Streams
                            /\ j.do = "release" => row'[j.s].status = "ended"
        /\ \A s \in rec.freeing : row'[s].status = "ended"
BY DEF JobsRelease, LoopReleases, RowsKept

LEMMA SameRows == ASSUME RowType, UNCHANGED row PROVE RowsKept
BY DEF RowType, RowsKept

LEMMA SameLeases == ASSUME LeaseType, UNCHANGED lease PROVE LeasesKept /\ LeaseType'
BY DEF LeaseType, LeasesKept

\* Actions that change no row, no lease and only add requests that release nothing.
LEMMA QuietStep ==
  ASSUME LaneInv, UNCHANGED <<row, lease, rec>>,
         \A j \in jobs' : j \in jobs \/ ({"do", "s"} \subseteq DOMAIN j /\ j.s \in Streams /\ j.do # "release")
  PROVE LaneKept
<1>1. RowsKept /\ LeasesKept /\ LeaseType'
  BY SameRows, SameLeases DEF LaneInv
<1>2. JobsRelease' /\ LoopReleases'
  BY DEF LaneInv, JobsRelease, LoopReleases
<1> QED BY <1>1, <1>2 DEF LaneKept

LEMMA StreamSteps ==
  ASSUME LaneInv, NEW s \in Streams, StreamStep(s) PROVE LaneKept
<1>1. CASE CreateStream(s)
  <2>1. RowsKept
    BY <1>1 DEF LaneInv, RowType, RowsKept, CreateStream
  <2> QED
    BY <1>1, <2>1, EndedCarries, SameLeases
    DEF LaneInv, LaneKept, CreateStream, JobsRelease, LoopReleases, Media
<1>2. CASE MintPublishTicket(s) \/ TicketExpires(s)
  BY <1>2, QuietStep DEF MintPublishTicket, TicketExpires, Capacity
<1>3. CASE Authorize(s)
  BY <1>3, QuietStep DEF Authorize, Begin, Job, Rows, Capacity
<1>4. CASE Ready(s)
  BY <1>4, QuietStep DEF Ready, Begin, Job, Rows, Capacity
<1>5. CASE Playable(s)
  <2>1. RowsKept
    BY <1>5 DEF LaneInv, RowType, RowsKept, Playable, Open
  <2> QED
    BY <1>5, <2>1, EndedCarries, SameLeases
    DEF LaneInv, LaneKept, Playable, JobsRelease, LoopReleases, Capacity
<1>6. CASE Pressure(s)
  <2>1. LeaseType' /\ LeasesKept
    <3>1. "encoder" \in DOMAIN lease[s] /\ lease[s].encoder \in Encoders
      BY <1>6 DEF LaneInv, LeaseType, Pressure
    <3>2. "encoder" \in DOMAIN Pressed(lease[s]) /\ Pressed(lease[s]).encoder \in Encoders
      BY <3>1, PressedNames
    <3>3. Pressed(lease[s]) # NoLease
      BY <3>2, EncoderNamed
    <3> QED
      BY <1>6, <3>2, <3>3 DEF LaneInv, LeaseType, LeasesKept, Pressure
  <2>2. RowsKept
    BY <1>6, SameRows DEF LaneInv, Pressure, Rows
  <2> QED
    BY <1>6, <2>1, <2>2 DEF LaneInv, LaneKept, Pressure, JobsRelease, LoopReleases, Rows
<1>7. CASE EndByAuthor(s)
  <2>1. RowsKept
    BY <1>7 DEF LaneInv, RowType, RowsKept, EndByAuthor
  <2> QED
    BY <1>7, <2>1, EndedCarries, SameLeases
    DEF LaneInv, LaneKept, EndByAuthor, JobsRelease, LoopReleases, Capacity
<1>8. CASE PublisherLeaves(s)
  BY <1>8, QuietStep DEF PublisherLeaves, Drops, Job, Rows, Capacity
<1>9. CASE LadderExits(s) \/ FrameFlagged(s)
  BY <1>9, QuietStep DEF LadderExits, FrameFlagged, Rows, Capacity
<1>10. CASE Sweep(s)
  BY <1>10, QuietStep DEF Sweep, Job, Rows, Capacity
<1> QED
  BY <1>1, <1>2, <1>3, <1>4, <1>5, <1>6, <1>7, <1>8, <1>9, <1>10 DEF StreamStep

LEMMA JobSteps ==
  ASSUME LaneInv, NEW j \in jobs, JobStep(j) PROVE LaneKept
<1>0. {"do", "s"} \subseteq DOMAIN j /\ j.s \in Streams /\ (j.do = "release" => row[j.s].status = "ended")
  BY DEF LaneInv, JobsRelease
<1>1. CASE Reserve(j)
  <2>1. LeaseType' /\ LeasesKept
    BY <1>0, <1>1, ReservedNames DEF LaneInv, LeaseType, LeasesKept, Reserve
  <2>2. RowsKept
    BY <1>1, SameRows DEF LaneInv, Reserve, Rows
  <2> QED
    BY <1>1, <2>1, <2>2 DEF LaneInv, LaneKept, Reserve, Goes, JobsRelease, LoopReleases, Rows
<1>2. CASE Plan(j)
  <2>1. RowsKept
    BY <1>2, SameRows DEF LaneInv, Plan, Rows
  <2>2. LeaseType'
    BY <1>0, <1>2, PlanNames DEF LaneInv, LeaseType, Plan
  <2>3. LeasesKept
    <3>1. CASE LadderFor(j.src) = {}
      <4> DEFINE ending == [Job("end", j.s) EXCEPT !.for = "plan"]
      <4>1. ending.s = j.s /\ ending.for = "plan"
        BY DEF Job
      <4>2. ending \in jobs'
        BY <1>2, <3>1 DEF Plan, Goes
      <4>3. Unplannable(j.s)
        BY <4>1, <4>2 DEF Unplannable
      <4> QED
        BY <1>0, <1>2, <3>1, <4>3 DEF LaneInv, LeaseType, LeasesKept, Plan
    <3>2. CASE LadderFor(j.src) # {}
      <4>1. PlanFor(j.s, j.src, j.nvenc) # NoLease
        BY PlanNames, EncoderNamed
      <4> QED
        BY <1>0, <1>2, <3>2, <4>1 DEF LaneInv, LeaseType, LeasesKept, Plan
    <3> QED BY <3>1, <3>2
  <2>4. \A k \in jobs' : k \in jobs \/ ({"do", "s"} \subseteq DOMAIN k /\ k.s \in Streams /\ k.do # "release")
    BY <1>0, <1>2 DEF Plan, Goes, Job
  <2> QED
    BY <1>2, <2>1, <2>2, <2>3, <2>4 DEF LaneInv, LaneKept, Plan, JobsRelease, LoopReleases, Rows
<1>3. CASE EndStream(j)
  <2>1. RowsKept /\ row'[j.s].status = "ended"
    BY <1>0, <1>3 DEF LaneInv, RowType, RowsKept, EndStream
  <2>2. \A k \in jobs' : k \in jobs \/ ({"do", "s"} \subseteq DOMAIN k /\ k.s = j.s)
    BY <1>0, <1>3 DEF EndStream, Goes
  <2> QED
    BY <1>0, <1>3, <2>1, <2>2, EndedCarries, SameLeases
    DEF LaneInv, LaneKept, EndStream, JobsRelease, LoopReleases, Capacity
<1>4. CASE Release(j)
  <2>1. LeaseType' /\ LeasesKept
    BY <1>0, <1>4 DEF LaneInv, LeaseType, LeasesKept, Release
  <2>2. RowsKept
    BY <1>4, SameRows DEF LaneInv, Release, Rows
  <2> QED
    BY <1>4, <2>1, <2>2 DEF LaneInv, LaneKept, Release, Goes, JobsRelease, LoopReleases, Rows
<1>5. CASE SetStreamScanState(j) \/ MarkBlocked(j)
  <2>1. RowsKept
    <3>1. CASE SetStreamScanState(j)
      BY <1>0, <3>1 DEF LaneInv, RowType, RowsKept, SetStreamScanState
    <3>2. CASE MarkBlocked(j)
      BY <1>0, <3>2 DEF LaneInv, RowType, RowsKept, MarkBlocked
    <3> QED BY <1>5, <3>1, <3>2
  <2>2. \A k \in jobs' : k \in jobs \/ ({"do", "s"} \subseteq DOMAIN k /\ k.s = j.s /\ k.do # "release")
    BY <1>0, <1>5 DEF SetStreamScanState, MarkBlocked, Goes
  <2> QED
    BY <1>0, <1>5, <2>1, <2>2, EndedCarries, SameLeases
    DEF LaneInv, LaneKept, SetStreamScanState, MarkBlocked, JobsRelease, LoopReleases, Capacity
<1>6. CASE KickPublisher(j)
  <2>1. \A k \in jobs' : k \in jobs \/ ({"do", "s"} \subseteq DOMAIN k /\ k.s = j.s /\ k.do # "release")
    BY <1>0, <1>6 DEF KickPublisher, Goes, Drops, Job
  <2> QED
    BY <1>0, <1>6, <2>1, QuietStep DEF KickPublisher, Rows, Capacity
<1> QED
  BY <1>1, <1>2, <1>3, <1>4, <1>5, <1>6 DEF JobStep, EndingStep

LEMMA LoopSteps ==
  ASSUME LaneInv, Reconcile \/ MediaUnknown PROVE LaneKept
<1>1. CASE ListLive
  BY <1>1, SameRows, SameLeases
  DEF LaneInv, LaneKept, ListLive, Rest, Reconciling, Capacity, JobsRelease, LoopReleases
<1>2. CASE CountMisses
  BY <1>2, SameRows, SameLeases
  DEF LaneInv, LaneKept, CountMisses, Reconciling, Capacity, JobsRelease, LoopReleases
<1>3. CASE ReleaseOrphan
  <2>1. LeaseType' /\ LeasesKept
    BY <1>3 DEF LaneInv, LeaseType, LeasesKept, LoopReleases, ReleaseOrphan
  <2>2. RowsKept
    BY <1>3, SameRows DEF LaneInv, ReleaseOrphan
  <2> QED
    BY <1>3, <2>1, <2>2 DEF LaneInv, LaneKept, ReleaseOrphan, JobsRelease, LoopReleases
<1>4. CASE ListStale \/ Reconciled \/ MediaUnknown
  <2>1. UNCHANGED <<row, lease, jobs>>
    BY <1>4 DEF ListStale, Reconciled, MediaUnknown, Reconciling, Capacity
  <2>2. LoopReleases'
    <3>1. CASE ListStale
      <4>1. PICK ids \in SUBSET {s \in Streams : row[s].status = "idle"} :
              rec' = IF ids = {} THEN Rest ELSE [rec EXCEPT !.at = "stale", !.ids = ids]
        BY <3>1 DEF ListStale
      <4>2. rec.freeing = {} /\ rec \in [at : {"rest", "media", "orphans", "stale"}, ids : SUBSET Streams, freeing : SUBSET Streams]
        BY <3>1 DEF ListStale, LaneInv, LoopReleases
      <4>3. ids \in SUBSET Streams
        BY <4>1
      <4>4. rec' \in [at : {"rest", "media", "orphans", "stale"}, ids : SUBSET Streams, freeing : SUBSET Streams] /\ rec'.freeing = {}
        BY <4>1, <4>2, <4>3 DEF Rest
      <4> QED BY <4>4 DEF LoopReleases
    <3>2. CASE Reconciled \/ MediaUnknown
      BY <3>2 DEF Reconciled, MediaUnknown, Rest, LoopReleases
    <3> QED BY <1>4, <3>1, <3>2
  <2> QED
    BY <2>1, <2>2, SameRows, SameLeases DEF LaneInv, LaneKept, JobsRelease
<1>5. ASSUME NEW s \in Streams, EndOrphan(s) PROVE LaneKept
  <2>1. RowsKept /\ row'[s].status = "ended"
    BY <1>5 DEF LaneInv, RowType, RowsKept, EndOrphan
  <2> QED
    BY <1>5, <2>1, EndedCarries, SameLeases
    DEF LaneInv, LaneKept, EndOrphan, Reconciling, Capacity, JobsRelease, LoopReleases
<1> QED
  BY <1>1, <1>2, <1>3, <1>4, <1>5 DEF Reconcile

LEMMA RestartStep == ASSUME LaneInv, Restart PROVE LaneKept
<1>1. RowsKept
  BY SameRows DEF LaneInv, Restart
<1>2. LeaseType' /\ LeasesKept
  BY DEF LeaseType, LeasesKept, Restart, Restarted
<1> QED
  BY <1>1, <1>2 DEF LaneKept, Restart, Rest, JobsRelease, LoopReleases

LEMMA LaneStep == ASSUME LaneInv, [LaneNext]_laneVars PROVE LaneKept
<1>1. CASE UNCHANGED laneVars
  BY <1>1, QuietStep DEF laneVars
<1> QED
  BY <1>1, StreamSteps, JobSteps, LoopSteps, RestartStep DEF LaneNext

LEMMA LaneStarts == LaneInit => LaneInv
BY DEF LaneInit, LaneInv, RowType, LeaseType, JobsRelease, LoopReleases, Rest

LEMMA LaneInvStep == LaneInv /\ [LaneNext]_laneVars => LaneInv'
BY LaneStep DEF LaneKept, RowsKept, LaneInv

\* Rows of ended streams, leases of open ones and requests that give capacity
\* back agree, in every reachable state.
THEOREM LanesAgree == LaneSpec => []LaneInv
BY LaneStarts, LaneInvStep, PTL DEF LaneSpec

\* A stream that has ended stays ended, whatever hooks are still on their way.
THEOREM EndsForGood == LaneSpec => EndedForGood
<1>1. LaneInv /\ [LaneNext]_laneVars => [\A s \in Streams : row[s].status = "ended" => row'[s].status = "ended"]_laneVars
  BY LaneStep DEF LaneKept, RowsKept
<1> QED
  BY <1>1, LanesAgree, PTL DEF LaneSpec, EndedForGood

\* Capacity is given back once the row is closed, when no ladder can be planned,
\* or with the process: by no other step.
THEOREM KeepsLease == LaneSpec => LeaseKept
<1>1. LaneInv /\ [LaneNext]_laneVars => [LeasesKept]_laneVars
  BY LaneStep DEF LaneKept
<1> QED
  BY <1>1, LanesAgree, PTL DEF LaneSpec, LeaseKept, LeasesKept

-----------------------------------------------------------------------------
(* What the cost model adds up to. *)

\* A finite set of integers has a smallest and a largest.
LEMMA Extremes ==
  ASSUME NEW S \in SUBSET Int, IsFiniteSet(S), S # {}
  PROVE  /\ Min(S) \in S /\ \A y \in S : Min(S) <= y
         /\ Max(S) \in S /\ \A y \in S : Max(S) >= y
<1> DEFINE Bounded(T) == (\E x \in T : \A y \in T : x <= y) /\ (\E x \in T : \A y \in T : x >= y)
           F == {T \in SUBSET S : T # {} /\ ~ Bounded(T)}
<1>1. F = {}
  <2> SUFFICES ASSUME F # {} PROVE FALSE
    OBVIOUS
  <2>1. PICK T \in F : \A U \in SUBSET T : U # T => U \notin F
    <3> HIDE DEF F
    <3>1. F \in SUBSET SUBSET S
      BY DEF F
    <3> QED
      BY <3>1, SmallestSubset
  <2>2. PICK x \in T : TRUE
    BY <2>1
  <2>3. T \in SUBSET Int /\ x \in Int
    BY <2>1
  <2>4. CASE T \ {x} = {}
    <3>1. \A y \in T : y = x
      BY <2>4
    <3>2. Bounded(T)
      BY <2>2, <2>3, <3>1
    <3> QED
      BY <2>1, <3>2
  <2>5. CASE T \ {x} # {}
    <3>1. Bounded(T \ {x})
      BY <2>1, <2>2, <2>5
    <3>2. PICK m \in T \ {x} : \A y \in T \ {x} : m <= y
      BY <3>1
    <3>3. PICK n \in T \ {x} : \A y \in T \ {x} : n >= y
      BY <3>1
    <3>4. \E l \in T : \A y \in T : l <= y
      <4>1. CASE x <= m
        BY <2>3, <3>2, <4>1
      <4>2. CASE m <= x
        BY <2>3, <3>2, <4>2
      <4> QED
        BY <2>3, <3>2, <4>1, <4>2
    <3>5. \E h \in T : \A y \in T : h >= y
      <4>1. CASE x >= n
        BY <2>3, <3>3, <4>1
      <4>2. CASE n >= x
        BY <2>3, <3>3, <4>2
      <4> QED
        BY <2>3, <3>3, <4>1, <4>2
    <3> QED
      BY <2>1, <3>4, <3>5
  <2> QED
    BY <2>4, <2>5
<1>2. Bounded(S)
  BY <1>1
<1>3. (\E x \in S : \A y \in S : x <= y) /\ (\E x \in S : \A y \in S : x >= y)
  BY <1>2
<1> QED
  BY <1>3 DEF Min, Max

\* What the encoder takes of each rung that is not copied.
RungCosts(src, enc) == [h \in Planned(src) \ Copied(src) |-> EncodeCost[enc][h]]

\* The cost of a ladder is a sum over its encoded rungs.
LEMMA RungCostIs ==
  ASSUME NEW src \in Sources, NEW enc \in Encoders, NEW copy, NEW rungs, IsFiniteSet(rungs),
         rungs \ copy \subseteq Planned(src) \ Copied(src)
  PROVE  RungCost(rungs, copy, enc) = SumOver(RungCosts(src, enc), rungs \ copy)
<1> DEFINE S == rungs \ copy
           w == RungCosts(src, enc)
           A(h) == h = [T \in SUBSET S |-> IF T = {} THEN 0 ELSE EncodeCost[enc][Pick(T)] + h[T \ {Pick(T)}]]
           H == CHOOSE h : A(h)
<1>1. RungCost(rungs, copy, enc) = H[S]
  BY DEF RungCost, MapThenSumSet, MapThenFoldSet, Pick
<1>2. w \in [Planned(src) \ Copied(src) -> Nat]
  BY CostAssumption DEF RungCosts
<1>s. S \in SUBSET (Planned(src) \ Copied(src)) /\ IsFiniteSet(S)
  BY FS_Subset
<1>3. \A h : A(h) <=> Adds(h, w, S)
  <2> SUFFICES ASSUME NEW h
               PROVE  [T \in SUBSET S |-> IF T = {} THEN 0 ELSE EncodeCost[enc][Pick(T)] + h[T \ {Pick(T)}]]
                        = [T \in SUBSET S |-> IF T = {} THEN 0 ELSE w[Pick(T)] + h[T \ {Pick(T)}]]
    BY DEF Adds
  <2>1. \A T \in SUBSET S : T # {} => EncodeCost[enc][Pick(T)] = w[Pick(T)]
    <3> SUFFICES ASSUME NEW T \in SUBSET S, T # {} PROVE EncodeCost[enc][Pick(T)] = w[Pick(T)]
      OBVIOUS
    <3>1. Pick(T) \in Planned(src) \ Copied(src)
      BY <1>s, PickIs
    <3> QED
      BY <3>1 DEF RungCosts
  <2> HIDE DEF w, S
  <2> QED
    BY <2>1
<1> HIDE DEF S
<1>4. \E h : Adds(h, w, S)
  BY <1>2, <1>s, UnitsAdd
<1> HIDE DEF A
<1>5. A(H)
  BY <1>3, <1>4
<1>6. Adds(H, w, S)
  BY <1>3, <1>5
<1> HIDE DEF H, w
<1>7. H[S] = Cardinality(Units(w, S))
  BY <1>2, <1>s, <1>6, AddsUnits
<1> QED
  BY <1>1, <1>7 DEF SumOver, w, S

LEMMA RungCostNat ==
  ASSUME NEW src \in Sources, NEW enc \in Encoders, NEW copy, NEW rungs, IsFiniteSet(rungs),
         rungs \ copy \subseteq Planned(src) \ Copied(src)
  PROVE  RungCost(rungs, copy, enc) \in Nat
<1>1. RungCosts(src, enc) \in [Planned(src) \ Copied(src) -> Nat]
  BY CostAssumption DEF RungCosts
<1>2. IsFiniteSet(rungs \ copy)
  BY FS_Subset
<1> QED
  BY <1>1, <1>2, RungCostIs, SumNat

\* Fewer rungs never cost more.
LEMMA RungCostFalls ==
  ASSUME NEW src \in Sources, NEW enc \in Encoders, NEW copy, NEW rungs, IsFiniteSet(rungs),
         rungs \ copy \subseteq Planned(src) \ Copied(src), NEW fewer \in SUBSET rungs
  PROVE  RungCost(fewer, copy, enc) <= RungCost(rungs, copy, enc)
<1>1. RungCosts(src, enc) \in [Planned(src) \ Copied(src) -> Nat]
  BY CostAssumption DEF RungCosts
<1>2. IsFiniteSet(rungs \ copy) /\ IsFiniteSet(fewer) /\ fewer \ copy \subseteq rungs \ copy
  BY FS_Subset
<1>3. SumOver(RungCosts(src, enc), fewer \ copy) <= SumOver(RungCosts(src, enc), rungs \ copy)
  BY <1>1, <1>2, SumSubset
<1> QED
  BY <1>2, <1>3, RungCostIs

LEMMA AtLeastOnce == ASSUME NEW f \in Nat \ {0}, NEW x \in Nat PROVE f * x \in Nat /\ f * x >= x
  OBVIOUS

LEMMA CostIs ==
  ASSUME NEW src \in Sources, NEW enc \in Encoders, NEW copy, NEW rungs, IsFiniteSet(rungs),
         rungs \ copy \subseteq Planned(src) \ Copied(src)
  PROVE  Cost(src, rungs, copy, enc) \in Nat /\ Cost(src, rungs, copy, enc) >= RungCost(rungs, copy, enc)
<1> DEFINE r == RungCost(rungs, copy, enc)
           d == DecodeCost[src.height]
           f == src.fps
<1>1. r \in Nat /\ d \in Nat /\ f \in Nat \ {0} /\ Cost(src, rungs, copy, enc) = f * (d + r)
  BY RungCostNat, CostAssumption, LiveLaneAssumption DEF Cost
<1> HIDE DEF r, d, f
<1>2. d + r \in Nat /\ d + r >= r
  BY <1>1
<1>3. f * (d + r) \in Nat /\ f * (d + r) >= d + r
  BY <1>1, <1>2, AtLeastOnce
<1> QED
  BY <1>1, <1>2, <1>3 DEF r

LEMMA PlannedFinite == ASSUME NEW src \in Sources PROVE IsFiniteSet(Planned(src)) /\ Planned(src) \in SUBSET Nat
<1>1. src.height \in Nat
  BY LiveLaneAssumption
<1>2. IsFiniteSet(LadderFor(src)) /\ LadderFor(src) \in SUBSET Nat
  BY <1>1, LiveLaneAssumption, FS_Subset, FS_Singleton, FS_EmptySet DEF LadderFor
<1>3. IsFiniteSet(Copied(src)) /\ Copied(src) \in SUBSET Nat
  BY <1>1, FS_Singleton, FS_EmptySet DEF Copied
<1> QED
  BY <1>2, <1>3, FS_Union DEF Planned

\* The shed loop gives up no rung it need not, never one it may not, and ends with
\* what is free or with nothing left to shed.
\* What the shed loop leaves of a ladder.
FitsOr(f, src, start, copy, enc, freeCpu, freeSessions) ==
  /\ f \subseteq start /\ start \ Sheddable(start, copy) \subseteq f
  /\ \/ Sheddable(f, copy) = {}
     \/ Cost(src, f, copy, enc) <= freeCpu /\ Sessions(f, copy, enc) <= freeSessions
  /\ Cost(src, start, copy, enc) <= freeCpu /\ Sessions(start, copy, enc) <= freeSessions => f = start

LEMMA FitIs ==
  ASSUME NEW src \in Sources, NEW start, start \subseteq Planned(src), start # {},
         NEW copy, NEW enc, NEW freeCpu, NEW freeSessions
  PROVE  FitsOr(Fit(src, start, copy, enc, freeCpu, freeSessions), src, start, copy, enc, freeCpu, freeSessions)
<1> DEFINE f == Fit(src, start, copy, enc, freeCpu, freeSessions)
<1> DEFINE S == Sheddable(start, copy)
           cuts == {start} \cup {ShedFrom(start, copy, c) : c \in S}
           fitting == {r \in cuts : Cost(src, r, copy, enc) <= freeCpu /\ Sessions(r, copy, enc) <= freeSessions}
<1>1. start \in SUBSET Nat /\ IsFiniteSet(start)
  BY PlannedFinite, FS_Subset
<1>2. S \subseteq start /\ \A c \in S : ShedFrom(start, copy, c) = start \ {h \in S : h >= c}
  BY DEF Sheddable, ShedFrom
<1>3. f = IF fitting = {} THEN start \ S ELSE CHOOSE r \in fitting : \A q \in fitting : q \subseteq r
  BY DEF Fit
<1> HIDE DEF f
<1>4. /\ \A r \in cuts : r \subseteq start /\ start \ S \subseteq r
      /\ start \in cuts
  BY <1>2
<1>5. \A r \in fitting : /\ r \in cuts /\ Cost(src, r, copy, enc) <= freeCpu
                         /\ Sessions(r, copy, enc) <= freeSessions
  OBVIOUS
<1>6. start \in fitting <=> Cost(src, start, copy, enc) <= freeCpu /\ Sessions(start, copy, enc) <= freeSessions
  BY <1>4
<1>7. CASE fitting = {}
  <2>1. f = start \ S
    BY <1>3, <1>7
  <2>2. Sheddable(f, copy) = {}
    <3>1. Min(start) \in start /\ \A y \in start : Min(start) <= y
      BY <1>1, Extremes
    <3>2. f \ copy \subseteq {Min(start)} /\ Min(start) \in f
      BY <2>1, <3>1 DEF Sheddable
    <3>3. f \in SUBSET Nat /\ IsFiniteSet(f) /\ f # {}
      BY <1>1, <2>1, <3>2, FS_Subset
    <3>4. Min(f) \in f /\ \A y \in f : Min(f) <= y
      BY <3>3, Extremes
    <3>5. Min(f) = Min(start)
      BY <1>1, <2>1, <3>1, <3>2, <3>3, <3>4
    <3> QED
      BY <3>2, <3>5 DEF Sheddable
  <2> QED
    BY <1>4, <1>6, <1>7, <2>1, <2>2 DEF FitsOr, f
<1>8. CASE fitting # {}
  <2>1. \E r \in fitting : \A q \in fitting : q \subseteq r
    <3>1. CASE start \in fitting
      BY <1>4, <1>5, <3>1
    <3>2. CASE start \notin fitting
      <4> DEFINE C == {c \in S : ShedFrom(start, copy, c) \in fitting}
      <4>1. \A q \in fitting : \E c \in C : q = ShedFrom(start, copy, c)
        <5>1. \A q \in fitting : \E c \in S : q = ShedFrom(start, copy, c)
          BY <1>5, <3>2
        <5> HIDE DEF fitting, S
        <5> QED
          BY <5>1
      <4>2. C \in SUBSET Nat /\ IsFiniteSet(C) /\ C # {}
        <5>1. C \in SUBSET start
          BY <1>2
        <5> HIDE DEF C, fitting
        <5> QED
          BY <1>1, <1>8, <4>1, <5>1, FS_Subset
      <4>3. Max(C) \in C /\ \A c \in C : Max(C) >= c
        <5> HIDE DEF C
        <5> QED
          BY <4>2, Extremes
      <4>4. ShedFrom(start, copy, Max(C)) \in fitting
        BY <4>3
      <4>5. ASSUME NEW q \in fitting PROVE q \subseteq ShedFrom(start, copy, Max(C))
        <5>1. PICK c \in C : q = ShedFrom(start, copy, c)
          BY <4>1
        <5>2. c \in S /\ Max(C) \in S /\ c \in Nat /\ Max(C) \in Nat /\ Max(C) >= c
          BY <4>2, <4>3
        <5> DEFINE m == Max(C)
        <5> HIDE DEF m, S, C
        <5>3. \A h \in S : h >= m => h >= c
          BY <1>1, <1>2, <5>2 DEF m
        <5> QED
          BY <1>2, <5>1, <5>2, <5>3 DEF m
      <4> QED
        BY <4>4, <4>5
    <3> QED
      BY <3>1, <3>2
  <2> HIDE DEF fitting, cuts, S
  <2>2. f \in fitting /\ \A q \in fitting : q \subseteq f
    BY <1>3, <1>8, <2>1
  <2>3. f \in cuts /\ Cost(src, f, copy, enc) <= freeCpu /\ Sessions(f, copy, enc) <= freeSessions
    BY <1>5, <2>2
  <2>4. f \subseteq start /\ start \ S \subseteq f
    BY <1>4, <2>3
  <2>5. start \in fitting => f = start
    BY <2>2, <2>4
  <2> QED
    BY <1>6, <2>3, <2>4, <2>5 DEF S, FitsOr, f
<1> QED
  BY <1>7, <1>8

-----------------------------------------------------------------------------
(* A lease, what may have been shed of it, and what it is charged for. *)

\* What is owed to l: it is not planned yet, or could still shed.
Owed(l) == l.provisional \/ Sheddable(l.rungs, l.copy) # {}

\* Until a ladder falls behind, its lease is exactly what it was planned.
Sized(l) ==
  /\ "encoder" \in DOMAIN l /\ l.encoder \in Encoders
  /\ l.cpu \in Nat /\ l.sessions \in Nat /\ l.pressure \in Nat /\ l.provisional \in BOOLEAN
  /\ l.provisional => l.rungs = {} /\ l.copy = {} /\ l.src = None
  /\ ~ l.provisional =>
       /\ l.src \in Sources /\ l.rungs \in SUBSET Planned(l.src) /\ l.rungs # {}
       /\ l.copy = l.rungs \cap Copied(l.src) /\ l.cpu >= RungCost(l.rungs, l.copy, l.encoder)
       /\ l.pressure = 0 =>
            /\ l.degraded \/ l.rungs = Planned(l.src)
            /\ l.cpu = Cost(l.src, l.rungs, l.copy, l.encoder)
            /\ l.sessions = Sessions(l.rungs, l.copy, l.encoder)

\* A ladder that falls behind is charged no more, and has no more to shed.
LEMMA PressedIs ==
  ASSUME NEW l, Sized(l)
  PROVE  /\ Sized(Pressed(l)) /\ Pressed(l).cpu <= l.cpu /\ Pressed(l).sessions <= l.sessions
         /\ Owed(Pressed(l)) => Owed(l)
<1> DEFINE encoded == l.rungs \ l.copy
           dropped == IF encoded = {} THEN Max(l.rungs) ELSE Max(encoded)
           rungs   == l.rungs \ {dropped}
           shed    == Cardinality(l.rungs) > 1
           p       == Pressed(l)
<1>1. /\ p.provisional = l.provisional /\ p.encoder = l.encoder /\ p.src = l.src /\ p.pressure = l.pressure + 1
      /\ p.rungs = (IF shed THEN rungs ELSE l.rungs) /\ p.copy = (IF shed THEN l.copy \cap rungs ELSE l.copy)
      /\ p.cpu = (IF shed THEN RungCost(rungs, l.copy, l.encoder) ELSE l.cpu)
      /\ p.sessions = (IF shed /\ l.encoder = "nvenc" /\ l.sessions > 0 THEN l.sessions - 1 ELSE l.sessions)
      /\ "encoder" \in DOMAIN p
  BY DEF Pressed
<1>2. p.sessions \in Nat /\ p.sessions <= l.sessions /\ p.pressure \in Nat /\ p.pressure # 0
  BY <1>1 DEF Sized
<1>3. CASE ~ shed
  <2>1. p.rungs = l.rungs /\ p.copy = l.copy /\ p.cpu = l.cpu /\ p.cpu \in Nat
    BY <1>1, <1>3 DEF Sized
  <2> HIDE DEF p
  <2>2. Sized(p)
    BY <1>1, <1>2, <2>1 DEF Sized
  <2>3. Owed(p) = Owed(l)
    BY <1>1, <2>1 DEF Owed
  <2> QED
    BY <1>2, <2>1, <2>2, <2>3 DEF p, Sized
<1>4. CASE shed
  <2>1. ~ l.provisional
    <3>1. Cardinality({}) = 0
      BY FS_EmptySet
    <3> QED
      BY <1>4, <3>1 DEF Sized
  <2>2. /\ l.src \in Sources /\ l.rungs \in SUBSET Planned(l.src) /\ l.copy = l.rungs \cap Copied(l.src)
        /\ l.cpu \in Nat /\ l.cpu >= RungCost(l.rungs, l.copy, l.encoder) /\ l.encoder \in Encoders
    BY <2>1 DEF Sized
  <2>3. IsFiniteSet(l.rungs) /\ l.rungs \in SUBSET Int /\ IsFiniteSet(encoded) /\ encoded \in SUBSET Int
    BY <2>2, PlannedFinite, FS_Subset
  <2>7. encoded # {} => dropped \in encoded
    BY <2>3, Extremes
  <2> HIDE DEF dropped, p
  <2>4. rungs # {}
    <3>1. CASE dropped \in l.rungs
      <4>1. Cardinality(rungs) = Cardinality(l.rungs) - 1
        BY <2>3, <3>1, FS_RemoveElement
      <4>2. Cardinality(l.rungs) \in Nat /\ Cardinality({}) = 0
        BY <2>3, FS_CardinalityType, FS_EmptySet
      <4> HIDE DEF rungs
      <4> QED
        BY <1>4, <4>1, <4>2
    <3>2. CASE dropped \notin l.rungs
      BY <2>1, <3>2 DEF Sized
    <3> QED
      BY <3>1, <3>2
  <2>5. rungs \ (l.copy \cap rungs) = rungs \ l.copy /\ rungs \subseteq l.rungs /\ rungs \ l.copy \subseteq encoded
    OBVIOUS
  <2>6. encoded \subseteq Planned(l.src) \ Copied(l.src)
    BY <2>2
  <2>8. IsFiniteSet(rungs) /\ rungs \in SUBSET Planned(l.src)
    BY <2>2, <2>3, FS_Subset
  <2>9. RungCost(rungs, l.copy, l.encoder) <= RungCost(l.rungs, l.copy, l.encoder)
    BY <2>2, <2>3, <2>6, RungCostFalls
  <2>10. RungCost(rungs, l.copy, l.encoder) \in Nat /\ RungCost(l.rungs, l.copy, l.encoder) \in Nat
    BY <2>2, <2>3, <2>5, <2>6, <2>8, RungCostNat
  <2>11. RungCost(rungs, l.copy \cap rungs, l.encoder) = RungCost(rungs, l.copy, l.encoder)
    <3>1. \A c : rungs \ c \subseteq encoded => rungs \ c \subseteq Planned(l.src) \ Copied(l.src)
      BY <2>6
    <3>2. RungCost(rungs, l.copy, l.encoder) = SumOver(RungCosts(l.src, l.encoder), rungs \ l.copy)
      BY <2>2, <2>5, <2>8, <3>1, RungCostIs
    <3>3. RungCost(rungs, l.copy \cap rungs, l.encoder) = SumOver(RungCosts(l.src, l.encoder), rungs \ (l.copy \cap rungs))
      BY <2>2, <2>5, <2>8, <3>1, RungCostIs
    <3> QED
      BY <2>5, <3>2, <3>3
  <2>12. Owed(p) => Owed(l)
    <3> SUFFICES ASSUME Sheddable(l.rungs, l.copy) = {} PROVE Sheddable(rungs, l.copy \cap rungs) = {}
      BY <1>1, <1>4, <2>1 DEF Owed
    <3>1. encoded \subseteq {Min(l.rungs)}
      BY DEF Sheddable
    <3>2. rungs \ l.copy = {}
      BY <2>5, <2>7, <3>1
    <3> QED
      BY <2>5, <3>2 DEF Sheddable
  <2>13. p.copy = p.rungs \cap Copied(p.src)
    BY <1>1, <1>4, <2>2
  <2>14. p.rungs = rungs /\ p.copy = l.copy \cap rungs /\ p.cpu = RungCost(rungs, l.copy, l.encoder)
    BY <1>1, <1>4
  <2> HIDE DEF rungs, encoded, shed
  <2>15. p.cpu \in Nat /\ p.cpu <= l.cpu /\ p.cpu >= RungCost(p.rungs, p.copy, p.encoder)
    BY <1>1, <2>2, <2>9, <2>10, <2>11, <2>14
  <2>16. Sized(p)
    BY <1>1, <1>2, <2>1, <2>2, <2>4, <2>8, <2>13, <2>14, <2>15 DEF Sized
  <2> QED
    BY <1>2, <2>12, <2>15, <2>16 DEF p
<1> QED
  BY <1>3, <1>4

\* What a plan promises is what was free for it, and no session is handed out twice.
LEMMA PlanIs ==
  ASSUME NEW s \in Streams, NEW src \in Sources, NEW nvenc, LadderFor(src) # {},
         lease[s] # NoLease => Sized(lease[s]),
         UsedSessions(Streams \ {s}) \in Nat, UsedSessions(Streams \ {s}) <= CardSessions,
         FreeCpu(s) \in Int
  PROVE  LET l == PlanFor(s, src, nvenc)
         IN /\ Sized(l) /\ ~ l.provisional /\ l.src = src
            /\ Owed(l) => l.cpu <= FreeCpu(s)
            /\ l.sessions + UsedSessions(Streams \ {s}) <= CardSessions
            /\ lease[s] # NoLease => l.pressure = lease[s].pressure
<1> DEFINE on     == CardAfter(s, nvenc)
           start  == KeptRungs(s, src)
           copy   == start \cap Copied(src)
           need   == Cardinality(start \ copy)
           free   == FreeSessions(s, on)
           enc    == IF on /\ nvenc /\ need > 0 /\ need <= free THEN "nvenc" ELSE "x264"
           fitted == Fit(src, start, copy, enc, FreeCpu(s), free)
           cost   == Cost(src, fitted, copy, enc)
           held   == lease[s] # NoLease
           l      == PlanFor(s, src, nvenc)
<1>1. /\ l.provisional = FALSE /\ l.encoder = enc /\ l.cpu = cost /\ l.sessions = Sessions(fitted, copy, enc)
      /\ l.rungs = fitted /\ l.copy = copy /\ l.src = src /\ l.pressure = (IF held THEN lease[s].pressure ELSE 0)
      /\ l.degraded = ((held /\ lease[s].degraded /\ start = lease[s].rungs \cap Planned(src))
                        \/ fitted # start \/ cost > FreeCpu(s))
      /\ "encoder" \in DOMAIN l
  BY DEF PlanFor
<1>2. enc \in Encoders
  BY DEF Encoders
<1>3. start \in SUBSET Planned(src) /\ start # {}
  BY DEF KeptRungs, Planned
<1>4. start = Planned(src) \/ (held /\ lease[s].degraded /\ start = lease[s].rungs \cap Planned(src))
  BY DEF KeptRungs
<1>f. fitted = Fit(src, start, copy, enc, FreeCpu(s), free)
  OBVIOUS
<1> HIDE DEF l, enc, start
<1>5. IsFiniteSet(start) /\ IsFiniteSet(start \ copy)
  BY <1>3, PlannedFinite, FS_Subset
<1>6. /\ fitted \subseteq start /\ start \ Sheddable(start, copy) \subseteq fitted
      /\ \/ Sheddable(fitted, copy) = {}
         \/ Cost(src, fitted, copy, enc) <= FreeCpu(s) /\ Sessions(fitted, copy, enc) <= free
  <2> HIDE DEF fitted, copy, free
  <2>1. FitsOr(fitted, src, start, copy, enc, FreeCpu(s), free)
    BY <1>3, <1>f, FitIs
  <2> QED
    BY <2>1 DEF FitsOr
<1> HIDE DEF fitted
<1>7. copy \subseteq fitted /\ copy = fitted \cap Copied(src)
  BY <1>6 DEF Sheddable
<1>8. fitted # {}
  <2>1. Min(start) \in start
    <3>1. start \in SUBSET Int
      BY <1>3, PlannedFinite
    <3> QED
      BY <1>3, <1>5, <3>1, Extremes
  <2> QED
    BY <1>6, <2>1 DEF Sheddable
<1>9. IsFiniteSet(fitted) /\ fitted \ copy \subseteq Planned(src) \ Copied(src) /\ fitted \in SUBSET Planned(src)
  BY <1>3, <1>5, <1>6, <1>7, FS_Subset
<1>10. cost \in Nat /\ cost >= RungCost(fitted, copy, enc)
  BY <1>2, <1>9, CostIs
<1>11. Sessions(fitted, copy, enc) \in Nat /\ Sessions(fitted, copy, enc) + UsedSessions(Streams \ {s}) <= CardSessions
  <2>1. Cardinality(fitted \ copy) \in Nat /\ Cardinality(fitted \ copy) <= need /\ need \in Nat
    <3>1. fitted \ copy \subseteq start \ copy
      BY <1>6
    <3> QED
      BY <1>5, <3>1, FS_Subset, FS_CardinalityType
  <2>2. CardSessions \in Nat
    BY LiveLaneAssumption
  <2>3. CASE enc = "nvenc"
    <3>1. need <= CardSessions - UsedSessions(Streams \ {s})
      BY <2>3 DEF enc, FreeSessions, SessionBudget
    <3> HIDE DEF need, copy
    <3> QED
      BY <2>1, <2>2, <2>3, <3>1 DEF Sessions
  <2>4. CASE enc # "nvenc"
    BY <2>2, <2>4 DEF Sessions
  <2> QED
    BY <2>3, <2>4
<1>12. l.pressure \in Nat
  BY <1>1 DEF Sized
<1> HIDE DEF copy, cost
<1>13. Sized(l)
  BY <1>1, <1>2, <1>4, <1>7, <1>8, <1>9, <1>10, <1>11, <1>12 DEF Sized, cost
<1>14. Owed(l) => l.cpu <= FreeCpu(s)
  BY <1>1, <1>6 DEF Owed, cost
<1> QED
  BY <1>1, <1>11, <1>13, <1>14 DEF l

-----------------------------------------------------------------------------
(* What is leased, added up. *)

Cpus == [s \in Leases |-> lease[s].cpu]
Opened == [s \in Leases |-> lease[s].sessions]

LeasesSized == IsFiniteSet(Leases) /\ \A s \in Leases : Sized(lease[s])

LEMMA UsedCpuIs ==
  ASSUME LeasesSized, NEW R
  PROVE  UsedCpu(R) = SumOver(Cpus, R \cap Leases)
<1> DEFINE S == R \cap Leases
           A(h) == h = [T \in SUBSET S |-> IF T = {} THEN 0 ELSE lease[Pick(T)].cpu + h[T \ {Pick(T)}]]
           H == CHOOSE h : A(h)
<1>1. UsedCpu(R) = H[S]
  BY DEF UsedCpu, MapThenSumSet, MapThenFoldSet, Pick
<1>2. Cpus \in [Leases -> Nat] /\ S \in SUBSET Leases /\ IsFiniteSet(S)
  BY FS_Subset DEF Cpus, LeasesSized, Sized
<1>3. \A h : A(h) <=> Adds(h, Cpus, S)
  <2> SUFFICES ASSUME NEW h
               PROVE  [T \in SUBSET S |-> IF T = {} THEN 0 ELSE lease[Pick(T)].cpu + h[T \ {Pick(T)}]]
                        = [T \in SUBSET S |-> IF T = {} THEN 0 ELSE Cpus[Pick(T)] + h[T \ {Pick(T)}]]
    BY DEF Adds
  <2>1. \A T \in SUBSET S : T # {} => lease[Pick(T)].cpu = Cpus[Pick(T)]
    BY PickIs DEF Cpus
  <2> HIDE DEF S
  <2> QED
    BY <2>1
<1> HIDE DEF S
<1>4. \E h : Adds(h, Cpus, S)
  BY <1>2, UnitsAdd
<1> HIDE DEF A
<1>5. A(H)
  BY <1>3, <1>4
<1>6. Adds(H, Cpus, S)
  BY <1>3, <1>5
<1> HIDE DEF H
<1>7. H[S] = Cardinality(Units(Cpus, S))
  BY <1>2, <1>6, AddsUnits
<1> QED
  BY <1>1, <1>7 DEF SumOver, S

LEMMA UsedSessionsIs ==
  ASSUME LeasesSized, NEW R
  PROVE  UsedSessions(R) = SumOver(Opened, R \cap Leases)
<1> DEFINE S == R \cap Leases
           A(h) == h = [T \in SUBSET S |-> IF T = {} THEN 0 ELSE lease[Pick(T)].sessions + h[T \ {Pick(T)}]]
           H == CHOOSE h : A(h)
<1>1. UsedSessions(R) = H[S]
  BY DEF UsedSessions, MapThenSumSet, MapThenFoldSet, Pick
<1>2. Opened \in [Leases -> Nat] /\ S \in SUBSET Leases /\ IsFiniteSet(S)
  BY FS_Subset DEF Opened, LeasesSized, Sized
<1>3. \A h : A(h) <=> Adds(h, Opened, S)
  <2> SUFFICES ASSUME NEW h
               PROVE  [T \in SUBSET S |-> IF T = {} THEN 0 ELSE lease[Pick(T)].sessions + h[T \ {Pick(T)}]]
                        = [T \in SUBSET S |-> IF T = {} THEN 0 ELSE Opened[Pick(T)] + h[T \ {Pick(T)}]]
    BY DEF Adds
  <2>1. \A T \in SUBSET S : T # {} => lease[Pick(T)].sessions = Opened[Pick(T)]
    BY PickIs DEF Opened
  <2> HIDE DEF S
  <2> QED
    BY <2>1
<1> HIDE DEF S
<1>4. \E h : Adds(h, Opened, S)
  BY <1>2, UnitsAdd
<1> HIDE DEF A
<1>5. A(H)
  BY <1>3, <1>4
<1>6. Adds(H, Opened, S)
  BY <1>3, <1>5
<1> HIDE DEF H
<1>7. H[S] = Cardinality(Units(Opened, S))
  BY <1>2, <1>6, AddsUnits
<1> QED
  BY <1>1, <1>7 DEF SumOver, S

Owing == {s \in Leases : Owed(lease[s])}

Within == SumOver(Cpus, Owing) <= CpuBudget /\ SumOver(Opened, Leases) <= CardSessions

LEMMA WithinIs == ASSUME LeasesSized PROVE WithinBudget <=> Within
<1>1. {s \in Leases : lease[s].provisional \/ Sheddable(lease[s].rungs, lease[s].copy) # {}} = Owing
  BY DEF Owing, Owed
<1>2. Owing \cap Leases = Owing /\ Streams \cap Leases = Leases
  BY DEF Owing, Leases
<1>3. UsedCpu(Owing) = SumOver(Cpus, Owing)
  BY <1>2, UsedCpuIs
<1>4. UsedSessions(Streams) = SumOver(Opened, Leases)
  BY <1>2, UsedSessionsIs
<1> QED
  BY <1>1, <1>3, <1>4 DEF WithinBudget, Within

\* What is free for s, and what is leased with it.
LEMMA UsedBeside ==
  ASSUME LeasesSized, NEW s \in Streams
  PROVE  /\ UsedCpu(Streams) \in Nat /\ UsedCpu(Streams \ {s}) \in Nat
         /\ UsedSessions(Streams) \in Nat /\ UsedSessions(Streams \ {s}) \in Nat
         /\ UsedCpu(Streams) = UsedCpu(Streams \ {s}) + (IF s \in Leases THEN lease[s].cpu ELSE 0)
         /\ UsedSessions(Streams) = UsedSessions(Streams \ {s}) + (IF s \in Leases THEN lease[s].sessions ELSE 0)
         /\ SumOver(Cpus, Owing \ {s}) \in Nat /\ SumOver(Cpus, Owing \ {s}) <= UsedCpu(Streams \ {s})
         /\ SumOver(Opened, Leases \ {s}) = UsedSessions(Streams \ {s})
         /\ SumOver(Opened, Leases) = UsedSessions(Streams)
<1>1. Streams \cap Leases = Leases /\ (Streams \ {s}) \cap Leases = Leases \ {s}
  BY DEF Leases
<1>2. /\ UsedCpu(Streams) = SumOver(Cpus, Leases) /\ UsedCpu(Streams \ {s}) = SumOver(Cpus, Leases \ {s})
      /\ UsedSessions(Streams) = SumOver(Opened, Leases) /\ UsedSessions(Streams \ {s}) = SumOver(Opened, Leases \ {s})
  BY <1>1, UsedCpuIs, UsedSessionsIs
<1>3. /\ Cpus \in [Leases -> Nat] /\ Opened \in [Leases -> Nat] /\ Leases \in SUBSET Leases
      /\ \A t \in Leases : Cpus[t] = lease[t].cpu /\ Opened[t] = lease[t].sessions
  BY DEF Cpus, Opened, LeasesSized, Sized
<1>4. IsFiniteSet(Leases) /\ IsFiniteSet(Leases \ {s}) /\ Leases \ {s} \in SUBSET Leases /\ Owing \ {s} \in SUBSET (Leases \ {s})
      /\ IsFiniteSet(Owing \ {s}) /\ Owing \ {s} \in SUBSET Leases
  BY FS_Subset DEF LeasesSized, Owing
<1>5. /\ SumOver(Cpus, Leases) \in Nat /\ SumOver(Opened, Leases) \in Nat
      /\ SumOver(Cpus, Leases \ {s}) \in Nat /\ SumOver(Opened, Leases \ {s}) \in Nat /\ SumOver(Cpus, Owing \ {s}) \in Nat
  BY <1>3, <1>4, SumNat
<1>6. SumOver(Cpus, Owing \ {s}) <= SumOver(Cpus, Leases \ {s})
  BY <1>3, <1>4, SumSubset
<1>7. CASE s \in Leases
  <2>1. SumOver(Cpus, Leases) = Cpus[s] + SumOver(Cpus, Leases \ {s})
    BY <1>3, <1>4, <1>7, SumStep
  <2>2. SumOver(Opened, Leases) = Opened[s] + SumOver(Opened, Leases \ {s})
    BY <1>3, <1>4, <1>7, SumStep
  <2>3. Cpus[s] \in Nat /\ Opened[s] \in Nat /\ Cpus[s] = lease[s].cpu /\ Opened[s] = lease[s].sessions
    BY <1>3, <1>7
  <2> QED
    BY <1>2, <1>5, <1>6, <1>7, <2>1, <2>2, <2>3
<1>8. CASE s \notin Leases
  <2>1. Leases \ {s} = Leases
    BY <1>8
  <2> QED
    BY <1>2, <1>5, <1>6, <1>8, <2>1
<1> QED
  BY <1>7, <1>8

-----------------------------------------------------------------------------
(* One lease changes, or leases are given back. *)

CapacityInv == LeasesSized /\ Within

\* A lease that fits beside the others leaves the budgets as they were.
LEMMA OneLease ==
  ASSUME DOMAIN lease = Streams, CapacityInv, NEW s \in Streams, NEW l, lease' = [lease EXCEPT ![s] = l],
         l # NoLease => /\ Sized(l)
                        /\ Owed(l) => l.cpu + SumOver(Cpus, Owing \ {s}) <= CpuBudget
                        /\ l.sessions + SumOver(Opened, Leases \ {s}) <= CardSessions
  PROVE  CapacityInv'
<1>1. \A t \in Streams : lease'[t] = IF t = s THEN l ELSE lease[t]
  OBVIOUS
<1>2. Leases' = (Leases \ {s}) \cup (IF l # NoLease THEN {s} ELSE {})
  BY <1>1 DEF Leases
<1>3. IsFiniteSet(Leases) /\ IsFiniteSet(Leases \ {s}) /\ Leases \subseteq Streams /\ IsFiniteSet((Leases \ {s}) \cup {s})
  <2>1. IsFiniteSet(Leases) /\ IsFiniteSet(Leases \ {s}) /\ Leases \subseteq Streams
    BY FS_Subset DEF CapacityInv, LeasesSized, Leases
  <2> QED
    BY <2>1, FS_AddElement
<1>4. LeasesSized'
  BY <1>1, <1>2, <1>3 DEF CapacityInv, LeasesSized, Sized
<1>5. /\ Cpus' \in [Leases' -> Nat] /\ Opened' \in [Leases' -> Nat] /\ Leases' \in SUBSET Leases'
      /\ Cpus \in [Leases -> Nat] /\ Opened \in [Leases -> Nat]
      /\ \A t \in Leases' : Cpus'[t] = lease'[t].cpu /\ Opened'[t] = lease'[t].sessions
      /\ \A t \in Leases : Cpus[t] = lease[t].cpu /\ Opened[t] = lease[t].sessions
  BY <1>4 DEF Cpus, Opened, CapacityInv, LeasesSized, Sized
<1>6. \A t \in Leases \ {s} : t \in Leases' /\ Cpus'[t] = Cpus[t] /\ Opened'[t] = Opened[t]
  BY <1>1, <1>2, <1>3, <1>5
<1>7. Owing' = (Owing \ {s}) \cup (IF l # NoLease /\ Owed(l) THEN {s} ELSE {})
  BY <1>1, <1>2, <1>3 DEF Owing, Owed
<1>8. /\ Owing \ {s} \in SUBSET (Leases \ {s}) /\ Owing' \in SUBSET Leases' /\ Owing \ {s} \in SUBSET Leases
      /\ IsFiniteSet(Owing') /\ IsFiniteSet(Leases') /\ IsFiniteSet(Owing)
  BY <1>3, <1>4, FS_Subset DEF Owing, LeasesSized
<1>9. SumOver(Cpus', Owing \ {s}) = SumOver(Cpus, Owing \ {s}) /\ SumOver(Opened', Leases \ {s}) = SumOver(Opened, Leases \ {s})
  BY <1>6, <1>8, SumSame
<1>w. /\ SumOver(Cpus, Owing) \in Nat /\ SumOver(Opened, Leases) \in Nat
      /\ SumOver(Cpus, Owing \ {s}) \in Nat /\ SumOver(Opened, Leases \ {s}) \in Nat
      /\ SumOver(Cpus, Owing \ {s}) <= SumOver(Cpus, Owing) /\ SumOver(Opened, Leases \ {s}) <= SumOver(Opened, Leases)
  <2>1. Owing \in SUBSET Leases /\ Leases \in SUBSET Leases /\ Leases \ {s} \in SUBSET Leases /\ IsFiniteSet(Owing \ {s})
        /\ Owing \ {s} \in SUBSET Owing
    BY <1>8, FS_Subset DEF Owing
  <2>2. /\ SumOver(Cpus, Owing) \in Nat /\ SumOver(Opened, Leases) \in Nat
        /\ SumOver(Cpus, Owing \ {s}) \in Nat /\ SumOver(Opened, Leases \ {s}) \in Nat
    BY <1>3, <1>5, <1>8, <2>1, SumNat
  <2> QED
    BY <1>3, <1>5, <1>8, <2>1, <2>2, SumSubset
<1>b. CpuBudget \in Nat /\ CardSessions \in Nat
  BY LiveLaneAssumption
<1>10. SumOver(Cpus', Owing') <= CpuBudget
  <2>1. CASE l # NoLease /\ Owed(l)
    <3>1. s \in Owing' /\ Owing' \ {s} = Owing \ {s} /\ s \in Leases' /\ Cpus'[s] = l.cpu
      BY <1>1, <1>2, <1>5, <1>7, <2>1
    <3>2. SumOver(Cpus', Owing') = Cpus'[s] + SumOver(Cpus', Owing' \ {s})
      BY <1>5, <1>8, <3>1, SumStep
    <3> QED
      BY <1>9, <2>1, <3>1, <3>2
  <2>2. CASE ~ (l # NoLease /\ Owed(l))
    <3>1. Owing' = Owing \ {s}
      BY <1>7, <2>2
    <3> QED
      BY <1>9, <1>w, <1>b, <3>1 DEF CapacityInv, Within
  <2> QED
    BY <2>1, <2>2
<1>11. SumOver(Opened', Leases') <= CardSessions
  <2>1. CASE l # NoLease
    <3>1. s \in Leases' /\ Leases' \ {s} = Leases \ {s} /\ Opened'[s] = l.sessions
      BY <1>1, <1>2, <1>5, <2>1
    <3>2. SumOver(Opened', Leases') = Opened'[s] + SumOver(Opened', Leases' \ {s})
      BY <1>5, <1>8, <3>1, SumStep
    <3> QED
      BY <1>9, <2>1, <3>1, <3>2
  <2>2. CASE l = NoLease
    <3>1. Leases' = Leases \ {s}
      BY <1>2, <2>2
    <3> QED
      BY <1>9, <1>w, <1>b, <3>1 DEF CapacityInv, Within
  <2> QED
    BY <2>1, <2>2
<1> QED
  BY <1>4, <1>10, <1>11 DEF CapacityInv, Within

\* Giving back is always possible.
LEMMA FewerLeases ==
  ASSUME CapacityInv, \A s \in Streams : lease'[s] = lease[s] \/ lease'[s] = NoLease
  PROVE  CapacityInv'
<1>1. Leases' \in SUBSET Leases /\ \A s \in Leases' : lease'[s] = lease[s]
  BY DEF Leases
<1>2. LeasesSized'
  BY <1>1, FS_Subset DEF CapacityInv, LeasesSized, Sized
<1>3. /\ Cpus \in [Leases -> Nat] /\ Opened \in [Leases -> Nat]
      /\ \A s \in Leases' : Cpus'[s] = Cpus[s] /\ Opened'[s] = Opened[s]
  BY <1>1 DEF Cpus, Opened, CapacityInv, LeasesSized, Sized
<1>4. /\ Owing' \in SUBSET Owing /\ Owing' \subseteq Leases' /\ Owing \in SUBSET Leases /\ Leases \in SUBSET Leases
      /\ Owing' \in SUBSET Leases /\ IsFiniteSet(Owing) /\ IsFiniteSet(Leases) /\ IsFiniteSet(Owing') /\ IsFiniteSet(Leases')
  BY <1>1, <1>2, FS_Subset DEF Owing, Owed, CapacityInv, LeasesSized
<1>5. SumOver(Cpus', Owing') = SumOver(Cpus, Owing') /\ SumOver(Opened', Leases') = SumOver(Opened, Leases')
  BY <1>3, <1>4, SumSame
<1>6. SumOver(Cpus, Owing') <= SumOver(Cpus, Owing) /\ SumOver(Opened, Leases') <= SumOver(Opened, Leases)
  BY <1>1, <1>3, <1>4, SumSubset
<1>7. /\ SumOver(Cpus, Owing') \in Nat /\ SumOver(Cpus, Owing) \in Nat
      /\ SumOver(Opened, Leases') \in Nat /\ SumOver(Opened, Leases) \in Nat
  BY <1>1, <1>3, <1>4, SumNat
<1> QED
  BY <1>2, <1>5, <1>6, <1>7, LiveLaneAssumption DEF CapacityInv, Within

LEMMA ReservedIs ==
  ASSUME CapacityInv, NEW s \in Streams, lease[s] = NoLease, Reserved(s) # NoLease
  PROVE  /\ Sized(Reserved(s)) /\ Reserved(s).cpu + SumOver(Cpus, Owing \ {s}) <= CpuBudget
         /\ Reserved(s).sessions + SumOver(Opened, Leases \ {s}) <= CardSessions
<1> DEFINE used == UsedCpu(Streams)
           n == Min({Nominal, CpuBudget - used})
           l == Reserved(s)
<1>0. s \notin Leases
  BY DEF Leases
<1>1. /\ used \in Nat /\ SumOver(Cpus, Owing \ {s}) \in Nat /\ SumOver(Cpus, Owing \ {s}) <= used
      /\ UsedSessions(Streams) \in Nat /\ SumOver(Opened, Leases \ {s}) = UsedSessions(Streams)
      /\ UsedSessions(Streams) <= CardSessions
  <2>1. /\ UsedCpu(Streams) \in Nat /\ UsedCpu(Streams \ {s}) \in Nat
        /\ UsedSessions(Streams) \in Nat /\ UsedSessions(Streams \ {s}) \in Nat
        /\ UsedCpu(Streams) = UsedCpu(Streams \ {s}) + (IF s \in Leases THEN lease[s].cpu ELSE 0)
        /\ UsedSessions(Streams) = UsedSessions(Streams \ {s}) + (IF s \in Leases THEN lease[s].sessions ELSE 0)
        /\ SumOver(Cpus, Owing \ {s}) \in Nat /\ SumOver(Cpus, Owing \ {s}) <= UsedCpu(Streams \ {s})
        /\ SumOver(Opened, Leases \ {s}) = UsedSessions(Streams \ {s})
        /\ SumOver(Opened, Leases) = UsedSessions(Streams)
    BY UsedBeside DEF CapacityInv
  <2>2. SumOver(Opened, Leases) <= CardSessions
    BY DEF CapacityInv, Within
  <2> QED
    BY <1>0, <2>1, <2>2
<1>2. /\ {CpuBudget, CardSessions, MinRung, Nominal} \subseteq Nat /\ NominalCard \in [cpu : Nat, sessions : Nat]
  BY LiveLaneAssumption
<1>3. \/ /\ l = Provisional("nvenc", NominalCard.cpu, NominalCard.sessions)
         /\ UsedSessions(Streams) + NominalCard.sessions <= CardSessions
         /\ used + NominalCard.cpu <= CpuBudget
      \/ l = Provisional("x264", n, 0) /\ ~ (used + MinRung > CpuBudget)
  <2>1. SessionBudget(card) = IF card THEN CardSessions ELSE 0
    BY DEF SessionBudget
  <2>2. l = IF Cardinality(Leases) >= MaxLadders THEN NoLease
            ELSE IF /\ card /\ UsedSessions(Streams) + NominalCard.sessions <= SessionBudget(card)
                    /\ used + NominalCard.cpu <= CpuBudget
                 THEN Provisional("nvenc", NominalCard.cpu, NominalCard.sessions)
            ELSE IF used + MinRung > CpuBudget THEN NoLease
            ELSE Provisional("x264", n, 0)
    BY DEF Reserved
  <2> HIDE DEF l, n, used
  <2>3. l # NoLease
    BY DEF l
  <2> QED
    BY <2>1, <2>2, <2>3
<1> HIDE DEF l, n
<1>4. ASSUME NEW enc \in Encoders, NEW cpu \in Nat, NEW sessions \in Nat
      PROVE  /\ Sized(Provisional(enc, cpu, sessions)) /\ Provisional(enc, cpu, sessions).cpu = cpu
             /\ Provisional(enc, cpu, sessions).sessions = sessions
  BY DEF Provisional, Sized
<1>5. CASE /\ l = Provisional("nvenc", NominalCard.cpu, NominalCard.sessions)
           /\ UsedSessions(Streams) + NominalCard.sessions <= CardSessions
           /\ used + NominalCard.cpu <= CpuBudget
  <2> DEFINE cpu == NominalCard.cpu
             sessions == NominalCard.sessions
  <2>1. cpu \in Nat /\ sessions \in Nat /\ "nvenc" \in Encoders
    BY <1>2 DEF Encoders
  <2>2. Sized(l) /\ l.cpu = cpu /\ l.sessions = sessions
    BY <1>4, <1>5, <2>1
  <2> HIDE DEF cpu, sessions, used
  <2>3. used + cpu <= CpuBudget /\ UsedSessions(Streams) + sessions <= CardSessions
    BY <1>5 DEF cpu, sessions
  <2> QED
    BY <1>1, <1>2, <2>1, <2>2, <2>3 DEF l
<1>6. CASE l = Provisional("x264", n, 0) /\ ~ (used + MinRung > CpuBudget)
  <2> DEFINE S == {Nominal, CpuBudget - used}
  <2> HIDE DEF used
  <2>1. CpuBudget - used \in Nat
    BY <1>1, <1>2, <1>6
  <2>2. IsFiniteSet(S) /\ S \in SUBSET Int /\ S # {}
    <3>1. IsFiniteSet({Nominal} \cup {CpuBudget - used})
      BY FS_Singleton, FS_AddElement
    <3>2. {Nominal} \cup {CpuBudget - used} = S
      OBVIOUS
    <3> QED
      BY <1>2, <2>1, <3>1, <3>2
  <2>3. n \in S /\ n <= CpuBudget - used
    <3>1. Min(S) \in S /\ \A y \in S : Min(S) <= y
      BY <2>2, Extremes
    <3> QED
      BY <3>1 DEF n, used
  <2>4. n \in Nat /\ 0 \in Nat /\ "x264" \in Encoders
    BY <1>2, <2>1, <2>3 DEF Encoders
  <2>5. Sized(l) /\ l.cpu = n /\ l.sessions = 0
    BY <1>4, <1>6, <2>4
  <2> QED
    BY <1>1, <1>2, <2>3, <2>4, <2>5 DEF l
<1> QED
  BY <1>3, <1>5, <1>6

\* What the media server is sent, and what a request was begun with, has a source.
Sourced ==
  /\ source \in [Streams -> Sources \cup {None}]
  /\ \A j \in jobs : j.do \in {"reserve", "plan"} => j.src \in Sources

BudgetInv == LaneInv /\ Sourced /\ CapacityInv

LEMMA SourcedStep == ASSUME LaneInv, Sourced, [LaneNext]_laneVars PROVE Sourced'
<1>0. \A j \in jobs : {"do", "s"} \subseteq DOMAIN j /\ j.s \in Streams
  BY DEF LaneInv, JobsRelease
<1>1. ASSUME UNCHANGED source, \A j \in jobs' : j \in jobs \/ j.do \notin {"reserve", "plan"} \/ j.src \in Sources
      PROVE  Sourced'
  BY <1>1 DEF Sourced
<1>2. ASSUME NEW s \in Streams, NEW others, Drops(s, others),
             \A j \in others : j \in jobs \/ j.do \notin {"reserve", "plan"}
      PROVE  Sourced'
  BY <1>2 DEF Sourced, Drops, Job
<1>3. ASSUME NEW s \in Streams, StreamStep(s) PROVE Sourced'
  <2>1. CASE CreateStream(s) \/ MintPublishTicket(s) \/ TicketExpires(s) \/ EndByAuthor(s) \/ FrameFlagged(s)
             \/ LadderExits(s) \/ Playable(s) \/ Pressure(s)
    BY <1>1, <2>1 DEF CreateStream, MintPublishTicket, TicketExpires, EndByAuthor, FrameFlagged, LadderExits,
         Playable, Pressure, Media
  <2>2. CASE Authorize(s)
    BY <1>1, <2>2 DEF Authorize, Begin, Job, Media
  <2>3. CASE Ready(s)
    BY <1>1, <2>3 DEF Ready, Begin, Job, Media, Sourced
  <2>4. CASE PublisherLeaves(s)
    BY <1>2, <2>4 DEF PublisherLeaves
  <2>5. CASE Sweep(s)
    BY <1>1, <2>5 DEF Sweep, Job, Media
  <2> QED
    BY <1>3, <2>1, <2>2, <2>3, <2>4, <2>5 DEF StreamStep
<1>4. ASSUME NEW j \in jobs, JobStep(j) PROVE Sourced'
  <2>1. CASE Reserve(j)
    BY <1>0, <2>1 DEF Reserve, Goes, Sourced
  <2>2. CASE Plan(j)
    BY <1>1, <2>2 DEF Plan, Goes, Job
  <2>3. CASE EndStream(j)
    BY <1>0, <1>1, <2>3 DEF EndStream, Goes, Media
  <2>4. CASE Release(j)
    BY <1>1, <2>4 DEF Release, Goes
  <2>5. CASE SetStreamScanState(j) \/ MarkBlocked(j)
    BY <1>0, <1>1, <2>5 DEF SetStreamScanState, MarkBlocked, Goes, Media
  <2>6. CASE KickPublisher(j)
    <3>1. \A k \in (jobs \ {j}) \cup {[j EXCEPT !.do = "end"]} : k \in jobs \/ k.do \notin {"reserve", "plan"}
      BY <1>0
    <3>2. CASE Drops(j.s, (jobs \ {j}) \cup {[j EXCEPT !.do = "end"]})
      BY <1>0, <1>2, <3>1, <3>2
    <3>3. CASE UNCHANGED source /\ jobs' \subseteq (jobs \ {j}) \cup {[j EXCEPT !.do = "end"]}
      BY <1>1, <3>1, <3>3
    <3> QED
      BY <2>6, <3>2, <3>3 DEF KickPublisher, Goes
  <2> QED
    BY <1>4, <2>1, <2>2, <2>3, <2>4, <2>5, <2>6 DEF JobStep, EndingStep
<1>5. CASE Reconcile \/ MediaUnknown
  BY <1>1, <1>5 DEF Reconcile, MediaUnknown, ListLive, CountMisses, ReleaseOrphan, ListStale, Reconciled, EndOrphan,
       Reconciling, Media
<1>6. CASE Restart
  BY <1>1, <1>6 DEF Restart, Media
<1>7. CASE UNCHANGED laneVars
  BY <1>1, <1>7 DEF laneVars
<1> QED
  BY <1>3, <1>4, <1>5, <1>6, <1>7 DEF LaneNext

\* Which steps change a lease, and to what.
LEMMA LeaseSteps ==
  ASSUME LaneInv, Sourced, [LaneNext]_laneVars
  PROVE  \/ \A s \in Streams : lease'[s] = lease[s] \/ lease'[s] = NoLease
         \/ \E s \in Streams :
              \/ lease' = [lease EXCEPT ![s] = Reserved(s)]
              \/ lease[s] # NoLease /\ lease' = [lease EXCEPT ![s] = Pressed(lease[s])]
              \/ \E src \in Sources : \E nvenc :
                   /\ LadderFor(src) # {} /\ lease' = [lease EXCEPT ![s] = PlanFor(s, src, nvenc)]
                   /\ card' = CardAfter(s, nvenc)
<1> DEFINE Fewer == \A s \in Streams : lease'[s] = lease[s] \/ lease'[s] = NoLease
<1>0. DOMAIN lease = Streams /\ \A j \in jobs : {"do", "s"} \subseteq DOMAIN j /\ j.s \in Streams
  BY DEF LaneInv, JobsRelease, LeaseType
<1>1. CASE UNCHANGED lease
  BY <1>1
<1>2. ASSUME NEW s \in Streams, StreamStep(s), ~ UNCHANGED lease
      PROVE  lease[s] # NoLease /\ lease' = [lease EXCEPT ![s] = Pressed(lease[s])]
  BY <1>2 DEF StreamStep, CreateStream, MintPublishTicket, TicketExpires, EndByAuthor, FrameFlagged, LadderExits,
       Playable, Pressure, Authorize, Ready, PublisherLeaves, Sweep, Capacity
<1>3. ASSUME NEW j \in jobs, EndingStep(j) PROVE Fewer
  BY <1>0, <1>3 DEF EndingStep, EndStream, Release, SetStreamScanState, MarkBlocked, KickPublisher, Capacity
<1>4. CASE Reconcile \/ MediaUnknown
  BY <1>4 DEF Reconcile, MediaUnknown, ListLive, CountMisses, ReleaseOrphan, ListStale, Reconciled, EndOrphan,
       Reconciling, Capacity
<1>5. CASE Restart
  BY <1>5 DEF Restart
<1>6. ASSUME NEW j \in jobs, Reserve(j) PROVE j.s \in Streams /\ lease' = [lease EXCEPT ![j.s] = Reserved(j.s)]
  BY <1>0, <1>6 DEF Reserve
<1>7. ASSUME NEW j \in jobs, Plan(j)
      PROVE  \/ Fewer
             \/ \E s \in Streams, src \in Sources : \E nvenc :
                  /\ LadderFor(src) # {} /\ lease' = [lease EXCEPT ![s] = PlanFor(s, src, nvenc)]
                  /\ card' = CardAfter(s, nvenc)
  <2>1. j.s \in Streams /\ j.src \in Sources
    BY <1>0, <1>7 DEF Plan, Sourced
  <2>2. CASE LadderFor(j.src) = {}
    BY <1>0, <1>7, <2>2 DEF Plan
  <2>3. CASE LadderFor(j.src) # {}
    <3>1. lease' = [lease EXCEPT ![j.s] = PlanFor(j.s, j.src, j.nvenc)] /\ card' = CardAfter(j.s, j.nvenc)
      BY <1>7, <2>3 DEF Plan
    <3> QED
      BY <2>1, <2>3, <3>1
  <2> QED
    BY <2>2, <2>3
<1> HIDE DEF Fewer
<1> QED
  <2>1. CASE \E s \in Streams : StreamStep(s)
    BY <1>1, <1>2, <2>1
  <2>2. CASE \E j \in jobs : JobStep(j)
    <3>1. PICK j \in jobs : JobStep(j)
      BY <2>2
    <3>2. CASE Reserve(j)
      BY <1>6, <3>2
    <3>3. CASE Plan(j)
      BY <1>7, <3>3 DEF Fewer
    <3>4. CASE EndingStep(j)
      BY <1>3, <3>4 DEF Fewer
    <3> QED
      BY <3>1, <3>2, <3>3, <3>4 DEF JobStep
  <2>3. CASE UNCHANGED laneVars
    BY <1>1, <2>3 DEF laneVars
  <2> QED
    BY <1>4, <1>5, <2>1, <2>2, <2>3 DEF LaneNext, Fewer

LEMMA PlanFits ==
  ASSUME LeaseType, CapacityInv, NEW s \in Streams, NEW src \in Sources, NEW nvenc, LadderFor(src) # {}
  PROVE  /\ Sized(PlanFor(s, src, nvenc)) /\ PlanFor(s, src, nvenc) # NoLease
         /\ Owed(PlanFor(s, src, nvenc)) => PlanFor(s, src, nvenc).cpu + SumOver(Cpus, Owing \ {s}) <= CpuBudget
         /\ PlanFor(s, src, nvenc).sessions + SumOver(Opened, Leases \ {s}) <= CardSessions
<1> DEFINE l == PlanFor(s, src, nvenc)
<1>1. /\ UsedCpu(Streams \ {s}) \in Nat /\ UsedSessions(Streams \ {s}) \in Nat
      /\ SumOver(Cpus, Owing \ {s}) \in Nat /\ SumOver(Cpus, Owing \ {s}) <= UsedCpu(Streams \ {s})
      /\ SumOver(Opened, Leases \ {s}) = UsedSessions(Streams \ {s})
      /\ UsedSessions(Streams \ {s}) <= CardSessions
  <2>1. s \in Leases => lease[s].sessions \in Nat
    BY DEF CapacityInv, LeasesSized, Sized
  <2>2. SumOver(Opened, Leases) <= CardSessions /\ CardSessions \in Nat
    BY LiveLaneAssumption DEF CapacityInv, Within
  <2>3. /\ UsedCpu(Streams) \in Nat /\ UsedCpu(Streams \ {s}) \in Nat
        /\ UsedSessions(Streams) \in Nat /\ UsedSessions(Streams \ {s}) \in Nat
        /\ UsedCpu(Streams) = UsedCpu(Streams \ {s}) + (IF s \in Leases THEN lease[s].cpu ELSE 0)
        /\ UsedSessions(Streams) = UsedSessions(Streams \ {s}) + (IF s \in Leases THEN lease[s].sessions ELSE 0)
        /\ SumOver(Cpus, Owing \ {s}) \in Nat /\ SumOver(Cpus, Owing \ {s}) <= UsedCpu(Streams \ {s})
        /\ SumOver(Opened, Leases \ {s}) = UsedSessions(Streams \ {s})
        /\ SumOver(Opened, Leases) = UsedSessions(Streams)
    BY UsedBeside DEF CapacityInv
  <2> QED
    BY <2>1, <2>2, <2>3
<1>2. CpuBudget \in Nat /\ FreeCpu(s) = CpuBudget - UsedCpu(Streams \ {s}) /\ FreeCpu(s) \in Int
  BY <1>1, LiveLaneAssumption DEF FreeCpu
<1>3. lease[s] # NoLease => Sized(lease[s])
  BY DEF CapacityInv, LeasesSized, Leases
<1>4. /\ Sized(l) /\ (Owed(l) => l.cpu <= FreeCpu(s))
      /\ l.sessions + UsedSessions(Streams \ {s}) <= CardSessions
  BY <1>1, <1>2, <1>3, PlanIs
<1>5. l # NoLease
  BY PlanNames, EncoderNamed
<1> HIDE DEF l
<1>6. l.cpu \in Nat
  BY <1>4 DEF Sized
<1> QED
  BY <1>1, <1>2, <1>4, <1>5, <1>6 DEF l

LEMMA CapacityStep == ASSUME LaneInv, Sourced, CapacityInv, [LaneNext]_laneVars PROVE CapacityInv'
<1>0. LeaseType /\ DOMAIN lease = Streams
  BY DEF LaneInv, LeaseType
<1>1. CASE \A s \in Streams : lease'[s] = lease[s] \/ lease'[s] = NoLease
  BY <1>1, FewerLeases
<1>2. ASSUME NEW s \in Streams, lease' = [lease EXCEPT ![s] = Reserved(s)] PROVE CapacityInv'
  <2>1. CASE lease[s] # NoLease \/ Reserved(s) = NoLease
    <3>1. \A t \in Streams : lease'[t] = lease[t] \/ lease'[t] = NoLease
      BY <1>0, <1>2, <2>1, ReservedNames
    <3> QED
      BY <3>1, FewerLeases
  <2>2. CASE lease[s] = NoLease /\ Reserved(s) # NoLease
    <3> DEFINE l == Reserved(s)
    <3>1. /\ Sized(l) /\ l.cpu + SumOver(Cpus, Owing \ {s}) <= CpuBudget
          /\ l.sessions + SumOver(Opened, Leases \ {s}) <= CardSessions
      BY <2>2, ReservedIs
    <3> HIDE DEF l
    <3> QED
      BY <1>0, <1>2, <3>1, OneLease DEF l
  <2> QED
    BY <2>1, <2>2
<1>3. ASSUME NEW s \in Streams, lease[s] # NoLease, lease' = [lease EXCEPT ![s] = Pressed(lease[s])] PROVE CapacityInv'
  <2> DEFINE old == lease[s]
             l == Pressed(lease[s])
  <2>1. s \in Leases /\ Sized(old)
    BY <1>3 DEF CapacityInv, LeasesSized, Leases
  <2>2. Sized(l) /\ l.cpu <= old.cpu /\ l.sessions <= old.sessions /\ (Owed(l) => Owed(old))
    BY <2>1, PressedIs
  <2>3. l.cpu \in Nat /\ l.sessions \in Nat /\ old.cpu \in Nat /\ old.sessions \in Nat
    BY <2>1, <2>2 DEF Sized
  <2>4. /\ Cpus \in [Leases -> Nat] /\ Opened \in [Leases -> Nat] /\ Cpus[s] = old.cpu /\ Opened[s] = old.sessions
        /\ IsFiniteSet(Leases) /\ IsFiniteSet(Owing) /\ Owing \in SUBSET Leases /\ Leases \in SUBSET Leases
    BY <2>1, FS_Subset DEF Cpus, Opened, CapacityInv, LeasesSized, Sized, Owing
  <2>5. SumOver(Opened, Leases) = old.sessions + SumOver(Opened, Leases \ {s}) /\ SumOver(Opened, Leases \ {s}) \in Nat
    BY <2>1, <2>4, SumStep
  <2>6. Owed(l) => SumOver(Cpus, Owing) = old.cpu + SumOver(Cpus, Owing \ {s}) /\ SumOver(Cpus, Owing \ {s}) \in Nat
    <3>1. Owed(old) => s \in Owing
      BY <2>1 DEF Owing
    <3> QED
      BY <2>2, <2>4, <3>1, SumStep
  <2> HIDE DEF l, old
  <2>7. CpuBudget \in Nat /\ CardSessions \in Nat /\ SumOver(Cpus, Owing) <= CpuBudget /\ SumOver(Opened, Leases) <= CardSessions
    BY LiveLaneAssumption DEF CapacityInv, Within
  <2>8. l.sessions + SumOver(Opened, Leases \ {s}) <= CardSessions
    BY <2>2, <2>3, <2>5, <2>7
  <2>9. Owed(l) => l.cpu + SumOver(Cpus, Owing \ {s}) <= CpuBudget
    BY <2>2, <2>3, <2>6, <2>7
  <2>10. lease' = [lease EXCEPT ![s] = l]
    BY <1>3 DEF l
  <2> QED
    BY <1>0, <2>2, <2>8, <2>9, <2>10, OneLease
<1>4. ASSUME NEW s \in Streams, NEW src \in Sources, NEW nvenc, LadderFor(src) # {},
             lease' = [lease EXCEPT ![s] = PlanFor(s, src, nvenc)]
      PROVE  CapacityInv'
  <2> DEFINE l == PlanFor(s, src, nvenc)
  <2>1. /\ Sized(l) /\ (Owed(l) => l.cpu + SumOver(Cpus, Owing \ {s}) <= CpuBudget)
        /\ l.sessions + SumOver(Opened, Leases \ {s}) <= CardSessions
    BY <1>0, <1>4, PlanFits
  <2>2. lease' = [lease EXCEPT ![s] = l]
    BY <1>4
  <2> HIDE DEF l
  <2> QED
    BY <1>0, <2>1, <2>2, OneLease
<1> QED
  BY <1>1, <1>2, <1>3, <1>4, LeaseSteps

LEMMA BudgetInit == LaneInit => BudgetInv
<1> SUFFICES ASSUME LaneInit PROVE BudgetInv
  OBVIOUS
<1>1. LaneInv /\ Sourced /\ Leases = {}
  BY LaneStarts DEF LaneInit, Sourced, Leases
<1>2. IsFiniteSet({}) /\ Owing = {}
  BY <1>1, FS_EmptySet DEF Owing
<1>3. SumOver(Cpus, {}) = 0 /\ SumOver(Opened, {}) = 0
  BY SumEmpty
<1> QED
  BY <1>1, <1>2, <1>3, LiveLaneAssumption DEF BudgetInv, CapacityInv, LeasesSized, Within

LEMMA BudgetStep == BudgetInv /\ [LaneNext]_laneVars => BudgetInv'
BY LaneInvStep, SourcedStep, CapacityStep DEF BudgetInv

\* What is owed to the ladders that could still shed, and to the publishers that were
\* admitted and not planned yet, is within the cores, and no session is leased twice.
THEOREM BudgetHolds == LaneSpec => []WithinBudget
<1>1. BudgetInv => WithinBudget
  BY WithinIs DEF BudgetInv, CapacityInv
<1> QED
  BY <1>1, BudgetInit, BudgetStep, PTL DEF LaneSpec

\* Its own lease is not counted against a ladder that is planned again.
LEMMA ReplanSame ==
  ASSUME BudgetInv, [LaneNext]_laneVars, NEW s \in Streams, Replans(s), UsedCpu(Streams) <= CpuBudget,
         UsedSessions(Streams) <= SessionBudget(card')
  PROVE  lease[s].rungs \subseteq lease'[s].rungs
<1>0. LeaseType /\ DOMAIN lease = Streams /\ CapacityInv
  BY DEF BudgetInv, LaneInv, LeaseType
<1>1. CASE lease'[s] = lease[s]
  BY <1>1
<1>2. ASSUME NEW t \in Streams, lease' = [lease EXCEPT ![t] = Reserved(t)] PROVE lease'[s] = lease[s]
  BY <1>0, <1>2, ReservedNames DEF Replans
<1>3. ASSUME NEW t \in Streams, lease[t] # NoLease, lease' = [lease EXCEPT ![t] = Pressed(lease[t])]
      PROVE  lease'[s] = lease[s]
  <2>1. Sized(lease[t])
    BY <1>0, <1>3 DEF CapacityInv, LeasesSized, Leases
  <2>2. Pressed(lease[t]).pressure # 0
    BY <2>1 DEF Pressed, Sized
  <2> QED
    BY <1>0, <1>3, <2>2 DEF Replans
<1>4. ASSUME NEW t \in Streams, NEW src \in Sources, NEW nvenc, LadderFor(src) # {},
             lease' = [lease EXCEPT ![t] = PlanFor(t, src, nvenc)], card' = CardAfter(t, nvenc), s = t
      PROVE  lease[s].rungs \subseteq lease'[s].rungs
  <2> DEFINE old    == lease[s]
             l      == PlanFor(s, src, nvenc)
             on     == CardAfter(s, nvenc)
             start  == KeptRungs(s, src)
             copy   == start \cap Copied(src)
             need   == Cardinality(start \ copy)
             free   == FreeSessions(s, on)
             enc    == IF on /\ nvenc /\ need > 0 /\ need <= free THEN "nvenc" ELSE "x264"
             fitted == Fit(src, start, copy, enc, FreeCpu(s), free)
  <2>1. /\ l.encoder = enc /\ l.rungs = fitted /\ l.src = src /\ l.pressure = (IF lease[s] # NoLease THEN lease[s].pressure ELSE 0)
    BY DEF PlanFor
  <2>2. lease'[s] = l
    BY <1>0, <1>4
  <2>3. /\ lease[s] # NoLease /\ old.src = src /\ old.src # None /\ old.pressure = 0 /\ enc = old.encoder
        /\ s \in Leases /\ Sized(old)
    BY <1>0, <2>1, <2>2 DEF Replans, Leases, CapacityInv, LeasesSized
  <2>4. /\ ~ old.provisional /\ old.rungs \in SUBSET Planned(src) /\ old.rungs # {} /\ old.copy = old.rungs \cap Copied(src)
        /\ old.degraded \/ old.rungs = Planned(src)
        /\ old.cpu = Cost(src, old.rungs, old.copy, old.encoder) /\ old.sessions = Sessions(old.rungs, old.copy, old.encoder)
        /\ old.cpu \in Nat /\ old.sessions \in Nat
    BY <2>3 DEF Sized
  <2>5. start = old.rungs
    <3>1. old.rungs \cap Planned(src) = old.rungs
      BY <2>4
    <3> QED
      BY <2>3, <2>4, <3>1 DEF KeptRungs
  <2>6. copy = old.copy
    BY <2>4, <2>5
  <2>7. Cost(src, start, copy, enc) = old.cpu /\ Sessions(start, copy, enc) = old.sessions
    BY <2>3, <2>4, <2>5, <2>6
  <2>8. old.cpu <= FreeCpu(s) /\ old.sessions <= free
    <3>1. /\ UsedCpu(Streams \ {s}) \in Nat /\ UsedSessions(Streams \ {s}) \in Nat
          /\ UsedCpu(Streams) = UsedCpu(Streams \ {s}) + old.cpu
          /\ UsedSessions(Streams) = UsedSessions(Streams \ {s}) + old.sessions
      BY <1>0, <2>3, UsedBeside DEF CapacityInv
    <3>2. card' = on /\ CpuBudget \in Nat /\ SessionBudget(on) \in Nat
      BY <1>4, LiveLaneAssumption DEF SessionBudget
    <3> HIDE DEF on, old
    <3>3. UsedSessions(Streams) <= SessionBudget(on)
      BY <3>2
    <3> QED
      BY <2>4, <3>1, <3>2, <3>3 DEF FreeCpu, FreeSessions
  <2>9. start \in SUBSET Planned(src) /\ start # {}
    BY <2>4, <2>5
  <2>f. fitted = Fit(src, start, copy, enc, FreeCpu(s), free)
    OBVIOUS
  <2> HIDE DEF start, copy, enc, free, fitted, l, old
  <2>10. FitsOr(fitted, src, start, copy, enc, FreeCpu(s), free)
    BY <2>9, <2>f, FitIs
  <2>11. fitted = start
    BY <2>7, <2>8, <2>10 DEF FitsOr
  <2> QED
    BY <2>1, <2>2, <2>5, <2>11 DEF old
<1>5. ASSUME NEW t \in Streams, t # s, NEW l, lease' = [lease EXCEPT ![t] = l] PROVE lease'[s] = lease[s]
  BY <1>0, <1>5
<1>6. LaneInv /\ Sourced
  BY DEF BudgetInv
<1>7. CASE \A t \in Streams : lease'[t] = lease[t] \/ lease'[t] = NoLease
  BY <1>1, <1>7 DEF Replans
<1>8. CASE \E t \in Streams :
             \/ lease' = [lease EXCEPT ![t] = Reserved(t)]
             \/ lease[t] # NoLease /\ lease' = [lease EXCEPT ![t] = Pressed(lease[t])]
             \/ \E src \in Sources : \E nvenc :
                  /\ LadderFor(src) # {} /\ lease' = [lease EXCEPT ![t] = PlanFor(t, src, nvenc)]
                  /\ card' = CardAfter(t, nvenc)
  BY <1>1, <1>2, <1>3, <1>4, <1>5, <1>8
<1> QED
  BY <1>6, <1>7, <1>8, LeaseSteps

\* A ladder that restarts with its source unchanged, before it has fallen behind,
\* is planned the rungs it had while what is leased is within the budgets.
THEOREM KeepsLadder == LaneSpec => ReplanKeepsLadder
<1>1. BudgetInv /\ [LaneNext]_laneVars =>
        [\A s \in Streams :
           Replans(s) /\ UsedCpu(Streams) <= CpuBudget /\ UsedSessions(Streams) <= SessionBudget(card')
           => lease[s].rungs \subseteq lease'[s].rungs]_laneVars
  BY ReplanSame
<1> QED
  BY <1>1, BudgetInit, BudgetStep, PTL DEF LaneSpec, ReplanKeepsLadder

=============================================================================
