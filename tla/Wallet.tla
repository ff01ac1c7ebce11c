-------------------------------- MODULE Wallet --------------------------------
(***************************************************************************)
(* The wallet of Ain Soph: deposits, transfers, tips and withdrawals       *)
(* (ain-soph/src/handlers.rs; ain-soph/src/db.rs), statement by statement, *)
(* against one database at READ COMMITTED.  What a transaction has changed *)
(* and not committed is the difference it makes to each balance; the rows  *)
(* it has locked nobody else changes, so a balance it reads back is the    *)
(* committed one and that difference.                                      *)
(*                                                                         *)
(* Who a request acts for is settled before its transaction begins and is  *)
(* not modelled here.                                                      *)
(***************************************************************************)
EXTENDS Integers, Sequences, FiniteSets, FiniteSetsExt

CONSTANTS Users,           \* the identities that own accounts
          FeeAccount,      \* FEE_ACCOUNT, the platform's float
          Keys,            \* idempotency keys callers choose
          Asks,            \* the operations callers ask for, each with its amount
          Conns,           \* connections, each running one transaction at a time
          MaxOps           \* bound: requests served

Kinds == {"deposit", "transfer", "tip", "withdrawal"}

ASSUME WalletAssumption ==
  /\ FeeAccount \notin Users
  /\ Asks \subseteq [op : Kinds, amount : Nat \ {0}]
  /\ MaxOps \in Nat

Accounts == Users \cup {FeeAccount}

VARIABLES
  accounts,      \* the rows of accounts, ...
  balance,       \* ... and their balances; 0 for one that is not there yet
  transactions,  \* the transactions table
  entries,       \* ledger_entries
  conn,          \* each connection's transaction
  ops            \* requests served, bounded by MaxOps

vars == <<accounts, balance, transactions, entries, conn, ops>>

Idle == [pc |-> "idle", new |-> {}, held |-> {}]

Init ==
  /\ accounts = {} /\ balance = [a \in Accounts |-> 0]
  /\ transactions = {} /\ entries = {}
  /\ conn = [c \in Conns |-> Idle] /\ ops = 0

-----------------------------------------------------------------------------
\* compute_fee, in basis points, rounded down.
Bps == [deposit |-> 250, transfer |-> 300, tip |-> 100, withdrawal |-> 200]

Fee(op, amount) == (amount * Bps[op]) \div 10000

\* Who pays and who is paid, in the order the handlers come to them.
Debits(op) == op # "deposit"

Paid(r) == (IF r.op = "withdrawal" THEN <<>> ELSE <<r.to>>) \o <<FeeAccount>>

Parties(r) == (IF Debits(r.op) THEN <<r.from>> ELSE <<>>) \o Paid(r)

Share(r, a) == IF a = FeeAccount THEN Fee(r.op, r.amount) ELSE r.amount - Fee(r.op, r.amount)

\* A balance as c reads it back.
Balance(c, a) == balance[a] + conn[c].delta[a]

\* No other transaction has locked a's row.
Free(c, a) == \A d \in Conns \ {c} : a \notin conn[d].held

Unclaimed(c, a) == \A d \in Conns \ {c} : a \notin conn[d].new

Unwritten(c) == \A d \in Conns \ {c} : conn[d].pc \notin {"idle", "insert"} => conn[d].key # conn[c].key

-----------------------------------------------------------------------------
\* Mutant of Rollback: the connection goes back to the pool with its locks.
RollbackLeaks(c) ==
  /\ conn' = [conn EXCEPT ![c].pc = "idle"]
  /\ UNCHANGED <<accounts, balance, transactions, entries>>

Rollback(c) ==
  /\ conn' = [conn EXCEPT ![c] = Idle]
  /\ UNCHANGED <<accounts, balance, transactions, entries>>

Books == <<accounts, balance, transactions, entries, ops>>

\* A tip may come without a key and is then keyed by its own id.
Request(c) ==
  /\ conn[c].pc = "idle" /\ ops < MaxOps
  /\ ops' = ops + 1
  /\ \E ask \in Asks, from, to \in Users, key \in Keys \cup {ops'} :
       /\ ask.op \in {"transfer", "tip"} => from # to                \* SelfTransfer
       /\ ask.op \in {"deposit", "withdrawal"} => from = to
       /\ key \in Keys \/ ask.op = "tip"
       /\ conn' = [conn EXCEPT ![c] =
            [pc |-> "insert", id |-> ops', key |-> key, op |-> ask.op, amount |-> ask.amount,
             from |-> from, to |-> to, new |-> {}, held |-> {}, left |-> <<>>,
             delta |-> [a \in Accounts |-> 0]]]
  /\ UNCHANGED <<accounts, balance, transactions, entries>>

\* Mutant of Insert: the key is looked up among what has been committed.
InsertUnseen(c) ==
  /\ conn[c].pc = "insert"
  /\ IF \E q \in transactions : q.key = conn[c].key
     THEN Rollback(c) /\ ops' = ops
     ELSE /\ conn' = [conn EXCEPT ![c].pc = "ensure", ![c].left = Parties(conn[c])]
          /\ UNCHANGED Books

\* INSERT INTO transactions ON CONFLICT (idempotency_key) DO NOTHING: it waits
\* for whoever has written that key.  A key that is taken is answered by
\* existing_tx, which changes nothing.
Insert(c) ==
  /\ conn[c].pc = "insert" /\ Unwritten(c)
  /\ IF \E q \in transactions : q.key = conn[c].key
     THEN Rollback(c) /\ ops' = ops
     ELSE /\ conn' = [conn EXCEPT ![c].pc = "ensure", ![c].left = Parties(conn[c])]
          /\ UNCHANGED Books

\* ensure_account, for one party after another.
Ensure(c) ==
  /\ conn[c].pc = "ensure" /\ Unclaimed(c, Head(conn[c].left))
  /\ LET new  == conn[c].new \cup ({Head(conn[c].left)} \ accounts)
         left == Tail(conn[c].left)
     IN conn' = [conn EXCEPT ![c].new = new,
                   ![c].left = IF left = <<>> THEN Paid(conn[c]) ELSE left,
                   ![c].pc = IF left # <<>> THEN "ensure"
                             ELSE IF Debits(conn[c].op) THEN "balance" ELSE "credit"]
  /\ UNCHANGED Books

\* Mutant of LockBalance: SELECT without FOR UPDATE.
ReadBalance(c) ==
  /\ conn[c].pc = "balance"
  /\ IF Balance(c, conn[c].from) < conn[c].amount
     THEN Rollback(c) /\ ops' = ops
     ELSE conn' = [conn EXCEPT ![c].pc = "debit"] /\ UNCHANGED Books

\* locked_balance: SELECT ... FOR UPDATE, and the check it is for.
LockBalance(c) ==
  /\ conn[c].pc = "balance" /\ Free(c, conn[c].from)
  /\ IF Balance(c, conn[c].from) < conn[c].amount
     THEN Rollback(c) /\ ops' = ops                        \* InsufficientBalance
     ELSE /\ conn' = [conn EXCEPT ![c].pc = "debit", ![c].held = @ \cup {conn[c].from}]
          /\ UNCHANGED Books

\* debit_account, under CHECK (balance >= 0).
Debit(c) ==
  /\ conn[c].pc = "debit" /\ Free(c, conn[c].from)
  /\ IF Balance(c, conn[c].from) < conn[c].amount
     THEN Rollback(c) /\ ops' = ops
     ELSE /\ conn' = [conn EXCEPT ![c].pc = "credit", ![c].held = @ \cup {conn[c].from},
                                  ![c].delta[conn[c].from] = @ - conn[c].amount]
          /\ UNCHANGED Books

\* credit_account, for whoever is paid and then for the platform.
Credit(c) ==
  /\ conn[c].pc = "credit" /\ Free(c, Head(conn[c].left))
  /\ LET a == Head(conn[c].left)
     IN conn' = [conn EXCEPT ![c].held = @ \cup {a}, ![c].delta[a] = @ + Share(conn[c], a),
                             ![c].left = Tail(@), ![c].pc = IF Tail(conn[c].left) = <<>> THEN "commit" ELSE "credit"]
  /\ UNCHANGED Books

Entry(r, a, type, amount) == [id |-> r.id, account |-> a, type |-> type, amount |-> amount]

\* append_ledger: a debit of the payer, a credit of each of the paid, none of nothing.
Posted(r) ==
  {e \in {Entry(r, a, "credit", Share(r, a)) : a \in {Paid(r)[i] : i \in DOMAIN Paid(r)}} : e.amount > 0}
    \cup (IF Debits(r.op) THEN {Entry(r, r.from, "debit", r.amount)} ELSE {})

Commit(c) ==
  /\ conn[c].pc = "commit"
  /\ accounts' = accounts \cup conn[c].new
  /\ balance' = [a \in Accounts |-> Balance(c, a)]
  /\ transactions' = transactions \cup
       {[id |-> conn[c].id, key |-> conn[c].key, op |-> conn[c].op, amount |-> conn[c].amount]}
  /\ entries' = entries \cup Posted(conn[c])
  /\ conn' = [conn EXCEPT ![c] = Idle] /\ ops' = ops

-----------------------------------------------------------------------------
\* The statement c is at waits for d.
WaitsFor(c, d) ==
  /\ c # d
  /\ CASE conn[c].pc = "insert" -> conn[d].pc \notin {"idle", "insert"} /\ conn[d].key = conn[c].key
       [] conn[c].pc = "ensure" -> Head(conn[c].left) \in conn[d].new
       [] conn[c].pc \in {"balance", "debit"} -> conn[c].from \in conn[d].held
       [] conn[c].pc = "credit" -> Head(conn[c].left) \in conn[d].held
       [] OTHER -> FALSE

\* c is on a cycle of waits; nobody waits for more than one.
InDeadlock(c) ==
  \E S \in SUBSET Conns :
    c \in S /\ \A d \in S : (\E e \in S : WaitsFor(d, e)) /\ (\E e \in S : WaitsFor(e, d))

\* The database ends one of those that wait for each other.
Deadlock(c) == InDeadlock(c) /\ Rollback(c) /\ ops' = ops

\* Mutant of Lost: the statements ran outside the transaction.
LostHalfway(c) ==
  /\ conn[c].pc # "idle"
  /\ balance' = [a \in Accounts |-> Balance(c, a)]
  /\ conn' = [conn EXCEPT ![c] = Idle]
  /\ UNCHANGED <<accounts, transactions, entries, ops>>

\* The connection or the process is lost before the commit.
Lost(c) == conn[c].pc # "idle" /\ Rollback(c) /\ ops' = ops

Step(c) ==
  \/ Insert(c) \/ Ensure(c) \/ LockBalance(c) \/ Debit(c) \/ Credit(c) \/ Commit(c)
  \/ Deadlock(c)

Next == \E c \in Conns : Request(c) \/ Step(c) \/ Lost(c)

Spec == Init /\ [][Next]_vars

\* The server runs the statements of a request it has begun, and the database
\* breaks deadlocks.  Nobody has to send a request.
FairSpec == Spec /\ \A c \in Conns : WF_vars(Step(c))

-----------------------------------------------------------------------------
Work ==
  [pc : {"insert", "ensure", "balance", "debit", "credit", "commit"}, id : 1..MaxOps,
   key : Keys \cup 1..MaxOps, op : Kinds, amount : Nat \ {0}, from : Users, to : Users,
   new : SUBSET Accounts, held : SUBSET Accounts, left : Seq(Accounts), delta : [Accounts -> Int]]

\* Every table and every transaction in progress has its type.
TypeOK ==
  /\ accounts \subseteq Accounts /\ balance \in [Accounts -> Nat]
  /\ \A q \in transactions : q.id \in 1..MaxOps /\ q.key \in Keys \cup 1..MaxOps /\ q.op \in Kinds
  /\ \A e \in entries : e.account \in Accounts /\ e.amount \in Nat \ {0}
  /\ conn \in [Conns -> Work \cup {Idle}]
  /\ ops \in 0..MaxOps

\* The amounts of the entries of S.
Total(S) == MapThenSumSet(LAMBDA e : e.amount, S)

\* Double entry: whatever transactions race for an account, its balance is what
\* its ledger says, so no update is lost (db.rs, credit_account, debit_account).
BooksAgree ==
  \A a \in Accounts :
    balance[a] = Total({e \in entries : e.account = a /\ e.type = "credit"})
                   - Total({e \in entries : e.account = a /\ e.type = "debit"})

\* "If the same key is submitted twice, the original response is returned
\* without re-executing the operation" (handlers.rs): one transaction of a key,
\* however its requests race, are lost and are sent again.
OncePerKey == \A p, q \in transactions : p.key = q.key => p = q

\* What locked_balance found is still there to debit: the CHECK behind the
\* handler's own refusal never has to speak.
FundsStand == \A c \in Conns : conn[c].pc = "debit" => Balance(c, conn[c].from) >= conn[c].amount

\* The wallet as its callers know it.
Promised == INSTANCE Bank WITH
  Keys <- Keys \cup 1..MaxOps,
  settled <- {[key |-> q.key, op |-> q.op, amount |-> q.amount] : q \in transactions}

\* Requests that race, fail halfway and are sent again leave what they would leave
\* one at a time: each is carried out whole by the commit of its transaction, once
\* under its key, from money that is there, or not at all (db.rs, "all must be
\* called inside an open transaction").  (The first disjunct says no more than the
\* subscript; it spares TLC the second.)
OneAtATime ==
  /\ Promised!Init
  /\ [][UNCHANGED <<balance, transactions>> \/ Promised!Next]_<<balance, transactions>>

\* Every request that is served is answered: two transfers that pay each other
\* end, one of them as the victim of a deadlock.
EveryRequestEnds == \A c \in Conns : conn[c].pc # "idle" ~> conn[c].pc = "idle"
=============================================================================
