--------------------------------- MODULE Bank ---------------------------------
(***************************************************************************)
(* What the wallet of Ain Soph promises whoever calls it: a request is     *)
(* carried out whole, at one moment, at most once under its key, and never *)
(* from money that is not there.  There are no connections, statements,    *)
(* locks or lost transactions here; Wallet has them, and is shown to       *)
(* behave as this.                                                         *)
(***************************************************************************)
EXTENDS Integers

CONSTANTS Users, FeeAccount,   \* as in Wallet
          Asks,
          Keys,                \* whatever a request may be known by
          Bps                  \* the fee of each operation, in basis points

VARIABLES
  balance,   \* of each account
  settled    \* what has been carried out, each under its key

vars == <<balance, settled>>

Init ==
  /\ balance = [a \in Users \cup {FeeAccount} |-> 0]
  /\ settled = {}

Fee(ask) == (ask.amount * Bps[ask.op]) \div 10000

\* A request is carried out under a key nothing was carried out under.
Settle(ask, key) ==
  /\ \A s \in settled : s.key # key
  /\ settled' = settled \cup {[key |-> key, op |-> ask.op, amount |-> ask.amount]}

\* Money changes hands: from pays the amount, to receives what the fee leaves of
\* it.  Nobody is from for a deposit, nobody to for a withdrawal.
Move(from, to, ask) ==
  balance' = [a \in Users \cup {FeeAccount} |->
    balance[a] - (IF a \in from THEN ask.amount ELSE 0)
               + (IF a \in to THEN ask.amount - Fee(ask) ELSE 0)
               + (IF a = FeeAccount THEN Fee(ask) ELSE 0)]

Deposit(u, ask) == ask.op = "deposit" /\ Move({}, {u}, ask)

Withdraw(u, ask) ==
  /\ ask.op = "withdrawal" /\ balance[u] >= ask.amount
  /\ Move({u}, {}, ask)

Pay(u, v, ask) ==
  /\ ask.op \in {"transfer", "tip"} /\ u # v /\ balance[u] >= ask.amount
  /\ Move({u}, {v}, ask)

Next ==
  \E ask \in Asks :
    /\ \E u, v \in Users : Deposit(u, ask) \/ Withdraw(u, ask) \/ Pay(u, v, ask)
    /\ \E key \in Keys : Settle(ask, key)

Spec == Init /\ [][Next]_vars
=============================================================================
