------------------------------- MODULE MCWallet -------------------------------
(* Finite instance of Wallet: a deposit covers one debit of 60 and not two,   *)
(* and a tip of 60 is too small to be charged for.                            *)
EXTENDS Wallet

MCAsks ==
  {[op |-> "deposit", amount |-> 100], [op |-> "transfer", amount |-> 60],
   [op |-> "tip", amount |-> 60], [op |-> "withdrawal", amount |-> 60]}

=============================================================================
