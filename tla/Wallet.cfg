SPECIFICATION FairSpec
CONSTANTS
  Users = {alice, bob}
  FeeAccount = fees
  Keys = {k1, k2}
  Asks <- MCAsks
  Conns = {c1, c2}
  MaxOps = 4
INVARIANTS BooksAgree FundsStand
PROPERTIES OneAtATime EveryRequestEnds
CHECK_DEADLOCK FALSE
