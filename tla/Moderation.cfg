SPECIFICATION FairSpec
CONSTANTS
  Tasks = {t1, t2}
  MaxCalls = 4
  MaxFaults = 1
INVARIANT DecisionsHold
PROPERTY MediaCloses
CHECK_DEADLOCK FALSE
