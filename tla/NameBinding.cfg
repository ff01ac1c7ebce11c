SPECIFICATION Spec
CONSTANTS
  Address = address
  Handle = handle
  Number = number
  Names = {address, number}
  Rule <- MCRule
  Hold = 1
  Identities = {i1, i2}
  NoOne = NoOne
  Txns = {t1, t2}
  MaxOps = 4
  MaxNow = 1
SYMMETRY Symmetry
INVARIANTS NeverReissued VerdictStands
PROPERTIES QuarantineHeld ByTheRule
CHECK_DEADLOCK FALSE
