SPECIFICATION Spec
CONSTANTS
  Nodes = {n1, n2, n3, n4}
  Predicates = {replies_to}
  MaxDepth = 3
SYMMETRY Symmetry
INVARIANTS TypeOK ChainIntact RootIsBottom InOrderPlacement
PROPERTY TreesMoveWhole
CHECK_DEADLOCK FALSE
