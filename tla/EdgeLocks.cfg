SPECIFICATION MCSpec
CONSTANTS
  Nodes = {1, 2, 3, 4}
  Child = 1
  Parent = 2
  Predicates = {replies_to}
  MaxDepth = 2
  Txns = {1, 2, 3}
  Kinds = {"insert", "delete"}
  Turns = 2
  MaxOps = 3
INVARIANT DeleteHoldsRoot
PROPERTIES Atomic EveryWriteEnds
ACTION_CONSTRAINT InOrder
CHECK_DEADLOCK FALSE
