SPECIFICATION Spec
CONSTANTS
  c1 = c1
  c2 = c2
  Conns = {c1, c2}
  Casts <- Pairs
  Node = Node
  None = None
  MaxSlot = 2
  MaxRelay = 2
  Buffer = 2
  HelloLen = 1
  MaxData <- MoreToSite
CHECK_DEADLOCK FALSE
INVARIANTS GateKnowsItsOwn OnlyTheNodeVerifies FailsOnlyOverlapped QuotaHolds
PROPERTIES SpliceEnds
