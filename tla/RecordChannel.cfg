SPECIFICATION Spec
CONSTANTS
  W = 3
  U64Max = 9
  Limit = 6
  None = None
  K = K
  Flow = Flow
  MaxRestarts = 1
  Obedient = FALSE
INVARIANTS NoSeqReuse OpenedAtMostOnce SlotsOnlyForOpened SeqSplit
