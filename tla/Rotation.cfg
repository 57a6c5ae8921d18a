SPECIFICATION Spec
CONSTANTS
  W = 2
  U64Max = 9
  Limit = 8
  None = None
  K = K
  Flow = Flow
  Ephs = {e1, e2}
  MaxAttempts = 2
  MaxSeq = 5
INVARIANTS DeliveredOnce ContinuationOpens
