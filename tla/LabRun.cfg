SPECIFICATION Spec
CONSTANTS
  W = 2
  U64Max = 9
  Limit = 8
  None = None
  Flow = Flow
  Runs = {a, b}
  RecordsN = 2
  AfterN = 1
  MaxFaults = 1
INVARIANTS OwnersRecordsOpen OnlyKeyHolderResumes FailsForAReason
PROPERTIES RunsEnd
CHECK_DEADLOCK FALSE
