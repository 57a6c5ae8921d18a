SPECIFICATION Spec
CONSTANTS
  Clients = {A, B}
  Oversized = {2}
  MaxSid = 3
  MaxSeq = 2
  MaxFaults = 3
  Damaged = Damaged
  None = None
INVARIANTS TypeOK NoSeqReuse LoadsWhatWasSaved WipedKeysAreGone
