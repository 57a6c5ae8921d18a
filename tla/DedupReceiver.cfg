SPECIFICATION DedupSpec
CONSTANTS
  W = 3
  U64Max = 8
  MaxSeq = 7
  MaxRebuilds = 2
  MaxAnomalies = 1
INVARIANTS DedupTypeOK AtMostOnce BitmapExact NextIsNew
PROPERTIES ContinuityMonotone ImplementsMemory
