SPECIFICATION TunnelSpec
CONSTANTS
  Group = 4
  U64 = 32
  U32 = 8
  Types = 2
  Bad = Bad
  MaxUdp = 14
  Envelope = 3
  Records <- MCRecords
  Alphabet = {0, 1, 2, 4}
  MaxAnswer = 7
  MaxShort = 1
  Cover = Cover
  OtherCover = OtherCover
  Paddings <- MCPaddings
  Targets <- MCTargets
CHECK_DEADLOCK FALSE
INVARIANTS EchoReturnsRecords OneReading CoversAreTransparent
PROPERTIES BothSidesEnd
