SPECIFICATION Spec
CONSTANTS
  h1 = h1
  h2 = h2
  h3 = h3
  W = 3
  U64Max = 9
  Limit = 6
  None = None
  K = K
  Hosts = {h1, h2, h3}
  Width = 4
  FirstIp = 2
  LastIp = 3
  Cap = 2
  Rules <- SplitTunnel
  Default = "Route"
  NoHost = NoHost
  OutboxCap = 4
  MaxUdp = 1
  PadBudget = 1
  LossEvery = 2
  NoFailure = NoFailure
  Literals <- OneOfEach
  HostOptions <- Headers
  Before = h1
  BindingKinds = {"Quic", "Mem", "SsPadded", "Masque", "Reality"}
  MaxInputs = 4
INVARIANTS TypeOK PoolIsSound StreamsOfHosts NothingVanishes DeviceOrder
PROPERTIES SlotNeverDowngrades ClosedIsReported
CHECK_DEADLOCK FALSE
