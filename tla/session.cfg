CONSTANTS
  k1 = k1 k2 = k2
  None = None
  Conns = {k1}
  MaxTunnels = 2
  MaxExits = 2
  Capacity = 1
  MaxReads <- TwoAndOne
  MaxFaults = 1
SPECIFICATION FairSpec
INVARIANTS
  TypeOK
  StreamIntact
  HotSwapReachesAll
PROPERTIES
  ConnsEnd
  EndsTogether
  ImplementsChannels
CHECK_DEADLOCK FALSE
