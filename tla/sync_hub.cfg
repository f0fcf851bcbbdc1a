CONSTANTS
  r1 = r1 r2 = r2 r3 = r3 c1 = c1 c2 = c2 tcp = tcp udp = udp
  t1 = t1 t2 = t2 t3 = t3 f1 = f1 f2 = f2 f3 = f3 f4 = f4
  None = None
  Rules = {r1, r2, r3}
  Configs = {c1, c2}
  Protocols = {tcp, udp}
  Blockable = {tcp, udp}
  Kind <- KindMixed
  Protocol <- ProtocolOf
  Socket <- ProtocolOf
  Workers = {"hub"}
  Lossy = FALSE
  Refreshing = FALSE
  TunnelIds = {t1, t2}
  ForwarderIds = {f1, f2, f3, f4}
  MaxVersion = 3
  MaxQueue = 2
SPECIFICATION Spec
SYMMETRY Interchangeable
INVARIANTS
  TypeOK
  AgentAtItsVersion
  StatusTruthful
  BlockedNotRunning
  RegisteredIsWired
