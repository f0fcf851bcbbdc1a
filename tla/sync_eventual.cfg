CONSTANTS
  r1 = r1 r2 = r2 r3 = r3 c1 = c1 c2 = c2 tcp = tcp udp = udp
  t1 = t1 t2 = t2 t3 = t3 f1 = f1 f2 = f2 f3 = f3 f4 = f4
  None = None
  Rules = {r1}
  Configs = {c1, c2}
  Protocols = {tcp, udp}
  Blockable = {}
  Kind <- KindChain
  Protocol <- ProtocolOf
  Socket <- ProtocolOf
  Workers = {"poll"}
  Lossy = TRUE
  Refreshing = TRUE
  TunnelIds = {t1, t2}
  ForwarderIds = {f1, f2, f3, f4}
  MaxVersion = 2
  MaxQueue = 0
SPECIFICATION FairSpec
PROPERTY EventuallyConsistent
