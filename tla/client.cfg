CONSTANTS
  c1 = c1 c2 = c2 u1 = u1
  Users = {u1}
  Conns = {c1, c2}
  Nil = Nil
  Kinds = {"ws", "tls", "smux"}
  Places = {1, 2}
  Tokens = {1, 2}
  RetryMax = 2
  RefreshAfter = 2
SPECIFICATION FairSpec
INVARIANTS
  TypeOK
  NoneLeft
  StopLeavesNothing
  NoCloseUnderWrite
CHECK_DEADLOCK FALSE
PROPERTIES
  CallsReturn
  Reconnects
