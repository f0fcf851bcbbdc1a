CONSTANTS
  c1 = c1 c2 = c2
  None = None
  Conns = {c1, c2}
  Savers <- Goroutines
  Original <- Installed
  Capacity = 1
  MaxChanges = 1
SPECIFICATION FairSpec
INVARIANTS
  TypeOK
  EventsClosedOnce
PROPERTIES
  PumpsEnd
  Reconnects
