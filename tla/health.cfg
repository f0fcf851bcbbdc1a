CONSTANTS
  p1 = p1 p2 = p2
  Callers = {p1, p2}
  MaxTunnel = 1
  Rules <- Both
  UnhealthyThreshold = 2
  HealthyThreshold = 1
  Chooser = p1
  Watched = {1}
  MaxReports = 1
SPECIFICATION FairSpec
INVARIANTS
  TypeOK
  ChoiceSound
  ServerKnows
CHECK_DEADLOCK FALSE
PROPERTY ServesByFallback
