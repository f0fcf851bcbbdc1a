CONSTANTS
  p1 = p1 p2 = p2
  Callers = {p1}
  MaxTunnel = 1
  Rules <- Failover
  UnhealthyThreshold = 2
  HealthyThreshold = 1
  Chooser = p1
  Watched = {1}
  MaxReports = 1
SPECIFICATION FairSpec
PROPERTY Serves
CHECK_DEADLOCK FALSE
