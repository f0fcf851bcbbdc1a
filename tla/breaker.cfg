CONSTANTS
  a = a b = b
  Callers = {a, b}
  FailureThreshold = 2
  BlockedThreshold = 3
  HalfOpenMax = 1
  MaxBackoff = 2
  Leaky = FALSE
SPECIFICATION FairSpec
INVARIANTS
  TypeOK
  RecoveryPossible
PROPERTY Recovers
