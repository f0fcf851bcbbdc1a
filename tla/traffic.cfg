CONSTANTS
  u1 = u1 u2 = u2 u3 = u3
  Units = {u1, u2, u3}
  MaxPending = 2
SPECIFICATION Spec
INVARIANTS
  TypeOK
  EachUnitOnce
PROPERTY Billed
CHECK_DEADLOCK FALSE
