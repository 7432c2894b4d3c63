SPECIFICATION Spec
CONSTANTS
  x = x
  y = y
  enroll = enroll
  grant = grant
  Tasks = {t1, t2, t3}
  Ids = {x, y}
  Operations = {enroll, grant}
  Assertions <- MCAssertions
  None = None
  Tolerance = 1
  MaxLifetime = 2
  MaxTime = 5
SYMMETRY TaskSymmetry
INVARIANTS
  TypeOK
  SingleUseWhileLive
CHECK_DEADLOCK FALSE
