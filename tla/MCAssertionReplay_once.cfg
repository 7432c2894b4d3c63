SPECIFICATION Spec
CONSTANTS
  x = x
  y = y
  enroll = enroll
  grant = grant
  Tasks = {t1, t2, t3}
  Ids = {x, y}
  Operations = {enroll}
  Assertions <- TwoAssertions
  None = None
  Tolerance = 1
  MaxLifetime = 2
  MaxTime = 5
INVARIANT AcceptedOnce
CHECK_DEADLOCK FALSE
