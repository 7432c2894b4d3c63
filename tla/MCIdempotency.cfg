SPECIFICATION FairSpec
CONSTANTS
  Tasks = {t1, t2, t3}
  Keys = {k1, k2}
  Requests = {r1, r2}
  None = None
  Retention = 1
  MaxTime = 3
INVARIANTS
  TypeOK
  SingleFlight
  OncePerRetention
  AnswersJustified
PROPERTIES
  Implements
  EveryCallReturns
CHECK_DEADLOCK FALSE
