SPECIFICATION Spec
CONSTANTS
  t1 = t1
  t2 = t2
  p1 = p1
  p2 = p2
  None = None
  Readers = {t1, t2}
  LockOf <- MCProviderOf
  ProviderOf <- MCProviderOf
  Calls <- MCCalls
  Timed <- MCTimed
  Controls <- MCControls
  Expiries <- MCExpiries
  Default = 2
  MaxTime = 2
  MaxVersion = 1
  Keys = {k1, k2}
  Contexts = {}
  Resolves = TRUE
  MaxStages = 2
  MaxChanges = 1
INVARIANTS
  TypeOK
  ServedFresh
  
CHECK_DEADLOCK FALSE
