SPECIFICATION Spec
CONSTANTS
  error = error
  apiKey = apiKey
  custom = custom
  jwt = jwt
  d1 = d1
  d2 = d2
  i1 = i1
  i2 = i2
  k1 = k1
  t1 = t1
  t2 = t2
  t3 = t3
  s1 = s1
  s2 = s2
  Tasks = {t1, t2, t3}
  SessionOf <- MCSessionOf
  Sessions = {s1, s2}
  None = None
  Dids = {d1, d2}
  Existing = TRUE
  StatusToo = TRUE
  Types = {apiKey, custom}
  BuiltIn = {apiKey}
  Methods <- MCMethods
  Jwt = jwt
  Keys = {k1}
  Ids = {i1, i2}
  JobsOf <- MCJobsOf
  Lifetime = 1
  MaxTime = 1
  MaxChanges = 1
SYMMETRY DidSymmetry
INVARIANTS
  TypeOK
  OneIdentity
  RevokeForgets
  AnswersJustified
  HoldersProceed
CHECK_DEADLOCK FALSE
