CONSTANTS
  error = error
  Tasks = {t1, t2, t3}
  None = None
  p1 = p1
  p2 = p2
  s1 = s1
  s2 = s2
  i1 = i1
  i2 = i2
  d1 = d1
  d2 = d2
  k1 = k1
  k2 = k2
  j1 = j1
  Principals = {p1, p2}
  Services = {s1, s2}
  Ids = {i1, i2}
  Dids = {d1, d2}
  Keys = {k1, k2}
  Jtis = {j1}
  Materials <- MCMaterials
  Forged <- MCForged
  Lifetimes = {2, 3}
  Requests <- MCRequests
  Provisioned <- MCProvisioned
  MaximumLifetime = 2
  Retention = 1
  MaxTime = 2
SYMMETRY TaskSymmetry
SPECIFICATION Spec
CHECK_DEADLOCK FALSE
INVARIANTS
  TypeOK
  IdentitiesComplete
  AnswersJustified
  VerifiedOnce
  HoldersProceed
PROPERTY
  IdentityStands
