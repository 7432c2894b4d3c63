SPECIFICATION Spec
CONSTANTS
  t1 = t1
  t2 = t2
  t3 = t3
  g = g
  h = h
  k = k
  k2 = k2
  g1 = g1
  g2 = g2
  h1 = h1
  r1 = r1
  e1 = e1
  s1 = s1
  a1 = a1
  a2 = a2
  Tasks = {t1, t2, t3}
  None = None
  Ambiguous = Ambiguous
  Agents = {g, h}
  Keys = {k, k2}
  Assertions = {g1, g2, h1, r1, e1, s1, a1, a2}
  ClaimsOf <- MCClaimsOf
  Valid = {g1, g2, h1, r1, e1, s1, a1, a2}
  Malformed = {"malformed"}
  Jwt = "aep-jwt"
  Limits <- MCLimits
  Options <- MCOptions
  WithinLimits <- ClaimsWithinLimits
  Contents <- MCContents
  Etag = "etag"
  Asks <- MCAsks
  MaxChanges = 1
INVARIANTS
  TypeOK
  
  
CHECK_DEADLOCK FALSE
