SPECIFICATION Spec
CONSTANTS
  i1 = i1
  i2 = i2
  s1 = s1
  s2 = s2
  key = key
  bearer = bearer
  basic = basic
  h1 = h1
  authorization = authorization
  Tasks = {t1, t2, t3}
  Agents = {a1, a2}
  None = None
  Ids = {i1, i2}
  Types = {key, bearer, basic}
  GrantTypes <- MCGrantTypes
  Methods <- MCMethods
  AcceptsJwt = TRUE
  ApiKeyTypes = {key}
  PerCredential = {bearer}
  Headers = {h1, authorization}
  Secrets = {s1, s2}
  Credentials <- MCCredentials
  Requests <- MCRequests
  Selectors <- MCSelectors
  MaxTime = 1
  MaxChanges = 1
SYMMETRY TaskAndAgentSymmetry
INVARIANTS
  TypeOK
  SecretsIdentify
  AuthenticationJustified
  RevokeIsComplete
PROPERTIES
  RevocationIsFinal
CHECK_DEADLOCK FALSE
