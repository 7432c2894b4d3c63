SPECIFICATION FetchSpec
CONSTANTS
  home = home
  away = away
  apiKey = apiKey
  bearer = bearer
  jwt = jwt
  x1 = x1
  x2 = x2
  x3 = x3
  pets = pets
  one = one
  slash = slash
  None = None
  Values = {pets, one, slash}
  Empty = slash
  Schemes = {x1, x2, x3}
  Origins = {home, away}
  Home = home
  Types = {apiKey, bearer}
  Jwt = jwt
  Advertised <- MCAdvertised
  Documents <- MCDocuments
  Path <- MCPath
  Slash = "equivalent"
  MaxRedirects = 3
INVARIANTS
  FetchTypeOK
  SecretsStayHome
  PolicyRespected
PROPERTY
  FetchEnds
CHECK_DEADLOCK FALSE
