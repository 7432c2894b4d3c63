SPECIFICATION FairSpec
CONSTANTS
  c1 = c1
  c2 = c2
  d1 = d1
  d2 = d2
  unknown = unknown
  Tasks = {t1, t2, t3}
  Agents = {a1}
  None = None
  ClaimNames = {c1, c2, unknown}
  DocumentIds = {d1, d2, unknown}
  Documents = {d1, d2}
  RequiredDocs = {d1}
  AdvertisedClaims = {c1, c2}
  RequiredClaims = {c1}
  DocumentsSupported = TRUE
  Decisions <- MCDecisions
  Requests <- MCRequests
  MaxSaves = 1
INVARIANTS
  TypeOK
  SoleFactory
  RecordsSound
PROPERTIES
  OneEnrollment
  UndisturbedMerge
  EveryEnrollEnds
CHECK_DEADLOCK FALSE
