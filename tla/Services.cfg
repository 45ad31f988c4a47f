CONSTANTS
  Address = {a1}
  NoAddress = NoAddress
  NotGiven = NotGiven
  Applicant = {p1, p2}
  Admin = {d1, d2}
  MaxPools = 3
  Visit = {v1, v2, v3}
  Limit = 1
  LastMinute = 1
  Call = {1, 2}
  MaxConnections = 2
  Caller = {k1, k2}
  BatchSizes = {1, 3}
  MaxClients = 3
  MaxReconnects = 2
  Asking = {q1, q2}
  SupplyTTL = 5
  FallbackLife = 1
  ScanTime = 1
  LastTime = 8
SPECIFICATION Spec
INVARIANTS TypeOK OneActivePool TwiceOnlyByOverlap LimitIsKept AnswersMatch SupplyIsRecent
PROPERTY RequestsEnd
CHECK_DEADLOCK FALSE
