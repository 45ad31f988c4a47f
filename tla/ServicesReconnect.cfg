CONSTANTS
  Address = {a1}
  NoAddress = NoAddress
  NotGiven = NotGiven
  Applicant = {p1}
  Admin = {d1}
  MaxPools = 1
  Visit = {v1, v2}
  Limit = 1
  LastMinute = 1
  Call = {1, 2, 3}
  MaxConnections = 3
  Caller = {k1, k2}
  BatchSizes = {1}
  MaxClients = 3
  MaxReconnects = 2
  Asking = {q1}
  SupplyTTL = 5
  FallbackLife = 1
  ScanTime = 1
  LastTime = 2
SPECIFICATION Spec
INVARIANT OneConnection
CHECK_DEADLOCK FALSE
