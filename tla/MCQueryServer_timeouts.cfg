CONSTANTS
  w1 = w1
  w2 = w2
  c1 = c1
  c2 = c2
  h1 = h1
  Workers = {w1}
  WebSockets = {c1}
  Https = {h1}
  NoWorker = NoWorker
  NoClient = NoClient
  QueryTimeout = 1
  LastTick = 0
  MaxRequests = 3
  MaxInFlight = 1
SPECIFICATION LiveSpec
CHECK_DEADLOCK FALSE
INVARIANTS
  TypeOK
  PullsUseTheirContext
PROPERTIES
  InterruptedForCause
  ExpiredQueriesEnd
  HungUpSessionsEnd
