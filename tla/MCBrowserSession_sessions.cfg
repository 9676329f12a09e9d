CONSTANTS
  s1 = s1
  s2 = s2
  Sessions = {s1, s2}
  NoSession = NoSession
  MaxRows = 2
  FetchSize = 1
SPECIFICATION LiveSpec
CHECK_DEADLOCK FALSE
INVARIANTS
  TypeOK
  TableEndsWithTheResult
  ObserversMatchRequests
PROPERTIES
  OtherSessionsLeaveThePage
  WaitingEnds
