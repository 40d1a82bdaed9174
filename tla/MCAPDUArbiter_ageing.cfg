SPECIFICATION FairSpec
CONSTANTS
  Ids = {t1, t2, t3}
  Watchers = {}
  Requests <- PriorityRequests
  MaxSessions = 1
  MaxQMITransports = 1
  CounterModulus = 1
  ArrivalSkew = FALSE
PROPERTIES
  AgeingPreventsStarvation
