SPECIFICATION WatchdogSpec
CONSTANTS
  Ids = {t1, t2, t3}
  Watchers = {}
  Requests <- EUICCRequests
  MaxSessions = 1
  MaxQMITransports = 2
  CounterModulus = 1
  ArrivalSkew = FALSE
PROPERTIES
  EveryWaiterIsServed
  StuckHolderIsEvicted
