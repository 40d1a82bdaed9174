SPECIFICATION Spec
CONSTANTS
  Ids = {t1, t2, t3}
  Watchers = {w1}
  Requests <- AllRequests
  MaxSessions = 2
  MaxQMITransports = 2
  CounterModulus = 2
  ArrivalSkew = TRUE
INVARIANTS
  TypeOK
  CardExclusion
  BarrierExcludes
  TicketsAccountedFor
  NobodySleepsInVain
PROPERTIES
  NothingPassesAWaitingBarrier
SYMMETRY IdSymmetry
