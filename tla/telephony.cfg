SPECIFICATION Spec
CONSTANTS
  Messages = {"m1"}
  Sockets = {"s1", "s2"}
  Requests = {"r1"}
  Tenants = {"t1", "t2"}
  MaxOpens = 2
  InFlight = 1
  Flows <- FourFlows
  Users <- TwoUsers
  Times <- FewTimes
  MaxEdits = 2
  MaxRung = 6
  RowFails = TRUE
  Last = 1
  Recorded <- OneWay
INVARIANTS TypeOK DeliveredHasTime CreditedToAnswerer
PROPERTIES AbsentGoesOffline ImplementsJourney ProcessingEnds
CHECK_DEADLOCK FALSE
