SPECIFICATION Spec
CONSTANTS
  n1 = n1
  n2 = n2
  b1 = b1
  b2 = b2
  Node = {n1, n2}
  NoNode = NoNode
  Batch = {b1}
  Schedules = {"none", "later"}
  Total = 2
  Cadence = 1
  Take = 1
  MaxOthers = 1
  MaxInFlight = 1
  MaxFaults = 1
INVARIANTS
  TypeOK
  ReservationsCover
  SentOnce
  LateSendsBounded
  CompletedIsExact
CHECK_DEADLOCK FALSE
PROPERTIES
  CancelledStays
  DueStarts
