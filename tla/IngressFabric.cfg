SPECIFICATION Spec
CONSTANTS
  n1 = n1
  n2 = n2
  e1 = e1
  e2 = e2
  Node = {n1, n2}
  NoNode = NoNode
  Event = {e1, e2}
  JobAttempts = 2
  MaxAttempts = 2
  Batch = 1
  MaxLetters = 1
  Starts <- FiveStarts
INVARIANTS
  TypeOK
  DeliveredOnce
PROPERTIES
  LossIsKnown
  PendingSettles
CHECK_DEADLOCK FALSE
