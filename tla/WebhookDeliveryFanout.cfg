SPECIFICATION Spec
CONSTANTS
  n1 = n1
  n2 = n2
  d1 = d1
  d2 = d2
  d3 = d3
  Node = {n1}
  Delivery = {d1, d2, d3}
  NoNode = NoNode
  NoDelivery = NoDelivery
  JobId = {1}
  Configs <- OneProcess
  MaxActive = 1
  MaxQueued = 1
  Reconcile = TRUE
  GraceCovers = TRUE
  Batch = 2
  DrainPatient = TRUE
  StoreFails = TRUE
SYMMETRY DeliverySymmetry
INVARIANTS
  TypeOK
  SlotsAreRuns
PROPERTIES
  ShutdownIsClean
CHECK_DEADLOCK FALSE
