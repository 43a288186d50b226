SPECIFICATION Spec
CONSTANTS
  n1 = n1
  n2 = n2
  d1 = d1
  d2 = d2
  d3 = d3
  Node = {n1}
  Delivery = {d1}
  NoNode = NoNode
  NoDelivery = NoDelivery
  JobId = {1}
  Configs <- ThreeFaults
  MaxActive = 1
  MaxQueued = 1
  Reconcile = TRUE
  GraceCovers = TRUE
  Batch = 1
  DrainPatient = TRUE
  StoreFails = FALSE
INVARIANTS
  FailedIsReported
CHECK_DEADLOCK FALSE
