SPECIFICATION FairSpec
CONSTANTS
  n1 = n1
  n2 = n2
  d1 = d1
  d2 = d2
  d3 = d3
  Node = {n1, n2}
  Delivery = {d1}
  NoNode = NoNode
  NoDelivery = NoDelivery
  JobId = {1, 2}
  Configs <- DirectAndQueued
  MaxActive = 1
  MaxQueued = 1
  Reconcile = TRUE
  GraceCovers = FALSE
  Batch = 1
  DrainPatient = TRUE
  StoreFails = FALSE
INVARIANTS
  DispatchedIsAccounted
  FailedIsAccounted
PROPERTIES
  ImplementsOutbox
  Settles
  AccountedIsStable
  QueueDrains
CHECK_DEADLOCK FALSE
