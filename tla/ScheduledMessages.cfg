SPECIFICATION Spec
CONSTANTS
  n1 = n1
  n2 = n2
  m1 = m1
  m2 = m2
  Node = {n1, n2}
  NoNode = NoNode
  Message = {m1, m2}
  Created = {m1}
  Take = 1
  MaxRequests = 1
  MaxTroubles = 1
INVARIANTS
  TypeOK
  ResendIsExcused
  SeriesDoesNotFork
  SeriesContinues
PROPERTIES
  SentStays
  DueSettles
CHECK_DEADLOCK FALSE
