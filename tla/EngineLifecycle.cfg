SPECIFICATION Spec
CONSTANTS
  e1 = e1
  e2 = e2
  a1 = a1
  c1 = c1
  c2 = c2
  Engine = {e1, e2}
  NoEngine = NoEngine
  Attempt = {a1}
  Control = {c1, c2}
  MaxAttempts = 1
SYMMETRY Symmetry
CONSTRAINT NotOvertaken
INVARIANTS
  TypeOK
  NoOrphan
  DropIsPending
  StoppedIsDown
  FailedIsStartable
  LeaseCovers
  HealthyIsKept
CHECK_DEADLOCK FALSE

