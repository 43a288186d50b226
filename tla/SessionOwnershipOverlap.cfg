SPECIFICATION Spec
CONSTANTS
  n1 = n1
  n2 = n2
  Node = {n1, n2}
  s1 = s1
  Session = {s1}
  NoNode = NoNode
  Offset <- OffsetNone
  Skew = 0
  TTL = 3
  GraceCap = 4
  Teardown = 1
  Latency = 0
  Serial = FALSE
  Prompt = TRUE
  MaxTime = 5
  MaxCalls = 2
INVARIANT LiveIsClaimed
CHECK_DEADLOCK FALSE
