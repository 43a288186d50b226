SPECIFICATION Spec
CONSTANTS
  n1 = n1
  n2 = n2
  Node = {n1, n2}
  s1 = s1
  Session = {s1}
  NoNode = NoNode
  Offset <- OffsetAhead
  Skew = 5
  TTL = 6
  GraceCap = 2
  Teardown = 1
  Latency = 0
  Serial = TRUE
  Prompt = TRUE
  MaxTime = 5
  MaxCalls = 2
INVARIANT EngineExclusive
CHECK_DEADLOCK FALSE
