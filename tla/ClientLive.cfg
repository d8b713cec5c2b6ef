SPECIFICATION FairSpec
CONSTANTS
  r1 = r1
  c1 = c1
  c2 = c2
  None = None
  Requests = {r1}
  Conns = {c1, c2}
  MaxAttempts = 2
  MaxEpoch = 1
PROPERTIES
  CallEnds
  CloseEnds
CHECK_DEADLOCK FALSE
