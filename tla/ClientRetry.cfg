SPECIFICATION Spec
CONSTANTS
  r1 = r1
  r2 = r2
  c1 = c1
  c2 = c2
  c3 = c3
  None = None
  Requests = {r1, r2}
  Conns = {c1, c2, c3}
  MaxAttempts = 2
  MaxEpoch = 2
SYMMETRY Symmetry
INVARIANTS
  OneServer
  AtMostTwoCopies
  OwnAnswer
  NoLeak
PROPERTIES
  TimeoutIsFinal
  SilentAfterClose
CHECK_DEADLOCK FALSE
