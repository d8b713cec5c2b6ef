SPECIFICATION HungModelSpec
CONSTANTS
  a1 = a1
  a2 = a2
  r1 = r1
  r2 = r2
  c1 = c1
  None = None
  Attempts = {a1, a2}
  Requests = {r1, r2}
  Conns = {c1}
  Types = {"CALL"}
  Results = {"ok"}
  CacheSize = 2
  MaxInflight = 1
PROPERTIES
  StopReturns
