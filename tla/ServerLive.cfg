SPECIFICATION HungModelSpec
CONSTANTS
  None = None
  c1 = c1
  r1 = r1
  r2 = r2
  a1 = a1
  a2 = a2
  Attempts = {a1, a2}
  Requests = {r1, r2}
  Conns = {c1}
  Types = {"CALL", "CLOSE", "INFER", "MALFORMED"}
  Results = {"ok", "bad"}
  CacheSize = 1
  MaxInflight = 2
PROPERTIES
  AnsweredUnlessHung
  HandlerEnds
  StopReturns
