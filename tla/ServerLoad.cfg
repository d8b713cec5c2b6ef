SPECIFICATION MixSpec
CONSTANTS
  a1 = a1
  a2 = a2
  a3 = a3
  r1 = r1
  r2 = r2
  c1 = c1
  c2 = c2
  None = None
  Attempts = {a1, a2, a3}
  Requests = {r1, r2}
  Conns = {c1, c2}
  Types = {"HELLO", "CALL", "INFER", "CLOSE", "MALFORMED"}
  Results = {"ok", "bad"}
  CacheSize = 1
  MaxInflight = 1
  MixedFrames = 2
SYMMETRY
  Symmetry
INVARIANTS
  AtMostOncePerResidence
  SingleFlight
  StopDrains
  AnswersOwnRequest
  OneAnswerPerRequest
  Backpressure
PROPERTIES
  InferPairAtomic
