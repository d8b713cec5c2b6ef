SPECIFICATION ServingSpec
CONSTANTS
  Envs = {e1, e2, e3}
  MaxTick = 8
  Chunk = 4
  None = None
  \* A session called in any order.
  SessionEnvs = {s1, s2}
  SessionTicks = 4
  \* Two rows, two retries; an error of 2 is a poor fit, 3 is not a number.
  HandEnvs = {0, 1}
  HandRows = 2
  Starts = 2
  Gate = 1
  MaxRms = 2
  MaxFrames = 5
  HandModes = {"geometric", "linear_fallback", "linear_direct"}
  \* The limits of the codec and of the artifacts that were fitted, in mm.
  ChunkRows = 3
  Rms = {10, 20, 50, 90}
  Tolerance = 30
  GeometryLimits = {15, 80}
  NCalls = 3
  MaxAttempts = 2
  MaxLosses = 3
  Failing = {2}
  Ports = {1, 2}
  NoPort = 0
  WaitTimeout = 2
  Episodes = 2
  Representations = {"mano45"}
  Steps = {1, 2}
  Contents = {c1, c2}
  MaxChanges = 4
  Sizes = {"384x384", "1280x720", "640x480"}
  Allowed = {"384x384", "1280x720"}
  PolicySize = "384x384"
  MaxFits = 2
  MaxRuns = 2
INVARIANTS
  QueriesEvenTicks
  ActsInStep
  RebasesOwnCommand
  SessionFollowsTicks
  HandsTransactional
  ChunksDecodeWhole
  LegacyCallsAnswered
  LaunchIsClean
  InputsAreConsistent
  InverseFits
SYMMETRY Symmetry
CHECK_DEADLOCK FALSE
