SPECIFICATION Spec
CONSTANTS
  NumIters = 3
  Accum = 1
  SaveInterval = 2
  EpochSaves = TRUE
  MaxSteps = 8
  MaxLaunches = 3
INVARIANTS
  TrainsInOrder
CHECK_DEADLOCK FALSE
