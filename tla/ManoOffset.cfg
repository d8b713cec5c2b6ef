SPECIFICATION DecodeSpec
CONSTANTS
  ChunkRows = 3
  Rms <- Errors
  Tolerance = 30
  GeometryLimits <- ArtifactLimits
INVARIANTS
  OffsetIsObserved
CHECK_DEADLOCK FALSE
