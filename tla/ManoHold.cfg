SPECIFICATION DecodeSpec
CONSTANTS
  ChunkRows = 3
  Rms <- Errors
  Tolerance = 30
  GeometryLimits <- ArtifactLimits
INVARIANTS
  OnlyFallbackHolds
CHECK_DEADLOCK FALSE
