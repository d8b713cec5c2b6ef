SPECIFICATION HumanSpec
CONSTANTS
  Frames = 4
  Past = 0
  Future = 1
  ClipSets <- MCClipSets
  KeptSets <- MCKeptSets
  None = None
INVARIANTS
  WordsOfTheClip
CHECK_DEADLOCK FALSE
