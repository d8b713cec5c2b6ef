SPECIFICATION TrainingSpec
CONSTANTS
  r0 = r0
  r1 = r1
  None = None
  Ranks = {r0, r1}
  Zero = r0
  MaxSave = 3
  Launchers = {"train.sh", "train.py"}
  MaxRuns = 3
  MaxFaults = 2
  EpochIters = 10
  Accum = 2
  SaveInterval = 2
  EpochSaves = FALSE
  MaxSteps = 6
  MaxLaunches = 4
  Length <- MCLength
  SampleSize <- MCSampleSize
  BatchSize = 2
  Replicas = 2
  MaxEpoch = 3
  Types = {"backbone-freeze-warmup", "constant", "warmup_constant", "warmup_cosine"}
  Warmup = 3
  Base = 12
  FileSets <- MCFileSets
  Damages <- MCDamages
  RobotPast = 1
  RobotFuture = 2
  ImagePast = 1
  ImageFuture = 0
  MaxOpen = 2
  Trainer = trainer
  Worker = worker
  trainer = trainer
  worker = worker
  VideoFrames = 4
  HumanPast = 0
  HumanFuture = 1
  ClipSets <- MCClipSets
  KeptSets <- MCKeptSets
  CodecRecordings <- MCCodecRecordings
  Tables <- MCTables
  Mount <- MCMount
  Official <- MCOfficial
  Places = {0, 1, 2}
  ChunkFuture = 1
  Recordings <- MCRecordings
  Expected = 2
  MaxStarts = 2
INVARIANTS
  PairMatches
  FinishedVerifies
  ServedIsWhole
  TrainsInOrder
  EpochsAreShared
  RatesFollow
  RobotSamplesAreRight
  HumanSamplesAreRight
  ActionsReturn
  DataIsConsistent
PROPERTIES
  SavesAtomically
  LeaveTogether
CHECK_DEADLOCK FALSE
