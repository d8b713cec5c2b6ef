SPECIFICATION Spec
CONSTANTS
  Types = {"backbone-freeze-warmup"}
  Warmup = 2
  Base = 12
  MaxSteps = 6
  SaveInterval = 2
  MaxLaunches = 2
INVARIANTS
  ScheduleResumes
CHECK_DEADLOCK FALSE
