CONSTANTS
  Day = 2
  None = None
  Countries = {1, 2}
  Start = 2
  MaxDate = 6
  Tries = 2
  MaxDeeds = 1
  Configs <- MCConfigs
SPECIFICATION Spec
INVARIANTS
  RecordsAccepted
  WatchIsKept
PROPERTIES
  EndIsTrue
  BenchmarkEnds
CHECK_DEADLOCK FALSE
