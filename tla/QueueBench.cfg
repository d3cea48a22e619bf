SPECIFICATION BSpec
CONSTANTS
  NULL = NULL
  Job = {1, 2, 3, 4}
  Worker = {w1}
  Levels <- MCLevels
  Backlog = 1
  Samples = 1
  Page = 1
  DefaultAttempts = 2
  MaxFaults = 1
  MaxForeign = 1
INVARIANTS NoFalseAlarm QueueIsPutBack OnlyFaultsFail DrainIsSound
PROPERTY BenchEnds
CHECK_DEADLOCK FALSE
