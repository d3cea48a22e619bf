SPECIFICATION QFairSpec
CONSTANTS
  NULL = NULL
  Job = {1, 2}
  Worker = {w1}
  MaxAttempts = {2}
  Lease = 1
  Delay <- MCDelay
  ReportTries = 2
  MaxStops = 1
  MaxLate = 1
PROPERTY JobsFinish
