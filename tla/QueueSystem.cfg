SPECIFICATION QSpec
CONSTANTS
  NULL = NULL
  Job = {1}
  Worker = {w1, w2}
  MaxAttempts = {1, 2}
  Lease = 1
  Delay <- MCDelay
  ReportTries = 4
  MaxStops = 2
  MaxLate = 2
SYMMETRY MCWorkers
INVARIANTS QTypeOK CompletedJobSucceeded StartsBounded OneProcessPerAttempt
PROPERTY ExecutionProtected
