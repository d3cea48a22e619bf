SPECIFICATION QSpec
CONSTANTS
  NULL = NULL
  Job = {1}
  Worker = {w1, w2}
  MaxAttempts = {1, 2}
  Lease = 1
  Delay <- MCDelay
  ReportTries = 2
  MaxStops = 1
  MaxLate = 1
INVARIANT CompletedByItsLastAttempt
