SPECIFICATION RSpec
\* The unit is 2.5 seconds; the first six are the defaults.
CONSTANTS
  Patience = 6
  HeartbeatInterval = 4
  HeartbeatTimeout = 24
  Lease = 12
  ReportPatience = 8
  Latency = 1
  MissedBeats = 0
  MissedRenewals = 2
  MaxJobs = 1
  MaxResets = 0
INVARIANT TwoRenewalsCanFail
