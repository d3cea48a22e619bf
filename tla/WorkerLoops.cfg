SPECIFICATION RSpec
\* The unit is 2.5 seconds; the first six are the defaults.
CONSTANTS
  Patience = 6
  HeartbeatInterval = 4
  HeartbeatTimeout = 24
  Lease = 12
  ReportPatience = 8
  Latency = 1
  MissedBeats = 2
  MissedRenewals = 1
  MaxJobs = 1
  MaxResets = 1
INVARIANTS HealthyIsAlive LeaseKept
PROPERTY ForgottenWorkerServes
