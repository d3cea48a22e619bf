SPECIFICATION TSpec
CONSTANTS
  NULL = NULL
  Job = {1, 2}
  Worker = {w1, w2}
  Session = {s1, s2}
  MaxAttempts = {2}
  Lease = 0
  Delay <- MCDelay
  Batch = 2
  MaxTime = 1
SYMMETRY MCSymmetry
INVARIANTS NoDeadlock CurrentJobHeld
PROPERTIES LeaseHonored CommitsFollowLifecycle
