SPECIFICATION Spec
CONSTANTS
  NULL = NULL
  Job = {1}
  Worker = {w1, w2}
  Handler = {h1, h2}
  MaxAttempts = {1, 2}
  LeaseSeconds <- MCLeaseSeconds
  DefaultLease = 1
  MinLease = 2
  MaxLease = 2
  Delay <- MCDelay
  Batch = 1
  MaxTime = 4
SYMMETRY MCWorkersHandlers
INVARIANTS TypeOK JobsConsistent CurrentJobIsHeld AttemptsAccounted AnswersHold ClaimsExclusive
PROPERTIES LeaseProtects FollowsLifecycle
