SPECIFICATION BSpec
CONSTANTS
  BaseSeconds = {0, 1, 3, 5, 60, 300, 3600, 86400}
  MaxSeconds = {0, 1, 60, 300, 3600, 86400, 2592000}
  Attempts = 100
INVARIANT DelayIsCappedDoubling
CHECK_DEADLOCK FALSE
