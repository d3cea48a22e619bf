SPECIFICATION ASpec
CONSTANTS
  NULL = NULL
  Self = Self
  MaxOutputBytes = 4
  MaxResultBytes = 4
  MaxRequestBytes = 32
  Envelope = 1
  Chunks <- MCChunks
  MaxWrites = 2
  MaxFaults = 3
  ReportTries = 4
INVARIANTS NothingCutSilently CompletedMeansFinished TextIsRecorded
PROPERTY AttemptEnds
CHECK_DEADLOCK FALSE
