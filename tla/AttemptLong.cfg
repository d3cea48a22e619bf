SPECIFICATION ASpec
CONSTANTS
  NULL = NULL
  Self = Self
  MaxOutputBytes = 4
  MaxResultBytes = 4
  MaxRequestBytes = 32
  Envelope = 1
  Chunks <- MCChunks
  MaxWrites = 2
  MaxFaults = 3
  ReportTries = 4
INVARIANT LongOutputIsTruncated
CHECK_DEADLOCK FALSE
