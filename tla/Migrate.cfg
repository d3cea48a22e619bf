SPECIFICATION MSpec
CONSTANTS
  Server = {s1, s2, s3}
  Migrations = 2
  MaxFailures = 2
INVARIANTS MTypeOK SchemaInOrder ServesOnFullSchema
PROPERTY EveryServerServes
CHECK_DEADLOCK FALSE
