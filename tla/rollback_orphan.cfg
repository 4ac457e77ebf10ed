SPECIFICATION FairSpec
CONSTANTS
  Db = db
  Web = web
  Service = {db, web}
  DependsOn <- WebNeedsDb
  MaxAttempts = 2
  MaxFaults = 1
PROPERTY CleanupCompletes
CHECK_DEADLOCK FALSE
