SPECIFICATION FairSpec
CONSTANTS
  Job = {1, 2}
  Heavy = {1, 2}
  Workers = 2
  Gpus = 1
  Pending = 2
  MaxTries = 2
  Watched = {1}
  MaxRequests = 2
  MaxFailures = 2
  MaxRestarts = 1
CHECK_DEADLOCK FALSE
INVARIANTS
  CancelIsHonoured
PROPERTIES
  EndedStaysEnded
  JobsSettle
  DeletionCompletes
