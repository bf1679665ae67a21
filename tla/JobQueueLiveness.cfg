SPECIFICATION OnceSpec
CONSTANTS
  Job = {1, 2, 3}
  Recurring = {2, 3}
  Unregistered = {}
  KeyOf <- DistinctKeys
  BucketOf <- OneBucket
  NoBucket = "system"
  Lane = {1, 2}
  Process = {"p", "q"}
  ProcessOf <- OwnProcess
  NoProcess = "none"
  Limit = 1
  MaxAttempts = 2
CHECK_DEADLOCK FALSE
PROPERTIES
  OwnAttemptOnly
  SweepsKeepRunning
  EveryJobEnds
