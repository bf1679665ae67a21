CONSTANTS
    Id = {1, 2, 3}
    Content = {1, 2}
    Plans <- MCPlans
    MaxFaults = 1
    MaxAttempts = 2
SPECIFICATION FairSpec
CHECK_DEADLOCK FALSE
INVARIANTS
  ChainsKept
  BytesBehindRevisions
  UploadRecoverable
  StatusTold
PROPERTIES
  ReservationsKept
  FilesSettle
