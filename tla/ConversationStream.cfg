SPECIFICATION FairSpec
CONSTANTS
  MaxRuns = 1
  MaxRevisions = 2
  MaxEvents = 3
  QueueSize = 2
  MaxFaults = 1
CHECK_DEADLOCK FALSE
INVARIANTS
  ShownIsSaved
PROPERTIES
  GapFree
  AnswersShownRequests
  TabCatchesUp
