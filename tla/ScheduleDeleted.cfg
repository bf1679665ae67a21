SPECIFICATION FairSpec
CONSTANTS
  r = r
  s = s
  t1 = t1
  Schedule = {r, s}
  Once = {r, s}
  MaxFires = 1
  Task = {t1}
  MaxAttempts = 1
CHECK_DEADLOCK FALSE
PROPERTIES
  DueIsClaimed
