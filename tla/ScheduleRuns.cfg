SPECIFICATION FairSpec
CONSTANTS
  s = s
  t1 = t1
  t2 = t2
  Schedule = {s}
  Once = {}
  MaxFires = 2
  Task = {t1, t2}
  MaxAttempts = 2
CHECK_DEADLOCK FALSE
INVARIANTS
  IndInv
PROPERTIES
  OverIsFinal
  EveryFireServed
