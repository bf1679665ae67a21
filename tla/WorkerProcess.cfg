SPECIFICATION LoopSpec
CONSTANTS
  i1 = i1
  i2 = i2
  i3 = i3
  None = None
  Item = {i1, i2, i3}
  KindOf <- Kinds
  MadeBy <- Mixed
  Slots = 1
  Lane = {1, 2}
  BatchSize = 2
  MaxFaults = 1
CHECK_DEADLOCK FALSE
INVARIANTS
  WithinLimits
  NothingLeftBehind
PROPERTIES
  ProcessEnds
