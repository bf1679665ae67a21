SPECIFICATION Spec
CONSTANTS
  t1 = t1
  t2 = t2
  t3 = t3
  r1 = r1
  r2 = r2
  r3 = r3
  Turn = {t1, t2, t3}
  MaxTurns = 1
  Run = {r1, r2, r3}
  RunOf <- Single
SYMMETRY Symmetry
CHECK_DEADLOCK FALSE
INVARIANTS
  QueuedAboveLimit
