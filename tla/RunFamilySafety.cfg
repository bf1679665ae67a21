SPECIFICATION Spec
CONSTANTS
  Root = root
  Child = {c1, c2}
  Owner = {1, 2, 3, 4}
  Batch = {1, 2, 3}
  NoOwner = 0
  NoBatch = 0
CONSTRAINT InOrder
SYMMETRY ChildSymmetry
CHECK_DEADLOCK FALSE
INVARIANTS
  IndInv
  ExecutedOnce
  StagedContentOwned
PROPERTIES
  RefinesLifecycle
  GrantsAuthorised
  VerdictAuthoritative
  OutcomeTold
  StaleOwnerHarmless
  QueuedChildrenProtected
