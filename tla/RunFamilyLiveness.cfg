SPECIFICATION FairSpec
CONSTANTS
  Root = root
  Child = {c1}
  Owner = {1, 2, 3}
  Batch = {1, 2}
  NoOwner = 0
  NoBatch = 0
CHECK_DEADLOCK FALSE
PROPERTIES
  NothingHangs
