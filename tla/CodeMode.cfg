CONSTANTS
    Outer = {1, 2}
    Programs <- MCPrograms
    MaxSteps = 8
    MaxCalls = 3
SPECIFICATION FairSpec
CHECK_DEADLOCK FALSE
INVARIANTS
  IndInv
  RedraftSafe
PROPERTIES
  ConsentPerCall
  ScriptsEnd
