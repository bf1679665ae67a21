SPECIFICATION Spec
CONSTANTS
  Job = {1, 2, 3, 4}
  Recurring = {}
  Unregistered = {4}
  KeyOf <- PairedKeys
  BucketOf <- OneBucket
  NoBucket = "system"
  Lane = {1, 2}
  Process = {"p", "q"}
  ProcessOf <- SharedProcess
  NoProcess = "none"
  Limit = 1
  MaxAttempts = 2
CHECK_DEADLOCK FALSE
INVARIANTS
  IndInv
  EffectsOnce
  BoundedOvershoot
