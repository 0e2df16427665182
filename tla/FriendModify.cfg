SPECIFICATION Spec
CONSTANTS
  f1 = f1
  f2 = f2
  f3 = f3
  None = None
  Friend <- MCFriend
  Existing <- MCExisting
  Capacity = 2
  MaxJobs = 2
  MaxRetries = 2
  MaxEndure = 1
  MaxGlitches = 3
  MaxLosses = 1
  MaxRefusals = 1
INVARIANTS
  NeverPanics
  CacheIsExact
  RightFriend
  
PROPERTIES
  CallsReturn
  
CHECK_DEADLOCK FALSE
