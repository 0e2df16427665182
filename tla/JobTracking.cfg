SPECIFICATION Spec
CONSTANTS
  r1 = r1
  r2 = r2
  w1 = w1
  w2 = w2
  Range <- MCRange
  Worker <- MCWorker
  Cursor <- MCCursor
  Start = 0
  Hazards <- MCCrashes
  MaxFaults = 2
INVARIANTS
  SuccessMeansDone
PROPERTIES
  KeepsPromise
  AcceptedJobsSettle
CHECK_DEADLOCK FALSE
