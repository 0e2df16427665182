SPECIFICATION Spec
CONSTANTS
  r1 = r1
  r2 = r2
  w1 = w1
  w2 = w2
  Range <- MCOneRange
  Worker <- MCWorker
  Cursor <- MCCursor
  Start = 0
  Hazards <- MCAllHazards
  MaxFaults = 2
SYMMETRY Symmetry
INVARIANT
  SuccessMeansDone
CHECK_DEADLOCK FALSE
