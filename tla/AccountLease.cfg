SPECIFICATION Spec
CONSTANTS
  w1 = w1
  w2 = w2
  a1 = a1
  a2 = a2
  None = None
  Worker <- MCWorker
  Account <- MCOneAccount
  LeaseTime = 2
  MaxRate = 1
  MaxFaults = 1
  Ctl = TRUE
INVARIANTS
  SoleUser
  SharedOnlyWhenLeaving
PROPERTY AccountsComeBack
CHECK_DEADLOCK FALSE
