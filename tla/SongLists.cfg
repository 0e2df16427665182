SPECIFICATION Spec
CONSTANTS
  a = a
  b = b
  w1 = w1
  Entry = Entry
  Song <- MCSong
  List <- MCList
  Worker <- MCWorker
  MaxRequests = 2
  MaxChanges = 2
  MaxFaults = 1
INVARIANTS
  HeldListKnown
  PollsInRange
  ScannedAsQueued
  AppendedListsComplete
PROPERTIES
  KnownJobsArePulled
  ListsCatchUp
CHECK_DEADLOCK FALSE
