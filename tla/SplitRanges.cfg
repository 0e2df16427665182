SPECIFICATION Spec
CONSTANTS
  MaxSongs = 5
  MaxWeight = 3
  MaxAccounts = 2
  JobsPerAccount = 2
  MaxUsize = 15
INVARIANTS
  RangesPartition
  AtMostCount
  BoundIsLeast
PROPERTY SplitEnds
CHECK_DEADLOCK FALSE
