SPECIFICATION Spec
CONSTANTS
  j1 = j1
  j2 = j2
  j3 = j3
  j4 = j4
  q1 = q1
  q2 = q2
  f1 = f1
  f2 = f2
  Job <- MCJob
  Queue <- MCQueue
  Friend <- MCFriend
  QueueOf <- MCQueueOf
  FriendOf <- MCFriendOf
  SegStart <- MCSegStart
  SegEnd <- MCSegEnd
  NumSongs = 3
  MaxJobs = 2
  MaxFaults = 2
INVARIANTS
  HeldInSegment
  HeldBounded
  FinishedIsComplete
  LossBounded
  PendingIsFriendUnlessOrphaned
  FriendsInUse
PROPERTY EveryJobCleaned
CHECK_DEADLOCK FALSE
