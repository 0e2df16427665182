SPECIFICATION Spec
CONSTANTS
  j1 = j1
  j2 = j2
  j3 = j3
  j4 = j4
  q1 = q1
  q2 = q2
  f1 = f1
  f2 = f2
  Job <- MCJob
  Queue <- MCQueue
  Friend <- MCFriend
  QueueOf <- MCQueueOf
  FriendOf <- MCFriendOf
  SegStart <- MCSegStart
  SegEnd <- MCSegEnd
  NumSongs = 3
  MaxJobs = 3
  MaxFaults = 2
INVARIANT
  PendingIsFriend
CHECK_DEADLOCK FALSE
