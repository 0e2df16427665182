---------------------------- MODULE MCWorkerScan ----------------------------
(* A worker with room for two of four jobs: two pairs share a friend, three  *)
(* have a segment of two songs, the fourth an empty (info-only) segment.     *)
EXTENDS WorkerScan, TLC

CONSTANTS j1, j2, j3, j4, q1, q2, f1, f2

MCJob == {j1, j2, j3, j4}
MCQueue == {q1, q2}
MCFriend == {f1, f2}
MCQueueOf == j1 :> q1 @@ j2 :> q1 @@ j3 :> q1 @@ j4 :> q2
MCFriendOf == j1 :> f1 @@ j2 :> f2 @@ j3 :> f1 @@ j4 :> f2
MCSegStart == q1 :> 1 @@ q2 :> 0
MCSegEnd == q1 :> 3 @@ q2 :> 0
=============================================================================
