-------------------------- MODULE WorkerScanProofs --------------------------
(***************************************************************************)
(* Proofs about WorkerScan, for any set of jobs and sub-queues, any song   *)
(* list and any number of aborted iterations.                              *)
(***************************************************************************)
EXTENDS WorkerScan, FiniteSetTheorems, TLAPS

----------------------------------------------------------------------------
(* Types *)

LEMMA TypeInit == Init => TypeOK
  BY ConstantsAssumption DEF Init, TypeOK, Phase, JobState, Song

LEMMA TypeNext == TypeOK /\ [Next]_vars => TypeOK'
<1> SUFFICES ASSUME TypeOK, [Next]_vars PROVE TypeOK'
  OBVIOUS
<1> USE ConstantsAssumption DEF TypeOK
<1>1. ASSUME NEW q \in Queue, NEW new \in SUBSET Available(q), Pull(q, new)
      PROVE TypeOK'
  BY <1>1 DEF Pull, Take, Discover, TopUp, Receive, iterVars, history, Phase, JobState
<1>2. ASSUME NEW q \in Queue, NEW new \in SUBSET Available(q),
             NEW pushed \in SUBSET new, PullAborts(q, new, pushed)
      PROVE TypeOK'
  BY <1>2 DEF PullAborts, Take, Discover, TopUp, Receive, Abort, iterVars, history,
              Phase, JobState
<1>3. ASSUME NEW j \in Job,
             ReuseFriend(j) \/ AddFriend(j) \/ AddFriendFails(j) \/ PushFriendAborts(j)
      PROVE TypeOK'
  BY <1>3 DEF ReuseFriend, AddFriend, AddFriendFails, PushFriendAborts, Resolving,
              StartPending, Abort, jobVars, iterVars, Phase, JobState
<1>4. ASSUME FriendsReady \/ AbortsBeforeCounting PROVE TypeOK'
  BY <1>4 DEF FriendsReady, AbortsBeforeCounting, Abort, jobVars, iterVars, history,
              Phase
<1>5. ASSUME Gather PROVE TypeOK'
  <2>1. state' \in [Job -> JobState]
    BY <1>5 DEF Gather, JobState
  <2>2. currentLength' \in [Job -> Nat] /\ missed' \in [Job -> Nat]
    BY <1>5 DEF Gather
  <2>3. counted' \in SUBSET Job /\ phase' \in Phase
    BY <1>5 DEF Gather, In, Phase
  <2>4. QED
    BY <1>5, <2>1, <2>2, <2>3 DEF Gather
<1>6. ASSUME NEW jobs \in SUBSET Job, PushScores(jobs)
      PROVE written' \in [Job -> [Song -> Nat]]
  BY <1>6 DEF PushScores
<1>7. ASSUME WriteResults PROVE TypeOK'
  <2>1. written' \in [Job -> [Song -> Nat]]
    BY <1>6, <1>7 DEF WriteResults
  <2>2. QED
    BY <1>7, <2>1 DEF WriteResults, jobVars, iterVars, Phase
<1>8. ASSUME NEW done \in SUBSET counted, WriteAborts(done) PROVE TypeOK'
  <2>1. written' \in [Job -> [Song -> Nat]]
    BY <1>6, <1>8 DEF WriteAborts
  <2>2. missed' \in [Job -> Nat]
    BY <1>8 DEF WriteAborts, MissIteration
  <2>3. QED
    BY <1>8, <2>1, <2>2 DEF WriteAborts, MissIteration, Abort, jobVars, Phase
<1>9. ASSUME NEW j \in Job,
             Retire(j) \/ RetireAndRemove(j) \/ RemoveFails(j) \/ TagFails(j)
      PROVE TypeOK'
  BY <1>9 DEF Retire, RetireAndRemove, RemoveFails, TagFails, Visiting, JobState
<1>10. ASSUME CleanAborts PROVE TypeOK'
  BY <1>10 DEF CleanAborts, MissIteration, Abort, jobVars, Phase
<1>11. ASSUME EndIteration PROVE TypeOK'
  BY <1>11 DEF EndIteration, AdvanceCursor, history, Phase, JobState
<1>12. ASSUME Restart PROVE TypeOK'
  BY <1>12 DEF Restart, Abort, iterVars, Phase, JobState
<1>13. CASE UNCHANGED vars
  BY <1>13 DEF vars, jobVars, iterVars, history
<1>14. QED
  BY <1>1, <1>2, <1>3, <1>4, <1>5, <1>7, <1>8, <1>9, <1>10, <1>11, <1>12, <1>13
  DEF Next, Step, Fault

\* Every variable keeps its type, in every behaviour of the worker.
THEOREM TypeCorrect == Spec => []TypeOK
  BY TypeInit, TypeNext, PTL DEF Spec

----------------------------------------------------------------------------
(* The iteration: what its phase says of the jobs and of the bookkeeping *)

InSegment ==
  SegStart[queue] <= cursor /\ (cursor < SegEnd[queue] \/ cursor = SegStart[queue])

\* Between counting and the end of the iteration every job being polled has
\* been counted; before, none; no job is Pulled once the friends are ready.
IterationInv ==
  /\ \A j \in Job : j \in Held => QueueOf[j] = queue /\ InSegment
  /\ phase \in {"pull", "add", "gather"} => counted = {}
  /\ phase # "clean" => visited = {} /\ deleted = {}
  /\ phase \in {"gather", "write", "clean"} => \A j \in Job : state[j] # "Pulled"
  /\ phase \in {"write", "clean"} =>
       \A j \in Job : state[j] = "Pending" => j \in counted
  /\ \A j \in counted : state[j] \in {"Pending", "Finished", "Unremoved"}

LEMMA IterationInit == Init => IterationInv
  BY DEF Init, IterationInv, Held

LEMMA IterationNext == TypeOK /\ IterationInv /\ [Next]_vars => IterationInv'
<1> SUFFICES ASSUME TypeOK, IterationInv, [Next]_vars PROVE IterationInv'
  OBVIOUS
<1> USE ConstantsAssumption DEF TypeOK, IterationInv, Held, InSegment
<1>1. ASSUME NEW q \in Queue, NEW new \in SUBSET Available(q), Pull(q, new)
      PROVE IterationInv'
  BY <1>1 DEF Pull, Take, Discover, TopUp, Receive, Available, In, iterVars
<1>2. ASSUME NEW q \in Queue, NEW new \in SUBSET Available(q),
             NEW pushed \in SUBSET new, PullAborts(q, new, pushed)
      PROVE IterationInv'
  BY <1>2 DEF PullAborts, Take, Discover, TopUp, Receive, Available, In, Abort, iterVars
<1>3. ASSUME NEW j \in Job,
             ReuseFriend(j) \/ AddFriend(j) \/ AddFriendFails(j) \/ PushFriendAborts(j)
      PROVE IterationInv'
  BY <1>3 DEF ReuseFriend, AddFriend, AddFriendFails, PushFriendAborts, Resolving,
              StartPending, Abort, jobVars, iterVars, JobState
<1>4. ASSUME FriendsReady \/ AbortsBeforeCounting PROVE IterationInv'
  BY <1>4 DEF FriendsReady, AbortsBeforeCounting, Abort, In, jobVars, iterVars
<1>5. ASSUME Gather PROVE IterationInv'
  BY <1>5 DEF Gather, In, JobState
<1>6. ASSUME WriteResults PROVE IterationInv'
  BY <1>6 DEF WriteResults, jobVars, iterVars
<1>7. ASSUME NEW done \in SUBSET counted, WriteAborts(done) PROVE IterationInv'
  BY <1>7 DEF WriteAborts, MissIteration, Abort, jobVars
<1>8. ASSUME NEW j \in Job,
             Retire(j) \/ RetireAndRemove(j) \/ RemoveFails(j) \/ TagFails(j)
      PROVE IterationInv'
  <2>1. /\ UNCHANGED <<phase, queue, cursor, counted>> /\ phase = "clean"
        /\ state[j] \in {"Finished", "Failed", "Unremoved"}
    BY <1>8 DEF Retire, RetireAndRemove, RemoveFails, TagFails, Visiting, Terminal
  <2>2. state' = state \/ (state[j] # "Failed" /\ state' = [state EXCEPT ![j] = "Unremoved"])
    BY <1>8 DEF Retire, RetireAndRemove, RemoveFails, TagFails, MustRemove, HasFriend
  <2>3. QED
    BY <2>1, <2>2
<1>9. ASSUME CleanAborts PROVE IterationInv'
  BY <1>9 DEF CleanAborts, MissIteration, Abort, jobVars
<1>10. ASSUME EndIteration PROVE IterationInv'
  BY <1>10 DEF EndIteration, AdvanceCursor, Terminal, JobState
<1>11. ASSUME Restart PROVE IterationInv'
  BY <1>11 DEF Restart, Abort, iterVars
<1>12. CASE UNCHANGED vars
  BY <1>12 DEF vars, jobVars, iterVars
<1>13. QED
  BY <1>1, <1>2, <1>3, <1>4, <1>5, <1>6, <1>7, <1>8, <1>9, <1>10, <1>11, <1>12
  DEF Next, Step, Fault

LEMMA IterationCorrect == Spec => []IterationInv
  BY IterationInit, IterationNext, TypeCorrect, PTL DEF Spec

\* The held jobs belong to the sub-queue being polled, and the cursor stays in
\* its segment, across pulls, wraps, aborted iterations and restarts.
THEOREM HeldStayInSegment == Spec => []HeldInSegment
<1>1. IterationInv => HeldInSegment
  BY DEF IterationInv, HeldInSegment, InSegment, Held
<1>2. QED
  BY <1>1, IterationCorrect, PTL
----------------------------------------------------------------------------
(* Coverage: which songs a job has been given *)

\* How far a song lies ahead of another, going round a segment of length len.
Ahead(from, s, len) == IF s >= from THEN s - from ELSE s - from + len

NextSong(s, q) == IF s + 1 >= SegEnd[q] THEN SegStart[q] ELSE s + 1

LEMMA SegmentBounds ==
  ASSUME NEW q \in Queue, NEW s \in Segment(q)
  PROVE  /\ SegStart[q] \in Int /\ SegEnd[q] \in Int /\ s \in Int
         /\ SegStart[q] <= s /\ s < SegEnd[q]
  BY ConstantsAssumption DEF Segment

\* Going round a segment, two songs lie equally far ahead only if they are one,
\* and the cursor's next position lies one further.
LEMMA AheadInSegment ==
  ASSUME NEW q \in Queue, NEW len, len = SegEnd[q] - SegStart[q],
         NEW c \in Segment(q), NEW s \in Segment(q), NEW t \in Segment(q)
  PROVE  /\ Ahead(c, s, len) \in Int
         /\ 0 <= Ahead(c, s, len) /\ Ahead(c, s, len) < len
         /\ Ahead(c, s, len) = Ahead(c, t, len) => s = t
         /\ Ahead(c, s, len) + 1 < len =>
              Ahead(c, NextSong(s, q), len) = Ahead(c, s, len) + 1
<1>1. \A x \in {c, s, t} : /\ SegStart[q] \in Int /\ SegEnd[q] \in Int /\ x \in Int
                           /\ SegStart[q] <= x /\ x < SegEnd[q]
  BY SegmentBounds
<1>2. QED
  BY <1>1 DEF Ahead, NextSong

\* How far behind the job's first song a song lies.
Offset(j, s) == Ahead(cursorStart[j], s, CursorLength(j))

\* Cursor moves, and songs pushed, since the job joined.
Moves(j)  == IF j \in counted THEN currentLength[j] - 1 ELSE currentLength[j]
Pushes(j) == IF j \in counted /\ phase = "write"
               THEN currentLength[j] - 1 ELSE currentLength[j]

\* A job being polled has exactly the songs its first `Pushes` steps led over.
PendingCoverage(j) ==
  /\ SegStart[QueueOf[j]] <= cursorStart[j]
  /\ cursorStart[j] < SegEnd[QueueOf[j]] \/ cursorStart[j] = SegStart[QueueOf[j]]
  /\ currentLength[j] < CursorLength(j) \/ currentLength[j] = 0
  /\ j \in counted => currentLength[j] >= 1
  /\ Offset(j, cursor) = Moves(j)
  /\ \A s \in Song : written[j][s] =
       IF s \in Segment(QueueOf[j]) /\ Offset(j, s) < Pushes(j) THEN 1 ELSE 0

\* A finished job has every song, but for the one about to be pushed.
FinishedCoverage(j) ==
  \A s \in Song : written[j][s] =
    IF s \in Segment(QueueOf[j]) /\ ~(phase = "write" /\ j \in counted /\ s = cursor)
      THEN 1 ELSE 0

Coverage(j) ==
  /\ state[j] \in {"Waiting", "Pulled"} =>
       missed[j] = 0 /\ \A s \in Song : written[j][s] = 0
  /\ state[j] = "Pending" /\ missed[j] = 0 => PendingCoverage(j)
  /\ state[j] = "Finished" /\ missed[j] = 0 => FinishedCoverage(j)
  /\ phase = "write" /\ j \in counted /\ missed[j] = 0 => FriendOf[j] \in friends

CoverageInv == \A j \in Job : Coverage(j)

LEMMA CoverageInit == Init => CoverageInv
  BY DEF Init, CoverageInv, Coverage

\* A step that leaves the job's counters and the cursor alone, and takes the
\* job no further than out of the scan.
LEMMA CoverageFrame ==
  ASSUME NEW j \in Job, Coverage(j),
         \/ state'[j] \in {state[j], "Failed", "Unremoved", "Cleaned"}
         \/ state[j] = "Waiting" /\ state'[j] = "Pulled",
         state'[j] = "Pending" => cursor' = cursor,
         cursorStart'[j] = cursorStart[j], currentLength'[j] = currentLength[j],
         written'[j] = written[j], missed'[j] = missed[j],
         counted' = counted,
         phase # "write", phase' # "write"
  PROVE  Coverage(j)'
  BY DEF Coverage, PendingCoverage, FinishedCoverage, Offset, Moves, Pushes, CursorLength

LEMMA CoverageNext ==
  TypeOK /\ IterationInv /\ CoverageInv /\ [Next]_vars => CoverageInv'
<1> SUFFICES ASSUME TypeOK, IterationInv, CoverageInv, [Next]_vars, NEW j \in Job
             PROVE Coverage(j)'
  BY DEF CoverageInv
<1>0. Coverage(j)
  BY DEF CoverageInv
<1> USE ConstantsAssumption DEF TypeOK
<1>1. ASSUME NEW q \in Queue, NEW new \in SUBSET Available(q), NEW pushed \in SUBSET new,
             Take(q, new), Receive(pushed), phase' \in {"pull", "add"}
      PROVE Coverage(j)'
  <2>1. \/ state'[j] = state[j] 
        \/ state[j] = "Waiting" /\ state'[j] = "Pulled"
    BY <1>1 DEF Receive, Available, In
  <2>2. state'[j] = "Pending" => cursor' = cursor
    BY <1>1, <2>1 DEF Take, Discover, TopUp, Held
  <2>3. QED
    BY <1>0, <1>1, <2>1, <2>2, CoverageFrame DEF Take, iterVars, history
<1>2. ASSUME NEW k \in Job, ReuseFriend(k) \/ AddFriend(k)
      PROVE Coverage(j)'
  <2>1. /\ StartPending(k) /\ state[k] = "Pulled"
        /\ phase = "add" /\ UNCHANGED <<phase, queue, cursor, counted, written, missed>>
    BY <1>2 DEF ReuseFriend, AddFriend, Resolving, iterVars
  <2>2. CASE k # j
    BY <1>0, <2>1, <2>2, CoverageFrame DEF StartPending
  <2>3. CASE k = j
    <3>1. /\ state'[j] = "Pending" /\ cursorStart'[j] = cursor /\ currentLength'[j] = 0
          /\ written'[j] = written[j] /\ \A s \in Song : written[j][s] = 0
          /\ counted' = {} /\ phase' = "add"
      BY <1>0, <2>1, <2>3 DEF StartPending, Coverage, IterationInv
    <3>2. QueueOf[j] = queue /\ InSegment
      BY <2>1, <2>3 DEF IterationInv, Held
    <3>3. PendingCoverage(j)'
      <4>1. Offset(j, cursor)' = 0 /\ Moves(j)' = 0 /\ Pushes(j)' = 0
        BY <2>1, <3>1 DEF Offset, Moves, Pushes, Ahead
      <4>2. ASSUME NEW s \in Song
            PROVE ~(s \in Segment(queue) /\ Offset(j, s)' < 0)
        <5>1. Offset(j, s)' = Ahead(cursor, s, SegEnd[queue] - SegStart[queue])
          BY <2>1, <3>1, <3>2 DEF Offset, CursorLength
        <5>2. CASE s \in Segment(queue)
          <6>1. /\ s \in Int /\ SegStart[queue] \in Int /\ SegEnd[queue] \in Int
                /\ SegStart[queue] <= s /\ s < SegEnd[queue]
            BY <5>2, SegmentBounds
          <6>2. QED
            BY <3>2, <5>1, <6>1 DEF Ahead, InSegment
        <5>3. QED
          BY <5>2
      <4>3. QED
        BY <2>1, <3>1, <3>2, <4>1, <4>2 DEF PendingCoverage, CursorLength, InSegment
    <3>4. QED
      BY <3>1, <3>3 DEF Coverage
  <2>4. QED
    BY <2>2, <2>3
<1>3. ASSUME NEW k \in Job, AddFriendFails(k) \/ PushFriendAborts(k)
      PROVE Coverage(j)'
  BY <1>0, <1>3, CoverageFrame
  DEF AddFriendFails, PushFriendAborts, Resolving, Abort, iterVars, jobVars
<1>4. ASSUME FriendsReady \/ AbortsBeforeCounting PROVE Coverage(j)'
  BY <1>0, <1>4, CoverageFrame
  DEF FriendsReady, AbortsBeforeCounting, Abort, jobVars, iterVars, history
<1>5. ASSUME Gather PROVE Coverage(j)'
  <2>1. /\ phase' = "write" /\ counted' = In("Pending") /\ counted = {}
        /\ phase = "gather"
        /\ UNCHANGED <<queue, cursor, cursorStart, friends, written>>
    BY <1>5 DEF Gather, IterationInv
  <2>2. CASE state[j] # "Pending"
    <3>1. /\ state'[j] = state[j] /\ missed'[j] = missed[j] /\ j \notin counted'
      BY <1>5, <2>2 DEF Gather, In, Blind
    <3>2. QED
      BY <1>0, <2>1, <2>2, <3>1 DEF Coverage, FinishedCoverage
  <2>3. CASE state[j] = "Pending"
    <3>1. /\ j \in counted' /\ currentLength'[j] = currentLength[j] + 1
          /\ state'[j] = IF currentLength[j] + 1 >= CursorLength(j)
                           THEN "Finished" ELSE "Pending"
          /\ missed'[j] = 0 => missed[j] = 0 /\ FriendOf[j] \in friends
      BY <1>5, <2>3 DEF Gather, In, Blind
    <3>2. QueueOf[j] = queue /\ InSegment
      BY <2>3 DEF IterationInv, Held
    <3>3. ASSUME missed'[j] = 0, state'[j] = "Pending" PROVE PendingCoverage(j)'
      BY <1>0, <2>1, <2>3, <3>1, <3>3
      DEF Coverage, PendingCoverage, Offset, Moves, Pushes, CursorLength
    <3>4. ASSUME missed'[j] = 0, state'[j] = "Finished" PROVE FinishedCoverage(j)'
      <4>1. PendingCoverage(j) /\ currentLength[j] + 1 >= CursorLength(j)
        BY <1>0, <2>3, <3>1, <3>4 DEF Coverage
      <4>2. SUFFICES ASSUME NEW s \in Song
                     PROVE written[j][s] = IF s \in Segment(queue) /\ s # cursor
                                             THEN 1 ELSE 0
        BY <2>1, <3>1, <3>2 DEF FinishedCoverage
      <4>3. /\ Offset(j, cursor) = currentLength[j]
            /\ written[j][s] = IF s \in Segment(queue) /\ Offset(j, s) < currentLength[j]
                                THEN 1 ELSE 0
        BY <2>1, <3>2, <4>1 DEF PendingCoverage, Moves, Pushes
      <4>4. CASE s \notin Segment(queue)
        BY <4>3, <4>4
      <4>5. CASE s \in Segment(queue)
        <5>1. cursor \in Segment(queue) /\ cursorStart[j] \in Segment(queue)
          BY <3>2, <4>1, <4>5 DEF InSegment, Segment, PendingCoverage
        <5>2. CursorLength(j) = SegEnd[queue] - SegStart[queue] /\ CursorLength(j) \in Int
          BY <3>2 DEF CursorLength
        <5>3. /\ Offset(j, s) \in Int /\ Offset(j, s) < CursorLength(j)
              /\ Offset(j, cursor) < CursorLength(j)
              /\ Offset(j, s) = Offset(j, cursor) => s = cursor
          BY <4>5, <5>1, <5>2, AheadInSegment DEF Offset
        <5>4. Offset(j, s) < currentLength[j] <=> s # cursor
          <6>1. CASE s = cursor
            BY <4>1, <4>3, <6>1
          <6>2. CASE s # cursor
            <7>1. currentLength[j] \in Int /\ currentLength[j] + 1 >= CursorLength(j)
              BY <4>1
            <7>2. Offset(j, s) # currentLength[j]
              BY <4>3, <5>3, <6>2
            <7>3. \A o, n, c \in Int : o < n /\ c + 1 >= n /\ o # c => o < c
              OBVIOUS
            <7>4. QED
              BY <5>2, <5>3, <6>2, <7>1, <7>2, <7>3
          <6>3. QED
            BY <6>1, <6>2
        <5>5. QED
          BY <4>3, <4>5, <5>4
      <4>6. QED
        BY <4>4, <4>5
    <3>5. QED
      BY <2>1, <3>1, <3>3, <3>4 DEF Coverage
  <2>4. QED
    BY <2>2, <2>3
<1>6. ASSUME WriteResults PROVE Coverage(j)'
  <2>1. /\ phase = "write" /\ phase' = "clean" /\ PushScores(counted)
        /\ UNCHANGED <<queue, cursor, state, cursorStart, currentLength, friends,
                       counted, missed>>
    BY <1>6 DEF WriteResults, jobVars, iterVars
  <2>2. CASE j \notin counted
    BY <1>0, <2>1, <2>2
    DEF PushScores, Coverage, FinishedCoverage, IterationInv
  <2>3. CASE j \in counted /\ missed[j] # 0
    BY <2>1, <2>3 DEF Coverage, IterationInv
  <2>4. CASE j \in counted /\ missed[j] = 0
    <3>1. /\ \A s \in Song : written'[j][s] =
               IF s \in Polled THEN written[j][s] + 1 ELSE written[j][s]
      BY <1>0, <2>1, <2>4 DEF PushScores, Coverage
    <3>2. state[j] \in {"Pending", "Finished", "Unremoved"}
      BY <2>4 DEF IterationInv
    <3>3. QueueOf[j] = queue /\ InSegment
      BY <3>2 DEF IterationInv, Held
    <3>4. ASSUME state[j] = "Pending" PROVE PendingCoverage(j)'
      <4>1. PendingCoverage(j)
        BY <1>0, <2>4, <3>4 DEF Coverage
      <4>2. ASSUME NEW s \in Song
            PROVE written'[j][s] =
              IF s \in Segment(queue) /\ Offset(j, s) < currentLength[j] THEN 1 ELSE 0
        <5>1. /\ Offset(j, cursor) = currentLength[j] - 1
              /\ written[j][s] =
                   IF s \in Segment(queue) /\ Offset(j, s) < currentLength[j] - 1
                     THEN 1 ELSE 0
          BY <2>1, <2>4, <3>3, <4>1 DEF PendingCoverage, Moves, Pushes
        <5>2. CASE s \notin Segment(queue)
          BY <3>1, <5>1, <5>2 DEF Polled
        <5>3. CASE s \in Segment(queue)
          <6>1. cursor \in Segment(queue) /\ cursorStart[j] \in Segment(queue)
            BY <3>3, <4>1, <5>3 DEF InSegment, Segment, PendingCoverage
          <6>2. /\ Offset(j, s) \in Int
                /\ Offset(j, s) = Offset(j, cursor) => s = cursor
            BY <3>3, <5>3, <6>1, AheadInSegment DEF Offset, CursorLength
          <6>3. s \in Polled <=> s = cursor
            BY <6>1 DEF Polled
          <6>4. QED
            BY <3>1, <5>1, <5>3, <6>2, <6>3
        <5>4. QED
          BY <5>2, <5>3
      <4>3. QED
        BY <2>1, <2>4, <3>3, <4>1, <4>2
        DEF PendingCoverage, Offset, Moves, Pushes, CursorLength
    <3>5. ASSUME state[j] = "Finished" PROVE FinishedCoverage(j)'
      BY <1>0, <2>1, <2>4, <3>1, <3>3, <3>5 DEF Coverage, FinishedCoverage, Polled
    <3>6. QED
      BY <2>1, <3>2, <3>4, <3>5 DEF Coverage
  <2>5. QED
    BY <2>2, <2>3, <2>4
<1>7. ASSUME MissIteration, phase' # "write", phase \in {"write", "clean"},
             UNCHANGED <<cursor, jobVars>>,
             j \notin counted => written'[j] = written[j]
      PROVE Coverage(j)'
  <2>1. CASE j \in counted
    <3>1. missed'[j] # 0 /\ state'[j] \in {"Pending", "Finished", "Unremoved"}
      BY <1>7, <2>1 DEF MissIteration, jobVars, IterationInv
    <3>2. QED
      BY <1>7, <3>1 DEF Coverage
  <2>2. CASE j \notin counted
    <3>1. state'[j] # "Pending" /\ missed'[j] = missed[j] /\ j \notin counted'
      BY <1>7, <2>2 DEF MissIteration, jobVars, IterationInv
    <3>2. QED
      BY <1>0, <1>7, <2>2, <3>1 DEF Coverage, FinishedCoverage, jobVars
  <2>3. QED
    BY <2>1, <2>2
<1>8. ASSUME NEW done \in SUBSET counted, WriteAborts(done) PROVE Coverage(j)'
  <2>1. j \notin counted => written'[j] = written[j]
    BY <1>8 DEF WriteAborts, PushScores
  <2>2. QED
    BY <1>7, <1>8, <2>1 DEF WriteAborts, Abort
<1>9. ASSUME NEW k \in Job,
             Retire(k) \/ RetireAndRemove(k) \/ RemoveFails(k) \/ TagFails(k)
      PROVE Coverage(j)'
  <2>1. /\ phase = "clean" /\ UNCHANGED <<phase, cursor, cursorStart, currentLength,
                                          counted, written, missed>>
        /\ state' = state \/ state' = [state EXCEPT ![k] = "Unremoved"]
    BY <1>9 DEF Retire, RetireAndRemove, RemoveFails, TagFails, Visiting
  <2>2. QED
    BY <1>0, <2>1, CoverageFrame
<1>10. ASSUME CleanAborts PROVE Coverage(j)'
  BY <1>7, <1>10 DEF CleanAborts, Abort
<1>11. ASSUME EndIteration PROVE Coverage(j)'
  <2>1. /\ phase = "clean" /\ phase' = "pull" /\ AdvanceCursor /\ counted' = {}
        /\ UNCHANGED <<queue, cursorStart, currentLength, written, missed>>
        /\ state'[j] = IF Terminal(j) THEN "Cleaned" ELSE state[j]
    BY <1>11 DEF EndIteration, history
  <2>2. CASE state[j] # "Pending"
    BY <1>0, <2>1, <2>2 DEF Coverage, Terminal
  <2>3. CASE state[j] = "Pending" /\ missed[j] # 0
    BY <2>1, <2>3 DEF Coverage, Terminal
  <2>4. CASE state[j] = "Pending" /\ missed[j] = 0
    <3>1. PendingCoverage(j) /\ j \in counted /\ QueueOf[j] = queue /\ InSegment
      BY <1>0, <2>1, <2>4 DEF Coverage, IterationInv, Held
    <3>2. PendingCoverage(j)'
      <4>1. Offset(j, cursor)' = currentLength[j]
        <5>1. /\ Offset(j, cursor) = currentLength[j] - 1
              /\ currentLength[j] >= 1 /\ currentLength[j] < CursorLength(j)
          BY <3>1 DEF PendingCoverage, Moves
        <5>2. cursor \in Segment(queue) /\ cursorStart[j] \in Segment(queue)
          BY <3>1, <5>1 DEF PendingCoverage, InSegment, Segment, CursorLength
        <5>3. Ahead(cursorStart[j], NextSong(cursor, queue), CursorLength(j))
                = Offset(j, cursor) + 1
          BY <3>1, <5>1, <5>2, AheadInSegment DEF Offset, CursorLength
        <5>4. QED
          BY <2>1, <5>1, <5>3 DEF Offset, AdvanceCursor, NextSong
      <4>2. QED
        BY <2>1, <3>1, <4>1
        DEF PendingCoverage, Offset, Moves, Pushes, CursorLength
    <3>3. QED
      BY <2>1, <2>4, <3>2 DEF Coverage, Terminal
  <2>5. QED
    BY <2>2, <2>3, <2>4
<1>12. ASSUME Restart PROVE Coverage(j)'
  BY <1>0, <1>12 DEF Restart, Abort, Coverage, Held, iterVars, JobState
<1>13. CASE UNCHANGED vars
  BY <1>0, <1>13 DEF vars, jobVars, iterVars, history, Coverage, PendingCoverage,
     FinishedCoverage, Offset, Moves, Pushes
<1>14. ASSUME NEW q \in Queue, NEW new \in SUBSET Available(q),
              Pull(q, new) \/ \E pushed \in SUBSET new : PullAborts(q, new, pushed)
       PROVE Coverage(j)'
  BY <1>1, <1>14 DEF Pull, PullAborts, Abort
<1>15. QED
  BY <1>2, <1>3, <1>4, <1>5, <1>6, <1>8, <1>9, <1>10, <1>11, <1>12, <1>13, <1>14
  DEF Next, Step, Fault

LEMMA CoverageCorrect == Spec => []CoverageInv
  BY CoverageInit, CoverageNext, IterationCorrect, TypeCorrect, PTL DEF Spec

\* A finished job none of whose iterations was lost has had every song of its
\* segment pushed exactly once, for every segment, every moment of joining and
\* every interleaving of joining, failing and finishing jobs.
THEOREM FinishedJobsAreComplete == Spec => []FinishedIsComplete
<1>1. TypeOK /\ CoverageInv => FinishedIsComplete
  BY DEF CoverageInv, Coverage, FinishedCoverage, FinishedIsComplete, In
<1>2. QED
  BY <1>1, CoverageCorrect, TypeCorrect, PTL

----------------------------------------------------------------------------
(* The friend list: who is in it, and for whom *)

\* A job counted for the scan has its friend in the list, or clean_jobs removed
\* it; a friend in the list has a job that will make clean_jobs look at it.
FriendInv ==
  /\ \A j \in Job : state[j] = "Pending" => FriendOf[j] \in friends \cup orphaned
  /\ \A j \in Job : state[j] = "Finished" =>
        FriendOf[j] \in friends \cup orphaned \cup deleted
  /\ deleted \cap friends = {}
  /\ \A f \in friends \ leaked : \E j \in Job :
        /\ FriendOf[j] = f
        /\ state[j] = "Pending" \/ (state[j] = "Finished" /\ j \notin visited)

LEMMA FriendInit == Init => FriendInv
  BY DEF Init, FriendInv

LEMMA FriendNext == TypeOK /\ IterationInv /\ FriendInv /\ [Next]_vars => FriendInv'
<1> SUFFICES ASSUME TypeOK, IterationInv, FriendInv, [Next]_vars PROVE FriendInv'
  OBVIOUS
<1> USE ConstantsAssumption DEF TypeOK, FriendInv
<1>1. ASSUME NEW q \in Queue, NEW new \in SUBSET Available(q), NEW pushed \in SUBSET new,
             Take(q, new), Receive(pushed)
      PROVE FriendInv'
  <2>1. UNCHANGED <<friends, orphaned, leaked, visited, deleted>>
    BY <1>1 DEF Take, iterVars, history
  <2>2. \A j \in Job : state'[j] = state[j] \/ (state[j] = "Waiting" /\ state'[j] = "Pulled")
    BY <1>1 DEF Receive, Available, In
  <2>3. QED
    BY <2>1, <2>2
<1>2. ASSUME NEW k \in Job, ReuseFriend(k) PROVE FriendInv'
  <2>1. /\ state' = [state EXCEPT ![k] = "Pending"] /\ state[k] = "Pulled"
        /\ UNCHANGED <<friends, orphaned, leaked, visited, deleted>>
        /\ deleted = {}
    BY <1>2 DEF ReuseFriend, Resolving, StartPending, iterVars, IterationInv
  <2>2. FriendOf[k] \in friends \cup orphaned
    BY <1>2, <2>1 DEF ReuseFriend, KnownCodes, CodesOf, In
  <2>3. QED
    BY <2>1, <2>2
<1>3. ASSUME NEW k \in Job, AddFriend(k) PROVE FriendInv'
  BY <1>3 DEF AddFriend, Resolving, StartPending, iterVars, IterationInv
<1>4. ASSUME NEW k \in Job, AddFriendFails(k) PROVE FriendInv'
  BY <1>4 DEF AddFriendFails, Resolving, iterVars
<1>5. ASSUME NEW k \in Job, PushFriendAborts(k) PROVE FriendInv'
  BY <1>5 DEF PushFriendAborts, Resolving, jobVars, iterVars, IterationInv
<1>6. ASSUME FriendsReady \/ AbortsBeforeCounting \/ WriteResults PROVE FriendInv'
  BY <1>6 DEF FriendsReady, AbortsBeforeCounting, WriteResults, jobVars, iterVars, history
<1>7. ASSUME Gather PROVE FriendInv'
  <2>1. /\ UNCHANGED <<friends, orphaned, leaked, visited, deleted>>
        /\ visited = {}
        /\ \A j \in Job : \/ state'[j] = state[j]
                          \/ state[j] = "Pending" /\ state'[j] = "Finished"
    BY <1>7 DEF Gather, IterationInv
  <2>2. QED
    BY <2>1
<1>8. ASSUME NEW done \in SUBSET counted, WriteAborts(done) PROVE FriendInv'
  BY <1>8 DEF WriteAborts, MissIteration, jobVars, IterationInv, Abort
<1>9. ASSUME NEW k \in Job, Retire(k) PROVE FriendInv'
  <2>1. /\ UNCHANGED <<state, friends, orphaned, leaked, deleted>>
        /\ visited' = visited \cup {k} /\ phase = "clean"
        /\ state[k] # "Pending" /\ ~MustRemove(k)
    BY <1>9 DEF Retire, Visiting, Terminal
  <2>2. ASSUME state[k] = "Finished"
        PROVE FriendOf[k] \in deleted \/ \E j \in Job : state[j] = "Pending" /\ FriendOf[j] = FriendOf[k]
    BY <2>1, <2>2 DEF MustRemove, HasFriend, StillWanted, CodesOf, In, IterationInv
  <2>3. ASSUME NEW f \in friends' \ leaked'
        PROVE \E j \in Job : /\ FriendOf[j] = f
                             /\ \/ state'[j] = "Pending"
                                \/ state'[j] = "Finished" /\ j \notin visited'
    BY <2>1, <2>2, <2>3
  <2>4. QED
    BY <2>1, <2>3
<1>10. ASSUME NEW k \in Job, RetireAndRemove(k) PROVE FriendInv'
  <2>1. /\ state' = state /\ friends' = friends \ {FriendOf[k]}
        /\ deleted' = deleted \cup {FriendOf[k]} /\ leaked' = leaked \ {FriendOf[k]}
        /\ orphaned' = orphaned /\ visited' = visited \cup {k} /\ state[k] # "Pending"
    BY <1>10 DEF RetireAndRemove, Visiting, Terminal
  <2>2. \A j \in Job : state[j] = "Pending" => FriendOf[j] # FriendOf[k]
    BY <1>10 DEF RetireAndRemove, MustRemove, StillWanted, CodesOf, In
  <2>3. QED
    BY <2>1, <2>2
<1>11. ASSUME NEW k \in Job, RemoveFails(k) \/ TagFails(k) PROVE FriendInv'
  <2>1. /\ \/ state' = state
           \/ state[k] \in {"Finished", "Unremoved"} /\ state' = [state EXCEPT ![k] = "Unremoved"]
        /\ UNCHANGED <<friends, deleted, orphaned>>
        /\ visited' = visited \cup {k} /\ state[k] # "Pending" /\ phase = "clean"
    BY <1>11 DEF RemoveFails, TagFails, MustRemove, HasFriend, Visiting, Terminal
  <2>2. leaked' = leaked \cup {FriendOf[k]} \/ (leaked' = leaked /\ ~MustRemove(k) /\ state' = state)
    BY <1>11 DEF RemoveFails, TagFails
  <2>3. CASE leaked' = leaked \cup {FriendOf[k]}
    BY <2>1, <2>3
  <2>4. CASE leaked' = leaked /\ ~MustRemove(k) /\ state' = state
    <3>1. ASSUME state[k] = "Finished"
          PROVE FriendOf[k] \in deleted \/ \E j \in Job : state[j] = "Pending" /\ FriendOf[j] = FriendOf[k]
      BY <2>1, <2>4, <3>1 DEF MustRemove, HasFriend, StillWanted, CodesOf, In, IterationInv
    <3>2. QED
      BY <2>1, <2>4, <3>1
  <2>5. QED
    BY <2>2, <2>3, <2>4
<1>12. ASSUME CleanAborts PROVE FriendInv'
  BY <1>12 DEF CleanAborts, MissIteration, jobVars
<1>13. ASSUME EndIteration PROVE FriendInv'
  <2>1. /\ \A j \in Job : state'[j] = IF Terminal(j) THEN "Cleaned" ELSE state[j]
        /\ \A j \in Job : Terminal(j) => j \in visited
        /\ UNCHANGED <<friends, orphaned, leaked>> /\ visited' = {} /\ deleted' = {}
    BY <1>13 DEF EndIteration, history
  <2>2. QED
    BY <2>1 DEF Terminal
<1>14. ASSUME Restart PROVE FriendInv'
  BY <1>14 DEF Restart, Held, iterVars, Abort, JobState
<1>15. CASE UNCHANGED vars
  BY <1>15 DEF vars, jobVars, iterVars, history
<1>16. ASSUME NEW q \in Queue, NEW new \in SUBSET Available(q),
              Pull(q, new) \/ \E pushed \in SUBSET new : PullAborts(q, new, pushed)
       PROVE FriendInv'
  BY <1>1, <1>16 DEF Pull, PullAborts
<1>17. QED
  BY <1>2, <1>3, <1>4, <1>5, <1>6, <1>7, <1>8, <1>9, <1>10, <1>11, <1>12, <1>13, <1>14,
     <1>15, <1>16
  DEF Next, Step, Fault

LEMMA FriendCorrect == Spec => []FriendInv
  BY FriendInit, FriendNext, IterationCorrect, TypeCorrect, PTL DEF Spec

\* A job being polled has its friend in the account's list, except where a
\* clean_jobs that failed half-way had removed it.
THEOREM PendingJobsHaveFriends == Spec => []PendingIsFriendUnlessOrphaned
<1>1. FriendInv => PendingIsFriendUnlessOrphaned
  BY DEF FriendInv, PendingIsFriendUnlessOrphaned, In
<1>2. QED
  BY <1>1, FriendCorrect, PTL

\* Between iterations every friend whose removal the worker has not given up
\* serves a job it holds.
THEOREM ListedFriendsAreInUse == Spec => []FriendsInUse
<1>1. FriendInv => FriendsInUse
  BY DEF FriendInv, FriendsInUse, CodesOf, In
<1>2. QED
  BY <1>1, FriendCorrect, PTL

----------------------------------------------------------------------------
(* How many jobs are held *)

LEMMA HeldBoundedInit == Init => HeldBounded
<1> SUFFICES ASSUME Init PROVE HeldBounded
  OBVIOUS
<1>1. Held = {}
  BY DEF Init, Held
<1>2. Cardinality({}) = 0
  BY FS_EmptySet
<1>3. QED
  BY <1>1, <1>2, ConstantsAssumption DEF HeldBounded

\* Only a pull adds jobs, and it adds those it was handed.
LEMMA HeldStep ==
  ASSUME TypeOK, [Next]_vars
  PROVE  \/ Held' \subseteq Held
         \/ \E new \in SUBSET Job : RoomFor(new) /\ Held' \subseteq Held \cup new
<1> USE DEF TypeOK, Held
<1>1. ASSUME NEW q \in Queue, NEW new \in SUBSET Available(q), NEW pushed \in SUBSET new,
             Take(q, new), Receive(pushed)
      PROVE \E n \in SUBSET Job : RoomFor(n) /\ Held' \subseteq Held \cup n
  <2>1. new \in SUBSET Job /\ RoomFor(new)
    BY <1>1 DEF Take, Available, In
  <2>2. Held' \subseteq Held \cup new
    BY <1>1 DEF Receive
  <2>3. QED
    BY <2>1, <2>2
<1>2. ASSUME NEW q \in Queue, NEW new \in SUBSET Available(q),
             Pull(q, new) \/ \E pushed \in SUBSET new : PullAborts(q, new, pushed)
      PROVE \E n \in SUBSET Job : RoomFor(n) /\ Held' \subseteq Held \cup n
  BY <1>1, <1>2 DEF Pull, PullAborts
<1>3. ASSUME NEW j \in Job, \/ ReuseFriend(j) \/ AddFriend(j) \/ AddFriendFails(j)
                           \/ PushFriendAborts(j)
      PROVE Held' \subseteq Held
  BY <1>3 DEF ReuseFriend, AddFriend, AddFriendFails, PushFriendAborts, Resolving,
              StartPending, jobVars
<1>4. ASSUME NEW j \in Job,
             Retire(j) \/ RetireAndRemove(j) \/ RemoveFails(j) \/ TagFails(j)
      PROVE Held' \subseteq Held
  BY <1>4 DEF Retire, RetireAndRemove, RemoveFails, TagFails, Visiting, Terminal
<1>5. ASSUME Gather \/ EndIteration \/ Restart PROVE Held' \subseteq Held
  BY <1>5 DEF Gather, EndIteration, Restart
<1>6. ASSUME \/ FriendsReady \/ WriteResults \/ AbortsBeforeCounting \/ CleanAborts
             \/ (\E done \in SUBSET counted : WriteAborts(done)) \/ UNCHANGED vars
      PROVE Held' \subseteq Held
  BY <1>6 DEF FriendsReady, WriteResults, AbortsBeforeCounting, CleanAborts, WriteAborts,
              vars, jobVars
<1>7. QED
  BY <1>2, <1>3, <1>4, <1>5, <1>6 DEF Next, Step, Fault

\* The worker never holds more than worker_max_jobs.
THEOREM HeldStaysBounded == Spec => []HeldBounded
<1>1. ASSUME TypeOK, HeldBounded, [Next]_vars PROVE HeldBounded'
  <2>1. IsFiniteSet(Job) /\ Held \subseteq Job
    BY ConstantsAssumption DEF Held
  <2>2. IsFiniteSet(Held) /\ Cardinality(Held) \in Nat
    BY <2>1, FS_Subset, FS_CardinalityType
  <2>3. CASE Held' \subseteq Held
    BY <1>1, <2>2, <2>3, FS_Subset, FS_CardinalityType, ConstantsAssumption DEF HeldBounded
  <2>4. ASSUME NEW new \in SUBSET Job, RoomFor(new), Held' \subseteq Held \cup new
        PROVE  HeldBounded'
    <3>1. IsFiniteSet(new) /\ Cardinality(new) \in Nat
      BY <2>1, FS_Subset, FS_CardinalityType
    <3>2. /\ IsFiniteSet(Held \cup new)
          /\ Cardinality(Held \cup new)
               = Cardinality(Held) + Cardinality(new) - Cardinality(Held \cap new)
      BY <2>2, <3>1, FS_Union
    <3>3. IsFiniteSet(Held \cap new) /\ Cardinality(Held \cap new) \in Nat
      BY <2>2, FS_Intersection, FS_CardinalityType
    <3>4. Cardinality(Held') <= Cardinality(Held \cup new) /\ Cardinality(Held') \in Nat
      BY <2>4, <3>2, FS_Subset, FS_CardinalityType
    <3>5. QED
      BY <2>2, <2>4, <3>1, <3>2, <3>3, <3>4, FS_CardinalityType, ConstantsAssumption
      DEF HeldBounded, RoomFor
  <2>5. QED
    BY <1>1, <2>3, <2>4, HeldStep
<1>2. QED
  BY <1>1, HeldBoundedInit, TypeCorrect, PTL DEF Spec

----------------------------------------------------------------------------
(* How many songs a job may lack *)

\* The scores of the cursor's song are about to be pushed for the job.
Due(j) == phase = "write" /\ j \in counted /\ FriendOf[j] \in friends

Delivered(j) ==
  {s \in Segment(QueueOf[j]) : written[j][s] > 0 \/ (Due(j) /\ s = cursor)}

\* The delivered songs among those the cursor has led over since the job joined.
Passed(j) ==
  {s \in Delivered(j) :
     Offset(j, s) < Offset(j, cursor) \/ (j \in counted /\ s = cursor)}

\* A job being polled has been given as many of them as it was counted for, but
\* for the iterations it missed; the cursor may lag behind the count, never lead.
PendingLoss(j) ==
  /\ SegStart[QueueOf[j]] <= cursorStart[j]
  /\ cursorStart[j] < SegEnd[QueueOf[j]] \/ cursorStart[j] = SegStart[QueueOf[j]]
  /\ currentLength[j] < CursorLength(j) \/ currentLength[j] = 0
  /\ j \in counted => currentLength[j] >= 1
  /\ Offset(j, cursor) <= Moves(j)
  /\ Cardinality(Passed(j)) >= currentLength[j] - missed[j]

FinishedLoss(j) == Cardinality(Segment(QueueOf[j]) \ Delivered(j)) <= missed[j]

Loss(j) ==
  /\ state[j] = "Pending" => PendingLoss(j)
  /\ state[j] = "Finished" => FinishedLoss(j)

LossInv == \A j \in Job : Loss(j)

LEMMA LossInit == Init => LossInv
  BY DEF Init, LossInv, Loss

LEMMA SegmentSize ==
  ASSUME NEW q \in Queue
  PROVE  /\ IsFiniteSet(Segment(q))
         /\ Cardinality(Segment(q)) = SegEnd[q] - SegStart[q]
<1>1. SegStart[q] \in Int /\ SegEnd[q] \in Int /\ SegStart[q] <= SegEnd[q]
  BY ConstantsAssumption
<1>2. SegEnd[q] - 1 \in Int
  BY <1>1
<1>3. /\ IsFiniteSet(SegStart[q] .. SegEnd[q] - 1)
      /\ Cardinality(SegStart[q] .. SegEnd[q] - 1) =
           IF SegStart[q] > SegEnd[q] - 1 THEN 0 ELSE SegEnd[q] - 1 - SegStart[q] + 1
  BY <1>1, <1>2, FS_Interval
<1>4. QED
  BY <1>1, <1>3 DEF Segment

\* Of two subsets of a segment the one that holds all of the other but an
\* element holds no more than one element less.
LEMMA SubsetSizes ==
  ASSUME NEW q \in Queue, NEW S \in SUBSET Segment(q), NEW T \in SUBSET Segment(q),
         NEW c
  PROVE  /\ IsFiniteSet(S) /\ Cardinality(S) \in Nat
         /\ S \subseteq T => Cardinality(S) <= Cardinality(T)
         /\ S \ {c} \subseteq T => Cardinality(T) >= Cardinality(S) - 1
         /\ S \cup {c} \subseteq T /\ c \notin S => Cardinality(T) >= Cardinality(S) + 1
         /\ Cardinality(Segment(q) \ S) = Cardinality(Segment(q)) - Cardinality(S)
<1>1. IsFiniteSet(S) /\ IsFiniteSet(T) /\ IsFiniteSet(Segment(q))
  BY SegmentSize, FS_Subset
<1>2. Cardinality(S) \in Nat /\ Cardinality(T) \in Nat
  BY <1>1, FS_CardinalityType
<1>3. S \subseteq T => Cardinality(S) <= Cardinality(T)
  BY <1>1, FS_Subset
<1>4. ASSUME S \ {c} \subseteq T PROVE Cardinality(T) >= Cardinality(S) - 1
  <2>1. /\ IsFiniteSet(S \ {c})
        /\ Cardinality(S \ {c}) =
             IF c \in S THEN Cardinality(S) - 1 ELSE Cardinality(S)
    BY <1>1, FS_RemoveElement
  <2>2. Cardinality(S \ {c}) <= Cardinality(T)
    BY <1>1, <1>4, FS_Subset
  <2>3. QED
    BY <1>2, <2>1, <2>2
<1>5. ASSUME S \cup {c} \subseteq T, c \notin S
      PROVE  Cardinality(T) >= Cardinality(S) + 1
  <2>1. Cardinality(S \cup {c}) = Cardinality(S) + 1
    BY <1>1, <1>5, FS_AddElement
  <2>2. Cardinality(S \cup {c}) <= Cardinality(T)
    BY <1>1, <1>5, FS_Subset
  <2>3. QED
    BY <1>2, <2>1, <2>2
<1>6. Cardinality(Segment(q) \ S) = Cardinality(Segment(q)) - Cardinality(S)
  <2>1. Segment(q) \cap S = S
    OBVIOUS
  <2>2. Cardinality(Segment(q) \ S)
          = Cardinality(Segment(q)) - Cardinality(Segment(q) \cap S)
    BY <1>1, FS_Difference
  <2>3. QED
    BY <2>1, <2>2
<1>7. QED
  BY <1>1, <1>2, <1>3, <1>4, <1>5, <1>6

LEMMA PassedInSegment ==
  ASSUME NEW j \in Job
  PROVE  /\ QueueOf[j] \in Queue
         /\ Passed(j) \in SUBSET Segment(QueueOf[j])
         /\ Delivered(j) \in SUBSET Segment(QueueOf[j])
         /\ Passed(j)' \in SUBSET Segment(QueueOf[j])
         /\ Delivered(j)' \in SUBSET Segment(QueueOf[j])
  BY ConstantsAssumption DEF Passed, Delivered

\* As CoverageFrame: a step that leaves the job's counters and the cursor alone.
LEMMA LossFrame ==
  ASSUME NEW j \in Job, Loss(j),
         \/ state'[j] \in {state[j], "Failed", "Unremoved", "Cleaned"}
         \/ state[j] = "Waiting" /\ state'[j] = "Pulled",
         state'[j] = "Pending" => cursor' = cursor,
         cursorStart'[j] = cursorStart[j], currentLength'[j] = currentLength[j],
         written'[j] = written[j], missed'[j] = missed[j],
         counted' = counted,
         phase # "write", phase' # "write"
  PROVE  Loss(j)'
<1>1. Delivered(j)' = Delivered(j)
  BY DEF Delivered, Due
<1>2. ASSUME state'[j] = "Pending" PROVE PendingLoss(j)'
  <2>1. cursor' = cursor /\ PendingLoss(j)
    BY <1>2 DEF Loss
  <2>2. \A s : Offset(j, s)' = Offset(j, s)
    BY DEF Offset, CursorLength, Ahead
  <2>3. Offset(j, cursor)' = Offset(j, cursor)
    BY <2>1 DEF Offset, CursorLength, Ahead
  <2>4. Passed(j)' = Passed(j)
    BY <1>1, <2>1, <2>2, <2>3 DEF Passed
  <2>5. QED
    BY <2>1, <2>3, <2>4 DEF PendingLoss, Moves, CursorLength
<1>3. ASSUME state'[j] = "Finished" PROVE FinishedLoss(j)'
  BY <1>1, <1>3 DEF Loss, FinishedLoss
<1>4. QED
  BY <1>2, <1>3 DEF Loss

LEMMA LossNext ==
  TypeOK /\ IterationInv /\ CoverageInv /\ LossInv /\ [Next]_vars => LossInv'
<1> SUFFICES ASSUME TypeOK, IterationInv, CoverageInv, LossInv, [Next]_vars, NEW j \in Job
             PROVE Loss(j)'
  BY DEF LossInv
<1>0. Loss(j) /\ Coverage(j)
  BY DEF LossInv, CoverageInv
<1> USE ConstantsAssumption DEF TypeOK
<1>a. /\ QueueOf[j] \in Queue
      /\ IsFiniteSet(Segment(QueueOf[j]))
      /\ Cardinality(Segment(QueueOf[j])) = CursorLength(j) /\ CursorLength(j) \in Nat
  BY SegmentSize DEF CursorLength
<1>b. /\ currentLength[j] \in Nat /\ missed[j] \in Nat
      /\ Cardinality(Passed(j)) \in Nat
  BY PassedInSegment, SubsetSizes
<1>c. Cardinality(Passed(j)') \in Nat
  BY PassedInSegment, SubsetSizes
<1>1. ASSUME NEW q \in Queue, NEW new \in SUBSET Available(q), NEW pushed \in SUBSET new,
             Take(q, new), Receive(pushed), phase' \in {"pull", "add"}
      PROVE Loss(j)'
  <2>1. \/ state'[j] = state[j] 
        \/ state[j] = "Waiting" /\ state'[j] = "Pulled"
    BY <1>1 DEF Receive, Available, In
  <2>2. state'[j] = "Pending" => cursor' = cursor
    BY <1>1, <2>1 DEF Take, Discover, TopUp, Held
  <2>3. QED
    BY <1>0, <1>1, <2>1, <2>2, LossFrame DEF Take, iterVars, history
<1>2. ASSUME NEW k \in Job, ReuseFriend(k) \/ AddFriend(k)
      PROVE Loss(j)'
  <2>1. /\ StartPending(k) /\ state[k] = "Pulled"
        /\ phase = "add" /\ UNCHANGED <<phase, queue, cursor, counted, written, missed>>
    BY <1>2 DEF ReuseFriend, AddFriend, Resolving, iterVars
  <2>2. CASE k # j
    BY <1>0, <2>1, <2>2, LossFrame DEF StartPending
  <2>3. CASE k = j
    <3>1. /\ state'[j] = "Pending" /\ cursorStart'[j] = cursor /\ currentLength'[j] = 0
          /\ missed'[j] = 0 /\ counted' = {}
      BY <1>0, <2>1, <2>3 DEF StartPending, Coverage, IterationInv
    <3>2. QueueOf[j] = queue /\ InSegment
      BY <2>1, <2>3 DEF IterationInv, Held
    <3>3. Offset(j, cursor)' = 0 /\ Moves(j)' = 0
      BY <2>1, <3>1 DEF Offset, Moves, Ahead
    <3>4. PendingLoss(j)'
      BY <1>c, <2>1, <3>1, <3>2, <3>3 DEF PendingLoss, InSegment
    <3>5. QED
      BY <3>1, <3>4 DEF Loss
  <2>4. QED
    BY <2>2, <2>3
<1>3. ASSUME NEW k \in Job, AddFriendFails(k) \/ PushFriendAborts(k)
      PROVE Loss(j)'
  BY <1>0, <1>3, LossFrame
  DEF AddFriendFails, PushFriendAborts, Resolving, Abort, iterVars, jobVars
<1>4. ASSUME FriendsReady \/ AbortsBeforeCounting PROVE Loss(j)'
  BY <1>0, <1>4, LossFrame
  DEF FriendsReady, AbortsBeforeCounting, Abort, jobVars, iterVars, history
<1>5. ASSUME Gather PROVE Loss(j)'
  <2>1. /\ phase' = "write" /\ counted' = In("Pending") /\ counted = {}
        /\ phase = "gather"
        /\ UNCHANGED <<queue, cursor, cursorStart, friends, written>>
    BY <1>5 DEF Gather, IterationInv
  <2>2. CASE state[j] # "Pending"
    <3>1. /\ state'[j] = state[j] /\ missed'[j] = missed[j] /\ j \notin counted'
      BY <1>5, <2>2 DEF Gather, In, Blind
    <3>2. Delivered(j)' = Delivered(j)
      BY <2>1, <3>1 DEF Delivered, Due
    <3>3. QED
      BY <1>0, <2>2, <3>1, <3>2 DEF Loss, FinishedLoss
  <2>3. CASE state[j] = "Pending"
    <3>1. /\ j \in counted' /\ currentLength'[j] = currentLength[j] + 1
          /\ state'[j] = IF currentLength[j] + 1 >= CursorLength(j)
                           THEN "Finished" ELSE "Pending"
          /\ missed'[j] = IF FriendOf[j] \in friends THEN missed[j] ELSE missed[j] + 1
      BY <1>5, <2>3 DEF Gather, In, Blind
    <3>2. /\ QueueOf[j] = queue /\ InSegment /\ PendingLoss(j)
          /\ j \notin counted
      BY <1>0, <2>1, <2>3 DEF IterationInv, Held, Loss
    <3>3. \A s : Offset(j, s)' = Offset(j, s)
      BY <2>1 DEF Offset, CursorLength, Ahead
    <3>4. Offset(j, cursor)' = Offset(j, cursor)
      BY <2>1 DEF Offset, CursorLength, Ahead
    <3>5. Delivered(j) \subseteq Delivered(j)' /\ Passed(j) \subseteq Passed(j)'
      BY <2>1, <3>3, <3>4 DEF Delivered, Passed, Due
    <3>6. ASSUME cursor \in Segment(queue)
          PROVE  Cardinality(Passed(j)') >= currentLength[j] + 1 - missed'[j]
      <4>1. CASE FriendOf[j] \in friends
        <5>1. cursor \in Passed(j)'
          BY <2>1, <3>1, <3>2, <3>6, <4>1 DEF Passed, Delivered, Due
        <5>2. cursor \notin Passed(j)
          <6>1. cursor \in Int /\ cursorStart[j] \in Segment(queue)
            BY <3>2, <3>6 DEF PendingLoss, InSegment, Segment
          <6>2. Offset(j, cursor) \in Int
            BY <3>2, <3>6, <6>1, AheadInSegment DEF Offset, CursorLength
          <6>3. QED
            BY <3>2, <6>2 DEF Passed
        <5>3. Cardinality(Passed(j)') >= Cardinality(Passed(j)) + 1
          <6>1. Passed(j) \cup {cursor} \subseteq Passed(j)'
            BY <3>5, <5>1
          <6>2. QED
            BY <5>2, <6>1, PassedInSegment, SubsetSizes
        <5>4. QED
          BY <1>b, <1>c, <3>1, <3>2, <4>1, <5>3 DEF PendingLoss
      <4>2. CASE FriendOf[j] \notin friends
        <5>1. Cardinality(Passed(j)') >= Cardinality(Passed(j))
          BY <3>5, PassedInSegment, SubsetSizes
        <5>2. QED
          BY <1>b, <1>c, <3>1, <3>2, <4>2, <5>1 DEF PendingLoss
      <4>3. QED
        BY <4>1, <4>2
    <3>7. CursorLength(j) > 0 => cursor \in Segment(queue)
      BY <3>2 DEF InSegment, Segment, CursorLength
    <3>8. ASSUME state'[j] = "Pending" PROVE PendingLoss(j)'
      <4>1. currentLength[j] + 1 < CursorLength(j)
        BY <1>a, <1>b, <3>1, <3>8
      <4>2. Cardinality(Passed(j)') >= currentLength'[j] - missed'[j]
        <5>1. cursor \in Segment(queue)
          BY <1>a, <1>b, <3>7, <4>1
        <5>2. Cardinality(Passed(j)') >= currentLength[j] + 1 - missed'[j]
          BY <3>6, <5>1
        <5>3. /\ currentLength'[j] = currentLength[j] + 1 /\ currentLength'[j] \in Nat
              /\ missed'[j] \in Nat
          BY <1>b, <3>1
        <5>4. QED
          BY <1>b, <1>c, <5>2, <5>3
      <4>3. Moves(j) = currentLength[j] /\ Moves(j)' = currentLength[j]
        BY <1>b, <3>1, <3>2 DEF Moves
      <4>4. QED
        BY <1>b, <2>1, <3>1, <3>2, <3>4, <4>1, <4>2, <4>3
        DEF PendingLoss, CursorLength
    <3>9. ASSUME state'[j] = "Finished" PROVE FinishedLoss(j)'
      <4>1. /\ Cardinality(Delivered(j)') \in Nat
            /\ Cardinality(Passed(j)') <= Cardinality(Delivered(j)')
            /\ Cardinality(Segment(QueueOf[j]) \ Delivered(j)')
                 = CursorLength(j) - Cardinality(Delivered(j)')
        <5>1. Passed(j)' \subseteq Delivered(j)'
          BY DEF Passed
        <5>2. QED
          BY <1>a, <5>1, PassedInSegment, SubsetSizes
      <4>2. currentLength[j] + 1 >= CursorLength(j) /\ missed'[j] \in Nat
        BY <1>b, <3>1, <3>9
      <4>3. Cardinality(Segment(QueueOf[j]) \ Delivered(j)') <= missed'[j]
        BY <1>a, <1>b, <1>c, <3>6, <3>7, <4>1, <4>2
      <4>4. QED
        BY <4>3 DEF FinishedLoss
    <3>10. QED
      BY <3>1, <3>8, <3>9 DEF Loss
  <2>4. QED
    BY <2>2, <2>3
<1>6. ASSUME WriteResults PROVE Loss(j)'
  <2>1. /\ phase = "write" /\ phase' = "clean" /\ PushScores(counted)
        /\ UNCHANGED <<queue, cursor, state, cursorStart, currentLength, friends,
                       counted, missed>>
    BY <1>6 DEF WriteResults, jobVars, iterVars
  <2>2. j \in counted => QueueOf[j] = queue
    BY DEF IterationInv, Held
  <2>3. Delivered(j)' = Delivered(j)
    <3>1. \A s \in Segment(QueueOf[j]) : s \in Song /\ written[j][s] \in Nat
      BY DEF Segment, Song
    <3>2. \A s \in Segment(QueueOf[j]) :
            written'[j][s] = IF j \in counted /\ FriendOf[j] \in friends /\ s \in Polled
                               THEN written[j][s] + 1 ELSE written[j][s]
      BY <2>1, <3>1 DEF PushScores
    <3>3. \A s \in Segment(QueueOf[j]) : j \in counted => (s \in Polled <=> s = cursor)
      BY <2>2 DEF Polled
    <3>4. QED
      BY <2>1, <3>1, <3>2, <3>3 DEF Delivered, Due
  <2>4. /\ \A s : Offset(j, s)' = Offset(j, s)
        /\ Offset(j, cursor)' = Offset(j, cursor)
    BY <2>1 DEF Offset, CursorLength, Ahead
  <2>5. Passed(j)' = Passed(j)
    BY <2>1, <2>3, <2>4 DEF Passed
  <2>6. QED
    BY <1>0, <2>1, <2>3, <2>4, <2>5
    DEF Loss, PendingLoss, FinishedLoss, Moves, CursorLength
<1>7. ASSUME MissIteration, phase \in {"write", "clean"}, phase' = "pull",
             UNCHANGED <<cursor, jobVars>>,
             \A s \in Segment(QueueOf[j]) : written[j][s] > 0 => written'[j][s] > 0,
             j \notin counted => written'[j] = written[j]
      PROVE Loss(j)'
  <2>1. CASE j \notin counted
    <3>1. state[j] # "Pending" /\ state' = state /\ missed'[j] = missed[j]
      BY <1>7, <2>1 DEF IterationInv, jobVars, MissIteration
    <3>2. Delivered(j)' = Delivered(j)
      BY <1>7, <2>1 DEF Delivered, Due
    <3>3. QED
      BY <1>0, <3>1, <3>2 DEF Loss, FinishedLoss
  <2>2. CASE j \in counted
    <3>1. /\ missed'[j] = missed[j] + 1 /\ counted' = {}
          /\ UNCHANGED <<cursor, state, cursorStart, currentLength>>
      BY <1>7, <2>2 DEF MissIteration, jobVars
    <3>2. Delivered(j) \ {cursor} \subseteq Delivered(j)'
      BY <1>7 DEF Delivered
    <3>3. /\ \A s : Offset(j, s)' = Offset(j, s)
          /\ Offset(j, cursor)' = Offset(j, cursor)
      BY <3>1 DEF Offset, CursorLength, Ahead
    <3>4. Passed(j) \ {cursor} \subseteq Passed(j)'
      BY <3>1, <3>2, <3>3 DEF Passed
    <3>5. Cardinality(Passed(j)') >= Cardinality(Passed(j)) - 1
      BY <3>4, PassedInSegment, SubsetSizes
    <3>6. ASSUME state[j] = "Pending" PROVE PendingLoss(j)'
      <4>1. PendingLoss(j)
        BY <1>0, <3>6 DEF Loss
      <4>2. Offset(j, cursor)' <= Moves(j)'
        <5>1. /\ currentLength[j] >= 1 /\ currentLength[j] < CursorLength(j)
              /\ Offset(j, cursor) <= currentLength[j] - 1
          BY <1>b, <2>2, <4>1 DEF PendingLoss, Moves
        <5>2. Offset(j, cursor) \in Int
          <6>1. QueueOf[j] = queue /\ InSegment
            BY <3>6 DEF IterationInv, Held
          <6>2. cursor \in Segment(queue) /\ cursorStart[j] \in Segment(queue)
            BY <4>1, <5>1, <6>1 DEF PendingLoss, InSegment, Segment, CursorLength
          <6>3. QED
            BY <6>1, <6>2, AheadInSegment DEF Offset, CursorLength
        <5>3. Moves(j)' = currentLength[j]
          BY <3>1 DEF Moves
        <5>4. QED
          BY <1>b, <3>3, <5>1, <5>2, <5>3
      <4>3. QED
        BY <1>b, <1>c, <3>1, <3>5, <4>1, <4>2 DEF PendingLoss, CursorLength
    <3>7. ASSUME state[j] = "Finished" PROVE FinishedLoss(j)'
      <4>1. /\ Cardinality(Delivered(j)') >= Cardinality(Delivered(j)) - 1
            /\ Cardinality(Delivered(j)) \in Nat /\ Cardinality(Delivered(j)') \in Nat
            /\ Cardinality(Segment(QueueOf[j]) \ Delivered(j))
                 = CursorLength(j) - Cardinality(Delivered(j))
            /\ Cardinality(Segment(QueueOf[j]) \ Delivered(j)')
                 = CursorLength(j) - Cardinality(Delivered(j)')
        BY <1>a, <3>2, PassedInSegment, SubsetSizes
      <4>2. Cardinality(Segment(QueueOf[j]) \ Delivered(j)) <= missed[j]
        BY <1>0, <3>7 DEF Loss, FinishedLoss
      <4>3. QED
        BY <1>a, <1>b, <3>1, <4>1, <4>2 DEF FinishedLoss
    <3>8. QED
      BY <3>1, <3>6, <3>7 DEF Loss
  <2>3. QED
    BY <2>1, <2>2
<1>8. ASSUME NEW done \in SUBSET counted, WriteAborts(done) PROVE Loss(j)'
  <2>1. j \notin counted => written'[j] = written[j]
    BY <1>8 DEF WriteAborts, PushScores
  <2>2. \A s \in Segment(QueueOf[j]) : written[j][s] > 0 => written'[j][s] > 0
    <3>1. \A s \in Segment(QueueOf[j]) : s \in Song /\ written[j][s] \in Nat
      BY DEF Segment, Song
    <3>2. QED
      BY <1>8, <3>1 DEF WriteAborts, PushScores
  <2>3. QED
    BY <1>7, <1>8, <2>1, <2>2 DEF WriteAborts, Abort
<1>9. ASSUME NEW k \in Job,
             Retire(k) \/ RetireAndRemove(k) \/ RemoveFails(k) \/ TagFails(k)
      PROVE Loss(j)'
  <2>1. /\ phase = "clean" /\ UNCHANGED <<phase, cursor, cursorStart, currentLength,
                                          counted, written, missed>>
        /\ state' = state \/ state' = [state EXCEPT ![k] = "Unremoved"]
    BY <1>9 DEF Retire, RetireAndRemove, RemoveFails, TagFails, Visiting
  <2>2. QED
    BY <1>0, <2>1, LossFrame
<1>10. ASSUME CleanAborts PROVE Loss(j)'
  BY <1>7, <1>10 DEF CleanAborts, Abort
<1>11. ASSUME EndIteration PROVE Loss(j)'
  <2>1. /\ phase = "clean" /\ phase' = "pull" /\ AdvanceCursor /\ counted' = {}
        /\ UNCHANGED <<queue, cursorStart, currentLength, written, missed>>
        /\ state'[j] = IF Terminal(j) THEN "Cleaned" ELSE state[j]
    BY <1>11 DEF EndIteration, history
  <2>2. CASE state[j] # "Pending"
    BY <2>1, <2>2 DEF Loss, Terminal
  <2>3. CASE state[j] = "Pending"
    <3>1. PendingLoss(j) /\ j \in counted /\ QueueOf[j] = queue /\ InSegment
      BY <1>0, <2>1, <2>3 DEF Loss, IterationInv, Held
    <3>2. /\ Offset(j, cursor) <= currentLength[j] - 1
          /\ currentLength[j] >= 1 /\ currentLength[j] < CursorLength(j)
      BY <1>b, <3>1 DEF PendingLoss, Moves
    <3>3. cursor \in Segment(queue) /\ cursorStart[j] \in Segment(queue)
      BY <3>1, <3>2 DEF PendingLoss, InSegment, Segment, CursorLength
    <3>4. /\ Offset(j, cursor) \in Int
          /\ Ahead(cursorStart[j], NextSong(cursor, queue), CursorLength(j))
               = Offset(j, cursor) + 1
      BY <1>a, <1>b, <3>1, <3>2, <3>3, AheadInSegment DEF Offset, CursorLength
    <3>5. /\ Offset(j, cursor)' = Offset(j, cursor) + 1
          /\ \A s : Offset(j, s)' = Offset(j, s)
      BY <2>1, <3>4 DEF Offset, AdvanceCursor, NextSong, CursorLength, Ahead
    <3>6. Passed(j) \subseteq Passed(j)'
      <4>1. \A s \in Segment(queue) : Offset(j, s) \in Int
        BY <3>1, <3>3, AheadInSegment DEF Offset, CursorLength
      <4>2. Delivered(j)' = Delivered(j) /\ Delivered(j) \subseteq Segment(queue)
        BY <2>1, <3>1 DEF Delivered, Due
      <4>3. QED
        BY <3>4, <3>5, <4>1, <4>2 DEF Passed
    <3>7. Cardinality(Passed(j)') >= Cardinality(Passed(j))
      BY <3>6, PassedInSegment, SubsetSizes
    <3>8. Moves(j)' = currentLength[j]
      BY <2>1 DEF Moves
    <3>9. PendingLoss(j)'
      BY <1>b, <1>c, <2>1, <3>1, <3>2, <3>4, <3>5, <3>7, <3>8
      DEF PendingLoss, CursorLength
    <3>10. QED
      BY <2>1, <2>3, <3>9 DEF Loss, Terminal
  <2>4. QED
    BY <2>2, <2>3
<1>12. ASSUME Restart PROVE Loss(j)'
  BY <1>12 DEF Restart, Abort, Loss, Held, JobState
<1>13. CASE UNCHANGED vars
  <2>1. /\ UNCHANGED <<phase, cursor, state, cursorStart, currentLength, friends,
                       counted, written, missed>>
    BY <1>13 DEF vars, jobVars, iterVars, history
  <2>2. Delivered(j)' = Delivered(j)
    BY <2>1 DEF Delivered, Due
  <2>3. /\ \A s : Offset(j, s)' = Offset(j, s)
        /\ Offset(j, cursor)' = Offset(j, cursor)
    BY <2>1 DEF Offset, CursorLength, Ahead
  <2>4. Passed(j)' = Passed(j)
    BY <2>1, <2>2, <2>3 DEF Passed
  <2>5. QED
    BY <1>0, <2>1, <2>2, <2>3, <2>4
    DEF Loss, PendingLoss, FinishedLoss, Moves, CursorLength
<1>14. ASSUME NEW q \in Queue, NEW new \in SUBSET Available(q),
              Pull(q, new) \/ \E pushed \in SUBSET new : PullAborts(q, new, pushed)
       PROVE Loss(j)'
  BY <1>1, <1>14 DEF Pull, PullAborts, Abort
<1>15. QED
  BY <1>2, <1>3, <1>4, <1>5, <1>6, <1>8, <1>9, <1>10, <1>11, <1>12, <1>13, <1>14
  DEF Next, Step, Fault

\* Each lost iteration costs a finished job one song at most, for every segment,
\* every moment of joining and every place at which iterations die.
THEOREM LossStaysBounded == Spec => []LossBounded
<1>1. ASSUME TypeOK, LossInv PROVE LossBounded
  <2>1. SUFFICES ASSUME NEW j \in Job, state[j] = "Finished", phase # "write"
                 PROVE Cardinality({s \in Segment(QueueOf[j]) : written[j][s] = 0})
                         <= missed[j]
    BY DEF LossBounded, In
  <2>2. \A s \in Segment(QueueOf[j]) : written[j][s] \in Nat
    BY <1>1, ConstantsAssumption DEF Segment, Song, TypeOK
  <2>3. {s \in Segment(QueueOf[j]) : written[j][s] = 0}
          = Segment(QueueOf[j]) \ Delivered(j)
    BY <2>1, <2>2 DEF Delivered, Due
  <2>4. QED
    BY <1>1, <2>1, <2>3 DEF LossInv, Loss, FinishedLoss
<1>2. Spec => []LossInv
  BY LossInit, LossNext, CoverageCorrect, IterationCorrect, TypeCorrect, PTL DEF Spec
<1>3. QED
  BY <1>1, <1>2, TypeCorrect, PTL
----------------------------------------------------------------------------
(* What is left to do *)

\* An iteration that has begun to use what it pulled has jobs, and a job being
\* polled has not been counted to its end.
ProgressInv ==
  /\ phase # "pull" => Held # {}
  /\ \A j \in Job : state[j] = "Pending" =>
       currentLength[j] = 0 \/ currentLength[j] < CursorLength(j)

LEMMA ProgressInit == Init => ProgressInv
  BY DEF Init, ProgressInv

LEMMA LengthIsNatural ==
  ASSUME NEW j \in Job
  PROVE  CursorLength(j) \in Nat /\ CursorLength(j) <= NumSongs
<1>1. /\ SegStart[QueueOf[j]] \in Nat /\ SegEnd[QueueOf[j]] \in Nat /\ NumSongs \in Nat
      /\ SegStart[QueueOf[j]] <= SegEnd[QueueOf[j]] /\ SegEnd[QueueOf[j]] <= NumSongs
  BY ConstantsAssumption
<1>2. QED
  BY <1>1 DEF CursorLength

LEMMA ProgressNext == TypeOK /\ ProgressInv /\ [Next]_vars => ProgressInv'
<1> SUFFICES ASSUME TypeOK, ProgressInv, [Next]_vars PROVE ProgressInv'
  OBVIOUS
<1> USE DEF TypeOK, ProgressInv, Held
<1>0. \A j \in Job : CursorLength(j)' = CursorLength(j) /\ CursorLength(j) \in Nat
  BY LengthIsNatural DEF CursorLength
<1>1. ASSUME NEW q \in Queue, NEW new \in SUBSET Available(q), Pull(q, new)
      PROVE ProgressInv'
  <2>1. \A j \in Job : state'[j] = IF j \in new THEN "Pulled" ELSE state[j]
    BY <1>1 DEF Pull, Receive
  <2>2. new \subseteq Job /\ \A j \in new : state[j] = "Waiting"
    BY DEF Available, In
  <2>3. Held' # {}
    BY <1>1, <2>1, <2>2 DEF Pull, Take, Discover, TopUp
  <2>4. QED
    BY <1>0, <1>1, <2>1, <2>3 DEF Pull, Take
<1>2. ASSUME NEW q \in Queue, NEW new \in SUBSET Available(q),
             NEW pushed \in SUBSET new, PullAborts(q, new, pushed)
      PROVE ProgressInv'
  BY <1>0, <1>2 DEF PullAborts, Take, Receive, Abort
<1>3. ASSUME NEW j \in Job,
             ReuseFriend(j) \/ AddFriend(j) \/ AddFriendFails(j) \/ PushFriendAborts(j)
      PROVE ProgressInv'
  BY <1>0, <1>3 DEF ReuseFriend, AddFriend, AddFriendFails, PushFriendAborts, Resolving,
                    StartPending, Abort, jobVars
<1>4. ASSUME Gather PROVE ProgressInv'
  <2>1. phase' = "write" /\ phase = "gather"
    BY <1>4 DEF Gather
  <2>2. \A j \in Job : state'[j] \in {state[j], "Finished"}
    BY <1>4 DEF Gather
  <2>3. ASSUME NEW j \in Job, state'[j] = "Pending"
        PROVE  currentLength'[j] < CursorLength(j)
    <3>1. currentLength'[j] = currentLength[j] + 1 /\ ~(currentLength[j] + 1 >= CursorLength(j))
      BY <1>4, <2>3 DEF Gather
    <3>2. QED
      BY <1>0, <3>1
  <2>4. QED
    BY <1>0, <2>1, <2>2, <2>3
<1>5. ASSUME NEW j \in Job,
             Retire(j) \/ RetireAndRemove(j) \/ RemoveFails(j) \/ TagFails(j)
      PROVE ProgressInv'
  BY <1>0, <1>5 DEF Retire, RetireAndRemove, RemoveFails, TagFails, Visiting
<1>6. ASSUME EndIteration \/ Restart PROVE ProgressInv'
  BY <1>0, <1>6 DEF EndIteration, Restart, Abort
<1>7. ASSUME \/ FriendsReady \/ WriteResults \/ AbortsBeforeCounting \/ CleanAborts
             \/ (\E done \in SUBSET counted : WriteAborts(done)) \/ UNCHANGED vars
      PROVE ProgressInv'
  BY <1>0, <1>7 DEF FriendsReady, WriteResults, AbortsBeforeCounting, CleanAborts, WriteAborts,
                    Abort, vars, jobVars
<1>8. QED
  BY <1>1, <1>2, <1>3, <1>4, <1>5, <1>6, <1>7 DEF Next, Step, Fault

LEMMA ProgressCorrect == Spec => []ProgressInv
  BY ProgressInit, ProgressNext, TypeCorrect, PTL DEF Spec

LEMMA LeftBounds ==
  TypeOK /\ ProgressInv => \A j \in Job : Left(j) \in 0 .. NumSongs + 5
<1> SUFFICES ASSUME TypeOK, ProgressInv, NEW j \in Job
             PROVE  Left(j) \in 0 .. NumSongs + 5
  OBVIOUS
<1>1. CursorLength(j) \in Nat /\ CursorLength(j) <= NumSongs /\ NumSongs \in Nat
  BY LengthIsNatural, ConstantsAssumption
<1>2. state[j] = "Pending" => currentLength[j] \in 0 .. CursorLength(j)
  BY <1>1 DEF TypeOK, ProgressInv
<1>3. QED
  BY <1>1, <1>2 DEF Left

LEMMA LeftBoundsNext ==
  (TypeOK /\ ProgressInv => \A j \in Job : Left(j) \in 0 .. NumSongs + 5)'
  BY LeftBounds, PTL

LEMMA OwedIsFinite == IsFiniteSet(Owed) /\ Cardinality(Owed) \in Nat
<1>1. IsFiniteSet(1 .. NumSongs + 5)
  BY FS_Interval, ConstantsAssumption
<1>2. IsFiniteSet(Job \X (1 .. NumSongs + 5))
  BY <1>1, FS_Product, ConstantsAssumption
<1>3. IsFiniteSet(Owed)
  BY <1>2, FS_Subset DEF Owed
<1>4. QED
  BY <1>3, FS_CardinalityType

\* Less is owed if no job has more left, and strictly less if one has less.
LEMMA OwedShrinks ==
  ASSUME TypeOK, TypeOK', ProgressInv, ProgressInv',
         \A j \in Job : Left(j)' <= Left(j)
  PROVE  /\ Cardinality(Owed)' \in Nat /\ Cardinality(Owed)' <= Cardinality(Owed)
         /\ (\E j \in Job : Left(j)' < Left(j)) => Cardinality(Owed)' < Cardinality(Owed)
<1>0. \A j \in Job : Left(j) \in 0 .. NumSongs + 5 /\ Left(j)' \in 0 .. NumSongs + 5
  BY LeftBounds, LeftBoundsNext
<1>1. Owed' \subseteq Owed
  BY <1>0, ConstantsAssumption DEF Owed
<1>2. IsFiniteSet(Owed) /\ Cardinality(Owed) \in Nat
  BY OwedIsFinite
<1>3. IsFiniteSet(Owed') /\ Cardinality(Owed)' = Cardinality(Owed') /\ Cardinality(Owed') \in Nat
  BY <1>1, <1>2, FS_Subset, FS_CardinalityType
<1>4. Cardinality(Owed') <= Cardinality(Owed)
      /\ (Cardinality(Owed) = Cardinality(Owed') => Owed = Owed')
  BY <1>1, <1>2, FS_Subset
<1>5. ASSUME NEW j \in Job, Left(j)' < Left(j)
      PROVE  Owed # Owed'
  <2>1. Left(j) \in 1 .. NumSongs + 5
    BY <1>0, <1>5, ConstantsAssumption
  <2>2. <<j, Left(j)>> \in Owed
    BY <2>1 DEF Owed
  <2>3. <<j, Left(j)>> \notin Owed'
    BY <1>0, <1>5, <2>1 DEF Owed
  <2>4. QED
    BY <2>2, <2>3
<1>6. QED
  BY <1>2, <1>3, <1>4, <1>5

LEMMA TimesGrows ==
  ASSUME NEW k \in Nat, NEW c \in Nat, NEW d \in Nat
  PROVE  /\ k * d \in Nat
         /\ d <= c => k * d <= k * c
         /\ d < c => k * d + k <= k * c
<1>1. k * d \in Nat
  OBVIOUS
<1>2. ASSUME NEW e \in Nat, c = d + e
      PROVE  k * c = k * d + k * e /\ k * e \in Nat /\ (e >= 1 => k * e >= k)
  <2>1. k * c = k * d + k * e /\ k * e \in Nat
    BY <1>2
  <2>2. e >= 1 => k * e = k * (e - 1) + k /\ k * (e - 1) \in Nat
    OBVIOUS
  <2>3. QED
    BY <2>1, <2>2
<1>3. d <= c => c - d \in Nat /\ c = d + (c - d)
  OBVIOUS
<1>4. CASE d <= c
  <2>1. PICK e \in Nat : c = d + e
    BY <1>3, <1>4
  <2>2. k * c = k * d + k * e /\ k * e \in Nat /\ (e >= 1 => k * e >= k)
    BY <1>2, <2>1
  <2>3. d < c => e >= 1
    BY <2>1
  <2>4. QED
    BY <1>1, <2>2, <2>3
<1>5. QED
  BY <1>1, <1>4

LEMMA Rearranged ==
  ASSUME NEW n \in Nat, NEW a \in Nat, NEW b \in Nat, b <= a,
         NEW p \in 1 .. 5, NEW q \in 1 .. 5, NEW u \in 0 .. n, NEW w \in 0 .. n
  PROVE  /\ p \in Nat /\ q \in Nat /\ u \in Nat /\ w \in Nat
         /\ b + (n + 5) <= a => b + q + w < a + p + u
         /\ q + w < p + u => b + q + w < a + p + u
  OBVIOUS

\* A step is worth something if it leaves no more to do for any job and goes on
\* within the iteration, or leaves less to do for one.
LEMMA WorkDrops ==
  ASSUME TypeOK, TypeOK', ProgressInv, ProgressInv',
         \A j \in Job : Left(j)' <= Left(j),
         \/ \E j \in Job : Left(j)' < Left(j)
         \/ Place' < Place /\ visited' = visited
         \/ Place' = Place /\ \E j \in Job \ visited : visited' = visited \cup {j}
  PROVE  Work \in Nat /\ Work' \in Nat /\ Work' < Work
<1> DEFINE n == Cardinality(Job)
           v == Cardinality(Job \ visited)
<1>1. /\ n \in Nat /\ v \in 0 .. n /\ v' \in 0 .. n /\ n' = n
      /\ Cardinality(Job \ visited)' = Cardinality(Job \ visited')
  <2>1. \A s : IsFiniteSet(Job \ s) /\ Cardinality(Job \ s) <= n /\ Cardinality(Job \ s) \in Nat
    BY ConstantsAssumption, FS_Subset, FS_CardinalityType
  <2>2. n \in Nat
    BY ConstantsAssumption, FS_CardinalityType
  <2>3. QED
    BY <2>1, <2>2
<1>2. Place \in 1 .. 5 /\ Place' \in 1 .. 5
  BY DEF Place, TypeOK, Phase
<1>3. Cardinality(Owed) \in Nat /\ Cardinality(Owed)' \in Nat
      /\ Cardinality(Owed)' <= Cardinality(Owed)
      /\ ((\E j \in Job : Left(j)' < Left(j)) => Cardinality(Owed)' < Cardinality(Owed))
  BY OwedShrinks, OwedIsFinite
<1>4. ASSUME NEW j \in Job \ visited, visited' = visited \cup {j}
      PROVE  v' < v
  <2>1. Job \ visited' = (Job \ visited) \ {j} /\ IsFiniteSet(Job \ visited)
    BY <1>4, ConstantsAssumption, FS_Subset
  <2>2. Cardinality((Job \ visited) \ {j}) = Cardinality(Job \ visited) - 1
    BY <2>1, FS_RemoveElement
  <2>3. QED
    BY <1>1, <2>1, <2>2
<1> DEFINE c == Cardinality(Owed)
           m == (n + 5) * c
<1>5. m \in Nat /\ m' \in Nat /\ m' <= m /\ (c' < c => m' + (n + 5) <= m)
  <2>1. n + 5 \in Nat /\ c \in Nat /\ c' \in Nat /\ c' <= c
    BY <1>1, <1>3
  <2>2. m' = (n + 5) * c'
    BY <1>1
  <2>3. QED
    BY <2>1, <2>2, TimesGrows
<1>6. Work = m + Place + v /\ Work' = m' + Place' + v'
  BY DEF Work
<1>7. \/ c' < c
      \/ Place' + v' < Place + v
  <2>1. CASE \E j \in Job : Left(j)' < Left(j)
    BY <1>3, <2>1
  <2>2. CASE Place' < Place /\ visited' = visited
    BY <1>1, <1>2, <2>2
  <2>3. CASE Place' = Place /\ \E j \in Job \ visited : visited' = visited \cup {j}
    BY <1>1, <1>2, <1>4, <2>3
  <2>4. QED
    BY <2>1, <2>2, <2>3
<1>8. Place \in Nat /\ Place' \in Nat /\ v \in Nat /\ v' \in Nat
      /\ (c' < c => m' + Place' + v' < m + Place + v)
      /\ (Place' + v' < Place + v => m' + Place' + v' < m + Place + v)
  BY <1>1, <1>2, <1>5, Rearranged
<1>9. m + Place + v \in Nat /\ m' + Place' + v' \in Nat
  BY <1>5, <1>8
<1>10. QED
  BY <1>6, <1>7, <1>8, <1>9

\* No fault: each step takes some job further, or the iteration.
LEMMA WorkNext ==
  ASSUME TypeOK, TypeOK', IterationInv, IterationInv', ProgressInv, ProgressInv',
         Next, faults' = faults
  PROVE  Work \in Nat /\ Work' \in Nat /\ Work' < Work
<1> USE DEF TypeOK
<1>0. \A j \in Job : /\ CursorLength(j)' = CursorLength(j)
                     /\ CursorLength(j) \in Nat
  BY LengthIsNatural DEF CursorLength
<1>1. Step
  <2>1. ~Abort
    BY DEF Abort
  <2>2. ASSUME Fault PROVE FALSE
    BY <2>1, <2>2 DEF Fault, PullAborts, PushFriendAborts, TagFails, AbortsBeforeCounting,
                      WriteAborts, CleanAborts, Restart
  <2>3. QED
    BY <2>2 DEF Next
<1>2. ASSUME NEW j \in Job, state'[j] = state[j], currentLength'[j] = currentLength[j],
             counted' = counted
      PROVE  Left(j)' = Left(j)
  BY <1>0, <1>2 DEF Left, Terminal
<1>3. ASSUME NEW q \in Queue, NEW new \in SUBSET Available(q), Pull(q, new)
      PROVE  (\A j \in Job : Left(j)' <= Left(j)) /\ Place' < Place /\ visited' = visited
  <2>1. /\ phase = "pull" /\ phase' = "add" /\ UNCHANGED <<currentLength, counted, visited>>
        /\ \A j \in Job : state'[j] = IF j \in new THEN "Pulled" ELSE state[j]
        /\ \A j \in new : state[j] = "Waiting"
    BY <1>3 DEF Pull, Take, Receive, Available, In, iterVars
  <2>2. ASSUME NEW j \in Job PROVE Left(j)' <= Left(j)
    <3>1. CASE j \in new
      <4>1. state[j] = "Waiting" /\ state'[j] = "Pulled"
        BY <2>1, <3>1
      <4>2. Left(j) = CursorLength(j) + 4 + (IF j \in counted THEN 1 ELSE 0)
        BY <4>1 DEF Left, Terminal
      <4>3. Left(j)' = CursorLength(j) + 3 + (IF j \in counted THEN 1 ELSE 0)
        BY <1>0, <2>1, <4>1 DEF Left, Terminal
      <4>4. QED
        BY <1>0, <4>2, <4>3
    <3>2. CASE j \notin new
      <4>1. Left(j)' = Left(j)
        BY <1>2, <2>1, <3>2
      <4>2. QED
        BY <4>1, LeftBounds
    <3>3. QED
      BY <3>1, <3>2
  <2>3. QED
    BY <2>1, <2>2 DEF Place
<1>4. ASSUME NEW k \in Job, ReuseFriend(k) \/ AddFriend(k) \/ AddFriendFails(k)
      PROVE  (\A j \in Job : Left(j)' <= Left(j)) /\ Left(k)' < Left(k)
  <2>1. /\ state[k] = "Pulled" /\ counted' = counted
        /\ \/ state' = [state EXCEPT ![k] = "Pending"]
              /\ currentLength' = [currentLength EXCEPT ![k] = 0]
           \/ state' = [state EXCEPT ![k] = "Failed"] /\ currentLength' = currentLength
    BY <1>4 DEF ReuseFriend, AddFriend, AddFriendFails, Resolving, StartPending, iterVars
  <2>2. Left(k)' < Left(k)
    <3>1. Left(k) = CursorLength(k) + 3 + (IF k \in counted THEN 1 ELSE 0)
      BY <2>1 DEF Left, Terminal
    <3>2. CASE state'[k] = "Pending" /\ currentLength'[k] = 0
      <4>1. Left(k)' = CursorLength(k) - 0 + 2 + (IF k \in counted THEN 1 ELSE 0)
        BY <1>0, <2>1, <3>2 DEF Left, Terminal
      <4>2. QED
        BY <1>0, <3>1, <4>1
    <3>3. CASE state'[k] = "Failed"
      <4>1. Left(k)' = 1 + (IF k \in counted THEN 1 ELSE 0)
        BY <2>1, <3>3 DEF Left, Terminal
      <4>2. QED
        BY <1>0, <3>1, <4>1
    <3>4. QED
      BY <2>1, <3>2, <3>3
  <2>3. ASSUME NEW j \in Job, j # k PROVE Left(j)' = Left(j)
    BY <1>2, <2>1, <2>3
  <2>4. ASSUME NEW j \in Job PROVE Left(j)' <= Left(j)
    <3>1. Left(j)' = Left(j) \/ Left(j)' < Left(j)
      BY <2>2, <2>3
    <3>2. QED
      BY <3>1, LeftBounds, LeftBoundsNext
  <2>5. QED
    BY <2>2, <2>4
<1>5. ASSUME FriendsReady \/ WriteResults
      PROVE  (\A j \in Job : Left(j)' <= Left(j)) /\ Place' < Place /\ visited' = visited
  <2>1. UNCHANGED <<state, currentLength, counted, visited>>
    BY <1>5 DEF FriendsReady, WriteResults, jobVars, iterVars
  <2>2. Place' < Place
    BY <1>5 DEF FriendsReady, WriteResults, Place
  <2>3. QED
    BY <1>2, <2>1, <2>2, LeftBounds
<1>6. ASSUME Gather
      PROVE  (\A j \in Job : Left(j)' <= Left(j)) /\ Place' < Place /\ visited' = visited
  <2>1. phase = "gather" /\ phase' = "write" /\ counted = {} /\ visited' = visited
        /\ counted' = In("Pending")
    BY <1>6 DEF Gather, IterationInv
  <2>2. ASSUME NEW j \in Job PROVE Left(j)' <= Left(j)
    <3>1. CASE state[j] = "Pending"
      <4>1. /\ currentLength'[j] = currentLength[j] + 1
            /\ state'[j] = IF currentLength[j] + 1 >= CursorLength(j)
                             THEN "Finished" ELSE "Pending"
            /\ j \notin counted
            /\ currentLength[j] = 0 \/ currentLength[j] < CursorLength(j)
        BY <1>6, <2>1, <3>1 DEF Gather, ProgressInv
      <4>2. QED
        BY <1>0, <3>1, <4>1 DEF Left, Terminal
    <3>2. CASE state[j] # "Pending"
      <4>1. state'[j] = state[j] /\ j \notin counted /\ j \notin counted'
        BY <1>6, <2>1, <3>2 DEF Gather, In
      <4>2. QED
        BY <1>0, <3>2, <4>1 DEF Left, Terminal
    <3>3. QED
      BY <3>1, <3>2
  <2>3. QED
    BY <2>1, <2>2 DEF Place
<1>7. ASSUME NEW k \in Job, Retire(k) \/ RetireAndRemove(k) \/ RemoveFails(k)
      PROVE  /\ \A j \in Job : Left(j)' <= Left(j)
             /\ Place' = Place /\ k \in Job \ visited /\ visited' = visited \cup {k}
  <2>1. /\ UNCHANGED <<phase, counted, currentLength>> /\ Terminal(k)
        /\ k \notin visited /\ visited' = visited \cup {k}
        /\ state' = state \/ state' = [state EXCEPT ![k] = "Unremoved"]
    BY <1>7 DEF Retire, RetireAndRemove, RemoveFails, Visiting
  <2>2. Left(k)' = Left(k)
    BY <1>0, <2>1 DEF Left, Terminal
  <2>3. ASSUME NEW j \in Job \ {k} PROVE Left(j)' = Left(j)
    BY <1>2, <2>1, <2>3
  <2>4. QED
    BY <2>1, <2>2, <2>3, LeftBounds DEF Place
<1>8. ASSUME EndIteration
      PROVE  (\A j \in Job : Left(j)' <= Left(j)) /\ \E j \in Job : Left(j)' < Left(j)
  <2>1. /\ phase = "clean" /\ counted' = {} /\ currentLength' = currentLength
        /\ \A j \in Job : state'[j] = IF Terminal(j) THEN "Cleaned" ELSE state[j]
    BY <1>8 DEF EndIteration
  <2>2. ASSUME NEW j \in Held PROVE Left(j)' < Left(j)
    <3>1. state[j] \in {"Pending", "Finished", "Failed", "Unremoved"}
      BY <2>1 DEF IterationInv, Held, JobState
    <3>2. CASE state[j] = "Pending"
      <4>1. j \in counted /\ j \in Job
        BY <2>1, <3>2 DEF IterationInv, Held
      <4>2. state'[j] = "Pending" /\ j \notin counted' /\ currentLength'[j] = currentLength[j]
        BY <2>1, <3>2, <4>1 DEF Terminal
      <4>3. Left(j) = CursorLength(j) - currentLength[j] + 2 + 1
        BY <3>2, <4>1 DEF Left, Terminal
      <4>4. Left(j)' = CursorLength(j) - currentLength[j] + 2 + 0
        BY <1>0, <4>1, <4>2 DEF Left, Terminal
      <4>5. QED
        BY <1>0, <4>1, <4>3, <4>4
    <3>3. CASE state[j] # "Pending"
      BY <1>0, <2>1, <3>1, <3>3 DEF Left, Terminal, Held
    <3>4. QED
      BY <3>2, <3>3
  <2>3. ASSUME NEW j \in Job \ Held PROVE Left(j)' <= Left(j)
    BY <1>0, <2>1, <2>3 DEF IterationInv, Left, Terminal, Held
  <2>4. Held # {} /\ Held \subseteq Job
    BY <2>1 DEF ProgressInv, Held
  <2>5. \A j \in Job : Left(j)' <= Left(j)
    <3>1. \A j \in Held : Left(j)' <= Left(j)
      BY <2>2, <2>4, LeftBounds, LeftBoundsNext
    <3>2. QED
      BY <2>3, <3>1
  <2>6. QED
    BY <2>2, <2>4, <2>5
<1>9. QED
  <2>1. \A j \in Job : Left(j)' <= Left(j)
    BY <1>1, <1>3, <1>4, <1>5, <1>6, <1>7, <1>8 DEF Step
  <2>2. \/ \E j \in Job : Left(j)' < Left(j)
        \/ Place' < Place /\ visited' = visited
        \/ Place' = Place /\ \E j \in Job \ visited : visited' = visited \cup {j}
    BY <1>1, <1>3, <1>4, <1>5, <1>6, <1>7, <1>8 DEF Step
  <2>3. QED
    BY <2>1, <2>2, WorkDrops

\* Without faults every step takes the worker nearer to the end of its jobs.
THEOREM EveryStepCounts == Spec => WorkShrinks
<1>1. ASSUME TypeOK, TypeOK', IterationInv, IterationInv', ProgressInv, ProgressInv',
             [Next]_vars
      PROVE  [faults' = faults => Work \in Nat /\ Work' \in Nat /\ Work' < Work]_vars
  BY <1>1, WorkNext
<1>2. QED
  BY <1>1, TypeCorrect, IterationCorrect, ProgressCorrect, PTL DEF Spec, WorkShrinks
=============================================================================
