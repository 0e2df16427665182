----------------------------- MODULE WorkerScan -----------------------------
(***************************************************************************)
(* One crawler worker (cuscuta-worker): the loop that walks a cursor over  *)
(* the songs of a sub-queue's segment, lets jobs join wherever the cursor  *)
(* stands, and retires a job once it was counted for a whole segment.      *)
(*                                                                         *)
(* A Job is one delivered stream entry.  An iteration of internal_loop is  *)
(* cut into the phases between which an error (`?`) can end it; the next   *)
(* iteration starts again from "pull" with whatever was already changed.   *)
(***************************************************************************)
EXTENDS Integers, FiniteSets

CONSTANTS
  Job,        \* stream entries the worker may be handed
  Queue,      \* sub-queues, one per (song list, segment)
  Friend,     \* friend codes
  QueueOf,    \* the sub-queue of a job
  FriendOf,   \* the friend code of a job
  SegStart,   \* first song of a sub-queue's segment
  SegEnd,     \* one past its last song; equal to SegStart for an info-only job
  NumSongs,   \* length of the song list
  MaxJobs,    \* worker_max_jobs
  MaxFaults   \* bound on the aborted iterations of a run

ASSUME ConstantsAssumption ==
  /\ IsFiniteSet(Job)
  /\ QueueOf \in [Job -> Queue]
  /\ FriendOf \in [Job -> Friend]
  /\ NumSongs \in Nat
  /\ SegStart \in [Queue -> Nat]
  /\ SegEnd \in [Queue -> Nat]
  /\ \A q \in Queue : SegStart[q] <= SegEnd[q] /\ SegEnd[q] <= NumSongs
  /\ MaxJobs \in Nat
  /\ MaxFaults \in Nat

VARIABLES
  phase,          \* where internal_loop stands
  queue,          \* current_segments of the iteration
  cursor,         \* index of the song polled by the iteration
  state,          \* JobState; "Waiting" in the stream, "Cleaned" dropped
  cursorStart,    \* JobEssential.cursor_start
  currentLength,  \* JobState::Pending.current_length
  friends,        \* the worker's copy of the account's friend list
  counted,        \* jobs whose current_length this iteration has raised
  visited,        \* jobs clean_jobs has dealt with in this iteration
  deleted,        \* deleted_friends_code of this clean_jobs
  \* history, read by properties only
  written,        \* times a song's scores were pushed for a job
  missed,         \* iterations counted for a job without a new song's scores
  orphaned,       \* friends removed by a clean_jobs that then failed
  leaked,         \* friends the worker no longer tries to remove
  faults

jobVars  == <<state, cursorStart, currentLength>>
iterVars == <<counted, visited, deleted>>
history  == <<written, missed, orphaned, leaked>>
vars == <<phase, queue, cursor, jobVars, friends, iterVars, history, faults>>

Song == 0 .. NumSongs - 1
Phase == {"pull", "add", "gather", "write", "clean"}
\* "Failed" carries no friend info, "Unremoved" is a Failed that does: the
\* remote refused to remove the friend of a finished job.
JobState ==
  {"Waiting", "Pulled", "Pending", "Finished", "Failed", "Unremoved", "Cleaned"}

Segment(q) == SegStart[q] .. SegEnd[q] - 1
\* Mutant: the length of an inclusive range, taken one too short.
CursorLengthShort(j) == SegEnd[QueueOf[j]] - SegStart[QueueOf[j]] - 1
CursorLength(j) == SegEnd[QueueOf[j]] - SegStart[QueueOf[j]]

In(s) == {j \in Job : state[j] = s}
Held == {j \in Job : state[j] \notin {"Waiting", "Cleaned"}}
CodesOf(jobs) == {FriendOf[j] : j \in jobs}

----------------------------------------------------------------------------

Init ==
  /\ phase = "pull" /\ queue \in Queue /\ cursor = 0
  /\ state = [j \in Job |-> "Waiting"]
  /\ cursorStart = [j \in Job |-> SegStart[QueueOf[j]]]
  /\ currentLength = [j \in Job |-> 0]
  /\ friends = {} /\ counted = {} /\ visited = {} /\ deleted = {}
  /\ written = [j \in Job |-> [s \in Song |-> 0]]
  /\ missed = [j \in Job |-> 0]
  /\ orphaned = {} /\ leaked = {} /\ faults = 0

\* An `?` leaves internal_loop; worker_loop sleeps and starts over.
Abort ==
  /\ faults < MaxFaults
  /\ faults' = faults + 1
  /\ phase' = "pull"

----------------------------------------------------------------------------
(* scan_sub_queue_and_pull_job *)

\* Mutant: the cursor is left where the previous segment ended.
DiscoverKeepsCursor(q, new) ==
  /\ Held = {} /\ new # {}
  /\ queue' = q /\ UNCHANGED cursor

\* The worker holds no job: take a sub-queue that has some, put the cursor
\* at its start.
Discover(q, new) ==
  /\ Held = {} /\ new # {}
  /\ queue' = q /\ cursor' = SegStart[q]

\* It holds jobs: only their sub-queue is asked for more, the cursor stays.
TopUp(q, new) ==
  /\ Held # {} /\ q = queue
  /\ UNCHANGED <<queue, cursor>>

Available(q) == {j \in In("Waiting") : QueueOf[j] = q}

\* Mutant: only jobs being polled take a place.
RoomForIgnoringFinished(new) ==
  Cardinality(In("Pending")) + Cardinality(new) <= MaxJobs

\* valid_jobs: no more than worker_max_jobs are held.
RoomFor(new) == Cardinality(Held) + Cardinality(new) <= MaxJobs

Take(q, new) ==
  /\ phase = "pull"
  /\ new \subseteq Available(q)
  /\ RoomFor(new)
  /\ Discover(q, new) \/ TopUp(q, new)
  /\ UNCHANGED <<cursorStart, currentLength, friends, iterVars, history>>

Receive(pushed) ==
  state' = [j \in Job |-> IF j \in pushed THEN "Pulled" ELSE state[j]]

Pull(q, new) ==
  /\ Take(q, new)
  /\ Receive(new)
  /\ phase' = "add"
  /\ UNCHANGED faults

\* update_job_track_info failed for one of the new jobs: those before it are
\* held, the others stay pending in the consumer group.
PullAborts(q, new, pushed) ==
  /\ Take(q, new)
  /\ pushed # new
  /\ Receive(pushed)
  /\ Abort

----------------------------------------------------------------------------
(* try_add_friends *)

\* The codes for which a friend is taken to be in the friend list.
KnownCodes == CodesOf(In("Pending") \cup In("Finished"))

StartPending(j) ==
  /\ state' = [state EXCEPT ![j] = "Pending"]
  /\ cursorStart' = [cursorStart EXCEPT ![j] = cursor]
  /\ currentLength' = [currentLength EXCEPT ![j] = 0]

Resolving(j) ==
  /\ phase = "add" /\ state[j] = "Pulled"
  /\ UNCHANGED <<queue, cursor, iterVars, written, missed>>

ReuseFriend(j) ==
  /\ Resolving(j)
  /\ FriendOf[j] \in KnownCodes
  /\ StartPending(j)
  /\ UNCHANGED <<phase, friends, orphaned, leaked, faults>>

\* The remote list grew by one, so the friend was not in the copy before.
AddFriend(j) ==
  /\ Resolving(j)
  /\ FriendOf[j] \notin KnownCodes \cup friends
  /\ friends' = friends \cup {FriendOf[j]}
  /\ orphaned' = orphaned \ {FriendOf[j]}
  /\ leaked' = leaked \ {FriendOf[j]}
  /\ StartPending(j)
  /\ UNCHANGED <<phase, faults>>

AddFriendFails(j) ==
  /\ Resolving(j)
  /\ FriendOf[j] \notin KnownCodes
  /\ state' = [state EXCEPT ![j] = "Failed"]
  /\ UNCHANGED <<phase, cursorStart, currentLength, friends, orphaned, leaked, faults>>

\* push_friend_info failed before the job became Pending: the friend is in the
\* list, nothing remembers for which job.
PushFriendAborts(j) ==
  /\ Resolving(j)
  /\ FriendOf[j] \notin KnownCodes \cup friends
  /\ friends' = friends \cup {FriendOf[j]}
  /\ orphaned' = orphaned \ {FriendOf[j]}
  /\ leaked' = leaked \cup {FriendOf[j]}
  /\ Abort
  /\ UNCHANGED jobVars

FriendsReady ==
  /\ phase = "add" /\ In("Pulled") = {}
  /\ phase' = "gather"
  /\ UNCHANGED <<queue, cursor, jobVars, friends, iterVars, history, faults>>

----------------------------------------------------------------------------
(* gather_rank_list and process_job_with_result *)

\* A rank list holds the scores of the account's friends only.
Blind(j) == state[j] = "Pending" /\ FriendOf[j] \notin friends

Gather ==
  /\ phase = "gather" /\ phase' = "write"
  /\ counted' = In("Pending")
  /\ currentLength' = [j \in Job |->
        IF state[j] = "Pending" THEN currentLength[j] + 1 ELSE currentLength[j]]
  /\ state' = [j \in Job |->
        IF state[j] = "Pending" /\ currentLength[j] + 1 >= CursorLength(j)
          THEN "Finished" ELSE state[j]]
  /\ missed' = [j \in Job |-> IF Blind(j) THEN missed[j] + 1 ELSE missed[j]]
  /\ UNCHANGED <<queue, cursor, cursorStart, friends, visited, deleted,
                 written, orphaned, leaked, faults>>

\* No redis connection in try_add_friends, or no network while polling: the
\* same song is polled by the next iteration.
AbortsBeforeCounting ==
  /\ phase \in {"add", "gather"} /\ Abort
  /\ UNCHANGED <<queue, cursor, jobVars, friends, iterVars, history>>

----------------------------------------------------------------------------
(* write_result_to_redis and refresh_redis_ttl *)

\* The songs polled by the iteration: none for an empty segment.
Polled == {cursor} \cap Segment(queue)

PushScores(jobs) ==
  written' = [j \in Job |-> [s \in Song |->
      IF j \in jobs /\ FriendOf[j] \in friends /\ s \in Polled
        THEN written[j][s] + 1 ELSE written[j][s]]]

WriteResults ==
  /\ phase = "write" /\ phase' = "clean"
  /\ PushScores(counted)
  /\ UNCHANGED <<queue, cursor, jobVars, friends, iterVars,
                 missed, orphaned, leaked, faults>>

\* The iteration dies after its jobs were counted and before the cursor moves.
MissIteration ==
  /\ missed' = [j \in Job |-> IF j \in counted THEN missed[j] + 1 ELSE missed[j]]
  /\ counted' = {} /\ visited' = {} /\ deleted' = {}

\* Some scores may be in redis already; all of them when refresh_redis_ttl fails.
WriteAborts(done) ==
  /\ phase = "write"
  /\ PushScores(done)
  /\ MissIteration
  /\ Abort
  /\ UNCHANGED <<queue, cursor, jobVars, friends, orphaned, leaked>>

----------------------------------------------------------------------------
(* clean_jobs *)

\* Mutant: jobs that failed to get a friend are never dropped.
TerminalFinished(j) == state[j] \in {"Finished", "Unremoved"}
Terminal(j) == state[j] \in {"Finished", "Failed", "Unremoved"}
HasFriend(j) == state[j] \in {"Finished", "Unremoved"}
\* Mutant: jobs already being polled are forgotten.
StillWantedPulled == CodesOf(In("Pulled"))
\* pending_friends_code
StillWanted == CodesOf(In("Pulled") \cup In("Pending"))
\* Mutant: another finished job of the same friend also keeps it.
MustRemoveUnshared(j) ==
  HasFriend(j) /\ FriendOf[j] \notin CodesOf(Held \ {j}) \cup deleted
MustRemove(j) == HasFriend(j) /\ FriendOf[j] \notin StillWanted \cup deleted

Visiting(j) ==
  /\ phase = "clean" /\ Terminal(j) /\ j \notin visited
  /\ visited' = visited \cup {j}
  /\ UNCHANGED <<phase, queue, cursor, cursorStart, currentLength, counted,
                 written, missed, orphaned>>

\* xack and the tag were written; no friend to remove.
Retire(j) ==
  /\ Visiting(j)
  /\ ~MustRemove(j)
  /\ UNCHANGED <<state, friends, deleted, leaked, faults>>

RetireAndRemove(j) ==
  /\ Visiting(j)
  /\ MustRemove(j)
  /\ friends' = friends \ {FriendOf[j]}
  /\ deleted' = deleted \cup {FriendOf[j]}
  /\ leaked' = leaked \ {FriendOf[j]}
  /\ UNCHANGED <<state, faults>>

\* The remote refuses the removal: the job is Failed, the friend stays.
RemoveFails(j) ==
  /\ Visiting(j)
  /\ MustRemove(j)
  /\ state' = [state EXCEPT ![j] = "Unremoved"]
  /\ leaked' = leaked \cup {FriendOf[j]}
  /\ UNCHANGED <<friends, deleted, faults>>

\* The tag could not be written: `continue`, and the job is dropped all the same.
TagFails(j) ==
  /\ faults < MaxFaults /\ faults' = faults + 1
  /\ Visiting(j)
  /\ leaked' = IF MustRemove(j) THEN leaked \cup {FriendOf[j]} ELSE leaked
  /\ UNCHANGED <<state, friends, deleted>>

\* No redis connection at the start of clean_jobs, or xack failed.
CleanAborts ==
  /\ phase = "clean"
  /\ visited = {} \/ \E j \in Job : Terminal(j) /\ j \notin visited
  /\ MissIteration
  /\ orphaned' = orphaned \cup deleted
  /\ Abort
  /\ UNCHANGED <<queue, cursor, jobVars, friends, written, leaked>>

\* Mutant: wrap one song late.
AdvanceCursorLate ==
  cursor' = IF cursor + 1 > SegEnd[queue] THEN SegStart[queue] ELSE cursor + 1
AdvanceCursor ==
  cursor' = IF cursor + 1 >= SegEnd[queue] THEN SegStart[queue] ELSE cursor + 1

\* The second loop of clean_jobs, then internal_loop moves the cursor.
EndIteration ==
  /\ phase = "clean" /\ phase' = "pull"
  /\ \A j \in Job : Terminal(j) => j \in visited
  /\ state' = [j \in Job |-> IF Terminal(j) THEN "Cleaned" ELSE state[j]]
  /\ AdvanceCursor
  /\ counted' = {} /\ visited' = {} /\ deleted' = {}
  /\ UNCHANGED <<queue, cursorStart, currentLength, friends, history, faults>>

----------------------------------------------------------------------------
(* worker_loop returns: on cancellation, or on an api error other than a    *)
(* network one.  resume_state re-enqueues every held job; the next loop     *)
(* starts with an empty friend list and cursor 0.                           *)
Restart ==
  /\ phase \in {"pull", "gather"} /\ Abort
  /\ state' = [j \in Job |-> IF j \in Held THEN "Waiting" ELSE state[j]]
  /\ written' = [j \in Job |-> IF j \in Held THEN [s \in Song |-> 0] ELSE written[j]]
  /\ missed' = [j \in Job |-> IF j \in Held THEN 0 ELSE missed[j]]
  /\ currentLength' = [j \in Job |-> IF j \in Held THEN 0 ELSE currentLength[j]]
  /\ cursor' = 0 /\ friends' = {} /\ orphaned' = {} /\ leaked' = {}
  /\ UNCHANGED <<queue, cursorStart, iterVars>>

----------------------------------------------------------------------------

Step ==
  \/ \E q \in Queue : \E new \in SUBSET Available(q) : Pull(q, new)
  \/ \E j \in Job :
       \/ ReuseFriend(j) \/ AddFriend(j) \/ AddFriendFails(j)
       \/ Retire(j) \/ RetireAndRemove(j) \/ RemoveFails(j)
  \/ FriendsReady
  \/ Gather
  \/ WriteResults
  \/ EndIteration

Fault ==
  \/ \E q \in Queue : \E new \in SUBSET Available(q) :
       \E pushed \in SUBSET new : PullAborts(q, new, pushed)
  \/ \E j \in Job : PushFriendAborts(j) \/ TagFails(j)
  \/ AbortsBeforeCounting
  \/ \E done \in SUBSET counted : WriteAborts(done)
  \/ CleanAborts
  \/ Restart

Next == Step \/ Fault

\* worker_loop calls internal_loop again for as long as it is not cancelled.
Spec == Init /\ [][Next]_vars /\ WF_vars(Step)

----------------------------------------------------------------------------
(* Properties *)

TypeOK ==
  /\ phase \in Phase /\ queue \in Queue /\ cursor \in Nat
  /\ state \in [Job -> JobState]
  /\ cursorStart \in [Job -> Nat]
  /\ currentLength \in [Job -> Nat]
  /\ friends \in SUBSET Friend
  /\ counted \in SUBSET Job /\ visited \in SUBSET Job
  /\ deleted \in SUBSET Friend
  /\ written \in [Job -> [Song -> Nat]]
  /\ missed \in [Job -> Nat]
  /\ orphaned \in SUBSET Friend /\ leaked \in SUBSET Friend
  /\ faults \in 0 .. MaxFaults

\* All held jobs come from one sub-queue, the one being polled, and the cursor
\* never leaves its segment: jobs of another sub-queue would be counted for
\* songs that are not theirs.
HeldInSegment ==
  Held # {} =>
    /\ \A j \in Held : QueueOf[j] = queue
    /\ SegStart[queue] <= cursor
    /\ cursor < SegEnd[queue] \/ cursor = SegStart[queue]

\* The worker never holds more than worker_max_jobs, whatever it could not
\* clean in an earlier iteration.
HeldBounded == Cardinality(Held) <= MaxJobs

\* A finished job none of whose iterations was lost has had every song of its
\* segment polled and pushed exactly once, wherever the cursor stood when the
\* job joined and however many jobs came and went meanwhile.
FinishedIsComplete ==
  \A j \in In("Finished") :
    phase # "write" /\ missed[j] = 0 =>
      \A s \in Song :
        written[j][s] = IF s \in Segment(QueueOf[j]) THEN 1 ELSE 0

\* Each lost iteration costs a finished job one song at most.
LossBounded ==
  \A j \in In("Finished") :
    phase # "write" =>
      Cardinality({s \in Segment(QueueOf[j]) : written[j][s] = 0}) <= missed[j]

\* A job being polled has its friend in the account's friend list, except for
\* a friend that a failing clean_jobs removed behind a job it left Finished.
PendingIsFriendUnlessOrphaned ==
  \A j \in In("Pending") : FriendOf[j] \in friends \cup orphaned

\* The same without the exception, as the comment on JobState::Pending has it.
PendingIsFriend ==
  \A j \in In("Pending") : FriendOf[j] \in friends

\* Between iterations every friend in the list serves a held job, or a step
\* that lost track of it has been counted: the list does not fill up silently.
FriendsInUse ==
  phase = "pull" =>
    friends \ leaked \subseteq CodesOf(In("Pending") \cup In("Finished"))

\* Iterations that may still end with the job held, more than enough of them; the
\* one that has counted it ends when the cursor moves.
Left(j) ==
  (CASE state[j] = "Waiting" -> CursorLength(j) + 4
     [] state[j] = "Pulled" -> CursorLength(j) + 3
     [] state[j] = "Pending" -> CursorLength(j) - currentLength[j] + 2
     [] Terminal(j) -> 1
     [] OTHER -> 0)
  + (IF j \in counted THEN 1 ELSE 0)
Owed == {p \in Job \X (1 .. NumSongs + 5) : p[2] <= Left(p[1])}

\* What is left to do: iterations owed to jobs, phases of this one, visits.
Place ==
  CASE phase = "pull" -> 5 [] phase = "add" -> 4 [] phase = "gather" -> 3
    [] phase = "write" -> 2 [] phase = "clean" -> 1
Work ==
  (Cardinality(Job) + 5) * Cardinality(Owed) + Place + Cardinality(Job \ visited)

\* No step is in vain and no iteration passes a held job by, whoever joins when:
\* without faults the worker comes to the end of any set of jobs in so many steps.
WorkShrinks == [][faults' = faults => Work \in Nat /\ Work' \in Nat /\ Work' < Work]_vars

\* Every queued job is eventually pulled and retired, aborted iterations and
\* restarts notwithstanding.
EveryJobCleaned == \A j \in Job : <>[](state[j] = "Cleaned")
=============================================================================
