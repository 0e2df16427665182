---------------------------- MODULE FriendModify ----------------------------
(***************************************************************************)
(* How a worker changes the friend list of its account in the remote       *)
(* service: try_modify_remote_friend sends the request through a retrying  *)
(* wrapper, compares the list in the reply with its own copy, polls the    *)
(* list while the two disagree, and sends the request again when the list  *)
(* shows that nothing happened.                                            *)
(*                                                                         *)
(* The remote service is what cuscuta-mock does, plus the losses the code  *)
(* handles or suffers: a reply that never arrives, a 5xx, a reply that     *)
(* cannot be used, a 4xx that is not about the friend.  A friend code and  *)
(* the user_id it stands for are one element of Friend.                    *)
(*                                                                         *)
(* When a worker starts, its list is what was left by whoever had the      *)
(* account before, and init removes those friends one by one.  The loop    *)
(* runs beside it: init publishes the account before it asks for the list, *)
(* and an account that has logged in before is usable at once.             *)
(***************************************************************************)
EXTENDS Integers, FiniteSets

CONSTANTS
  Friend,
  None,
  Existing,     \* the friend codes that exist
  Capacity,     \* friends the service allows an account
  MaxJobs,      \* worker_max_jobs
  MaxRetries,   \* worker_max_retries
  MaxEndure,    \* empty lists put up with while an add is awaited
  MaxGlitches,  \* bound on 429s and empty lists
  MaxLosses,    \* bound on the faults that leave the list unknown
  MaxRefusals   \* bound on 4xx answers that are not about the friend

\* Nothing in the code relates worker_max_jobs to the service's limit: it is
\* for the deployment to choose it no larger.
ASSUME ConstantsAssumption ==
  /\ IsFiniteSet(Friend) /\ None \notin Friend
  /\ Existing \subseteq Friend
  /\ Capacity \in Nat /\ MaxJobs \in Nat /\ MaxJobs <= Capacity
  /\ MaxRetries \in Nat \ {0}
  /\ MaxEndure \in Nat
  /\ MaxGlitches \in Nat /\ MaxLosses \in Nat /\ MaxRefusals \in Nat

VARIABLES
  init,     \* init is "listing" the old friends, "cleaning" them away or "over"
  found,    \* those it still has to remove
  remote,   \* the account's friends in the service
  cached,   \* the worker's copy, `friends`
  infoOf,   \* friend_info of the jobs with this code
  phase,    \* "request" and "list" inside a call; "panicked"
  kind,     \* ExpectedModify
  code,
  retries,  \* of xxxxxx_safe_call_ex
  endure,   \* empty_endure
  \* history, read by properties only
  notFound, \* codes reported as FriendNotFound since the worker started
  raced,    \* whether the loop has made a call before init was over
  strays,   \* friends in the list and not in the copy when a call began
  exact,    \* the copy was exact when the call began, and init over
  glitches,
  losses,
  refusals

worker == <<cached, infoOf>>
call == <<phase, kind, code, retries, endure>>
start == <<init, found, raced>>
faults == <<glitches, losses, refusals>>
vars == <<remote, worker, call, start, notFound, strays, exact, faults>>

Lists == {friends \in SUBSET Existing : Cardinality(friends) <= Capacity}

Init ==
  /\ remote \in Lists
  /\ init = "listing" /\ found = {} /\ raced = FALSE
  /\ cached = {} /\ infoOf = [f \in Friend |-> None]
  /\ phase = "idle" /\ kind = "Add" /\ code = None
  /\ retries = 0 /\ endure = 0
  /\ notFound = {} /\ strays = {} /\ exact = TRUE
  /\ glitches = 0 /\ losses = 0 /\ refusals = 0

Glitch ==
  glitches < MaxGlitches /\ glitches' = glitches + 1 /\ UNCHANGED <<losses, refusals>>
Loss == losses < MaxLosses /\ losses' = losses + 1 /\ UNCHANGED <<glitches, refusals>>
Refusal ==
  refusals < MaxRefusals /\ refusals' = refusals + 1 /\ UNCHANGED <<glitches, losses>>
NoFault == UNCHANGED faults

----------------------------------------------------------------------------
(* try_add_friends and clean_jobs call *)

Begin(k, f) ==
  /\ phase = "idle" /\ phase' = "request"
  /\ kind' = k /\ code' = f
  /\ retries' = 0 /\ endure' = 0
  /\ raced' = (raced \/ init # "over")
  /\ exact' = (remote = cached /\ init = "over")
  /\ strays' = strays \cup (remote \ cached)
  /\ UNCHANGED <<init, found, remote, worker, notFound, faults>>

\* No job that is being polled has the code; there is room for the job.
BeginAdd(f) ==
  /\ infoOf[f] = None
  /\ Cardinality({g \in Friend : infoOf[g] # None}) < MaxJobs
  /\ Begin("Add", f)

BeginRemove(f) ==
  /\ infoOf[f] # None
  /\ Begin("Remove", f)

----------------------------------------------------------------------------
(* The end of a call *)

EndCall ==
  /\ phase' = "idle" /\ kind' = "Add" /\ code' = None
  /\ retries' = 0 /\ endure' = 0

\* calc_friend_delta: what is in the new list only, and otherwise a lookup of
\* the removed ids in the new list, which fails.
Added(list) == list \ cached
DeltaOf(list) ==
  CASE Cardinality(Added(list)) = 1 -> "Add"
    [] Cardinality(Added(list)) > 1 -> "Bad"
    [] Added(list) = {} /\ cached \ list # {} -> "Panic"
    [] OTHER -> "Same"

\* Mutant: the friend asked for is taken to be the one that was added.
KeepFriendUnchecked(list) ==
  infoOf' = [infoOf EXCEPT ![code] = CHOOSE f \in list : TRUE]
KeepFriend(list) ==
  infoOf' = [infoOf EXCEPT ![code] = CHOOSE f \in Added(list) : TRUE]

\* A bad delta ends the iteration with an error and changes nothing.
ReturnAdd(list) ==
  /\ kind = "Add"
  /\ \/ DeltaOf(list) = "Add" /\ cached' = list /\ KeepFriend(list) /\ EndCall
     \/ DeltaOf(list) \in {"Bad", "Same"} /\ UNCHANGED worker /\ EndCall
     \/ DeltaOf(list) = "Panic" /\ phase' = "panicked"
          /\ UNCHANGED <<worker, kind, code, retries, endure>>

ReturnRemove(list) ==
  /\ kind = "Remove"
  /\ cached' = list
  /\ infoOf' = [infoOf EXCEPT ![code] = None]
  /\ EndCall

Return(list) == (ReturnAdd(list) \/ ReturnRemove(list)) /\ UNCHANGED notFound

\* The job fails; a job whose friend could not be removed is dropped as well.
Fail(reason) ==
  /\ infoOf' = [infoOf EXCEPT ![code] = None]
  /\ notFound' = IF kind = "Add" /\ reason = "FriendNotFound"
                   THEN notFound \cup {code} ELSE notFound
  /\ EndCall
  /\ UNCHANGED cached

----------------------------------------------------------------------------
(* try_modify_friend and wait_for_result look at a list *)

Expected == cached \ {infoOf[code]}

\* Mutants: any other list will do; any list without the friend removed; any
\* list that shows a removal, the one asked for or not.
ConfirmsChanged(list) ==
  IF kind = "Add" THEN list # cached ELSE list = Expected
ConfirmsGone(list) ==
  IF kind = "Add" THEN Cardinality(list) = Cardinality(cached) + 1
                  ELSE infoOf[code] \notin list
ConfirmsShorter(list) ==
  IF kind = "Add" THEN Cardinality(list) = Cardinality(cached) + 1
                  ELSE Cardinality(list) <= Cardinality(cached)
Confirms(list) ==
  IF kind = "Add" THEN Cardinality(list) = Cardinality(cached) + 1
                  ELSE list = Expected

Wait ==
  /\ phase' = "list" /\ retries' = 0 /\ endure' = 0
  /\ UNCHANGED <<worker, kind, code, notFound>>

\* Mutant: a removal that did not happen is waited for.
PollsAgainAlways(list) ==
  IF kind = "Add" THEN list = {} /\ endure < MaxEndure ELSE TRUE
PollsAgain(list) ==
  IF kind = "Add" THEN list = {} /\ endure < MaxEndure ELSE list # cached

Poll ==
  /\ endure' = IF kind = "Add" THEN endure + 1 ELSE endure
  /\ retries' = 0
  /\ UNCHANGED <<worker, phase, kind, code, notFound>>

LoopAgain ==
  /\ phase' = "request" /\ retries' = 0 /\ endure' = 0
  /\ UNCHANGED <<worker, kind, code, notFound>>

Reply(list) ==
  \/ Confirms(list) /\ Return(list)
  \/ ~Confirms(list) /\ phase = "request" /\ Wait
  \/ ~Confirms(list) /\ phase = "list" /\ PollsAgain(list) /\ Poll
  \/ ~Confirms(list) /\ phase = "list" /\ ~PollsAgain(list) /\ LoopAgain

\* Mutant: the first 429 or network error is final.
TryAgainNever(reason) == Fail(reason)
\* xxxxxx_safe_call_ex: 429s and network errors are tried again.
TryAgain(reason) ==
  \/ /\ retries + 1 < MaxRetries
     /\ retries' = retries + 1
     /\ UNCHANGED <<worker, phase, kind, code, endure, notFound>>
  \/ retries + 1 >= MaxRetries /\ Fail(reason)

----------------------------------------------------------------------------
(* The service answers *)

Possible ==
  IF kind = "Add"
    THEN code \in Existing \ remote /\ Cardinality(remote) < Capacity
    ELSE infoOf[code] \in remote

Changed == IF kind = "Add" THEN remote \cup {code} ELSE remote \ {infoOf[code]}

Perform(does) ==
  /\ does => Possible
  /\ remote' = IF does THEN Changed ELSE remote

Answering(p) == phase = p /\ UNCHANGED <<start, strays, exact>>

Accept ==
  /\ Answering("request") /\ NoFault
  /\ Possible
  /\ remote' = Changed
  /\ Reply(Changed)

\* No such user, already a friend, list full, not a friend: a 4xx.
Refuse ==
  /\ Answering("request") /\ NoFault
  /\ ~Possible
  /\ Fail("FriendNotFound")
  /\ UNCHANGED remote

\* 401 or 403 of a token that has expired or belongs to somebody else, or any other
\* 4xx but 429: the code takes it for an unknown player as well.
RefuseOther ==
  /\ Answering("request") /\ Refusal
  /\ Fail("FriendNotFound")
  /\ UNCHANGED remote

\* 429, in an add before it is looked at and in a removal too.
Limit ==
  /\ Glitch
  /\ \/ Answering("request") /\ TryAgain("FriendNotFound")
     \/ Answering("list") /\ TryAgain("ApiError")
  /\ UNCHANGED remote

\* 200 and an empty list: an add was not done, a removal was.
EmptyReply ==
  /\ Answering("request") /\ Glitch
  /\ Perform(kind = "Remove" /\ Possible)
  /\ Reply({})

\* The connection breaks before or after the service acted.
LoseReply(does) ==
  /\ Answering("request") /\ Loss
  /\ Perform(does)
  /\ TryAgain("ApiError")

\* A 5xx other than 500 sends the worker to the list.
Unavailable(does) ==
  /\ Answering("request") /\ Loss
  /\ Perform(does)
  /\ Wait

\* 500, or a body that cannot be decoded.
Broken(does) ==
  /\ Answering("request") /\ Loss
  /\ Perform(does)
  /\ Fail("ApiError")

List == Answering("list") /\ NoFault /\ Reply(remote) /\ UNCHANGED remote

EmptyList == Answering("list") /\ Glitch /\ Reply({}) /\ UNCHANGED remote

ListFails ==
  /\ Answering("list") /\ Loss
  /\ TryAgain("ApiError") \/ Fail("ApiError")
  /\ UNCHANGED remote

----------------------------------------------------------------------------

\* The process starts anew, after a crash or because init halted it.
Restart ==
  /\ cached' = {} /\ infoOf' = [f \in Friend |-> None] /\ EndCall
  /\ init' = "listing" /\ found' = {} /\ raced' = FALSE
  /\ notFound' = {}
  /\ UNCHANGED <<remote, strays, exact, faults>>

Cleaning == UNCHANGED <<worker, call, raced, notFound, strays, exact>>

InitFinds(friends) ==
  /\ init = "listing" /\ init' = "cleaning"
  /\ found' = friends
  /\ Cleaning /\ UNCHANGED remote

InitLists == InitFinds(remote) /\ NoFault

\* The list was answered empty.
InitListsNothing == InitFinds({}) /\ Loss

\* A friend that is not there any more is a 4xx, and the worker halts.
InitRemoves(f) ==
  /\ init = "cleaning" /\ f \in found \cap remote
  /\ found' = found \ {f}
  /\ remote' = remote \ {f}
  /\ Cleaning /\ NoFault /\ UNCHANGED init

InitEnds ==
  /\ init = "cleaning" /\ found = {}
  /\ init' = "over"
  /\ Cleaning /\ NoFault /\ UNCHANGED <<remote, found>>

\* init failed, or took longer than its interval, and runs again beside the loop,
\* which keeps what it has: with the same account, or with another one, whose
\* row the loop reads when its next iteration begins.
InitAgain ==
  /\ Loss
  /\ init' = "listing" /\ found' = {} /\ exact' = FALSE
  /\ remote' = remote \/ (phase = "idle" /\ remote' \in Lists)
  /\ UNCHANGED <<worker, call, raced, notFound, strays>>

----------------------------------------------------------------------------

Answer == Accept \/ Refuse \/ List

Next ==
  \/ \E f \in Friend : BeginAdd(f) \/ BeginRemove(f)
  \/ Answer
  \/ Limit \/ EmptyReply \/ EmptyList \/ ListFails \/ RefuseOther
  \/ \E does \in BOOLEAN : LoseReply(does) \/ Unavailable(does) \/ Broken(does)
  \/ Restart \/ InitLists \/ InitListsNothing \/ InitEnds \/ InitAgain
  \/ \E f \in Friend : InitRemoves(f)

\* The service answers in the end, and the worker takes the answer.
Spec == Init /\ [][Next]_vars /\ WF_vars(Answer)

----------------------------------------------------------------------------
(* Properties *)

TypeOK ==
  /\ remote \in SUBSET Friend /\ cached \in SUBSET Friend
  /\ infoOf \in [Friend -> Friend \cup {None}]
  /\ phase \in {"idle", "request", "list", "panicked"}
  /\ kind \in {"Add", "Remove"}
  /\ code \in Friend \cup {None}
  /\ retries \in 0 .. MaxRetries - 1
  /\ endure \in 0 .. MaxEndure
  /\ notFound \in SUBSET Friend /\ strays \in SUBSET Friend /\ exact \in BOOLEAN
  /\ init \in {"listing", "cleaning", "over"} /\ found \in SUBSET Friend
  /\ raced \in BOOLEAN
  /\ glitches \in 0 .. MaxGlitches /\ losses \in 0 .. MaxLosses
  /\ refusals \in 0 .. MaxRefusals

\* The branch of calc_friend_delta that panics is never reached, whatever the
\* service answers: a list that was accepted is longer than the copy.
NeverPanics == phase # "panicked"

\* Once init is over, the worker's copy is the service's list between calls, as
\* long as no fault left the list unknown, the retries outnumber the glitches, and
\* the loop waited for init to remove the friends of those before it.  (It does
\* not if the account had logged in before: then init removes friends of the
\* loop's jobs as well, and the loop's copy lacks those that are still there.)
CacheIsExact ==
  phase = "idle" /\ init = "over" /\ ~raced /\ losses = 0 /\ glitches <= MaxRetries
    => remote = cached

\* A job is given another player's friend_info only if that player's friend was
\* in the service's list and unknown to the worker before.
RightFriend ==
  \A f \in Friend : infoOf[f] \in {f, None} \cup strays

\* A player who exists is only reported as not found when the service kept
\* refusing to answer, refused for another reason, or the copy went wrong.
NotFoundIsHonest ==
  losses = 0 /\ glitches < MaxRetries /\ refusals = 0 /\ ~raced
    => notFound \cap Existing = {}

\* A call that starts from an exact copy returns, unless init starts again beside
\* it.  (From a wrong copy a removal polls for ever: the list can be neither what
\* it expects nor what it was.)
CallsReturn == phase # "idle" /\ exact ~> phase = "idle" \/ ~exact

\* Answers without a fault that the call may still take.
Patience ==
  CASE phase = "list" -> MaxEndure - endure + 2 [] phase = "request" -> 1 [] OTHER -> 0

\* Whatever went wrong since a call started from an exact copy, each answer without
\* a fault brings it nearer to its end: the list shows what was asked for, or what
\* was there before, and no list sends the worker back and forth.
CallsDescend ==
  [][phase # "idle" /\ exact /\ NoFault
       => Patience \in Nat /\ Patience' \in Nat /\ Patience' < Patience]_vars

\* As long as the retries mask the glitches, nothing is refused for reasons of its
\* own and the loop waited for init, it may take a call for one atomic step: what
\* it sees of the list is an execution of FriendList.
Atomic == INSTANCE FriendList WITH list <- cached
CallsAreAtomic ==
  /\ Atomic!Init
  /\ [][losses' = 0 /\ glitches' < MaxRetries /\ refusals' = 0 /\ ~raced'
           => Atomic!Next]_worker
=============================================================================
