------------------------- MODULE FriendModifyProofs -------------------------
(***************************************************************************)
(* Proofs about FriendModify for any set of players, any limits and any    *)
(* number of faults.                                                       *)
(***************************************************************************)
EXTENDS FriendModify, FiniteSetTheorems, TLAPS

Calling == phase \in {"request", "list"}

----------------------------------------------------------------------------
(* What calc_friend_delta makes of an accepted list *)

\* A longer list has a new friend.
LEMMA LongerHasNew ==
  ASSUME NEW a \in SUBSET Friend, NEW b \in SUBSET Friend,
         Cardinality(a) = Cardinality(b) + 1
  PROVE  a \ b # {} /\ Cardinality(a \ b) \in Nat /\ Cardinality(a \ b) # 0
<1>1. IsFiniteSet(a) /\ IsFiniteSet(b) /\ IsFiniteSet(a \ b)
  BY ConstantsAssumption, FS_Subset
<1>2. Cardinality(a) \in Nat /\ Cardinality(b) \in Nat /\ Cardinality(a \ b) \in Nat
  BY <1>1, FS_CardinalityType
<1>3. a \subseteq b => Cardinality(a) <= Cardinality(b)
  BY <1>1, FS_Subset
<1>4. a \ b # {}
  BY <1>2, <1>3
<1>5. QED
  BY <1>1, <1>2, <1>4, FS_EmptySet

\* An add is only answered with a friend that was not in the copy, or not at
\* all; calc_friend_delta never sees a list that only lost friends.
LEMMA ConfirmedAdd ==
  ASSUME NEW list \in SUBSET Friend, cached \in SUBSET Friend,
         kind = "Add", Confirms(list)
  PROVE  DeltaOf(list) \in {"Add", "Bad"} /\ (CHOOSE f \in Added(list) : TRUE) \in Added(list)
<1>1. Added(list) # {} /\ Cardinality(Added(list)) \in Nat /\ Cardinality(Added(list)) # 0
  BY LongerHasNew DEF Confirms, Added
<1>2. Cardinality(Added(list)) = 1 \/ Cardinality(Added(list)) > 1
  BY <1>1
<1>3. QED
  BY <1>1, <1>2 DEF DeltaOf

\* What a list in a reply can lead to.
LEMMA ReplyOutcome ==
  ASSUME NEW list \in SUBSET Friend, cached \in SUBSET Friend,
         kind \in {"Add", "Remove"}, Reply(list)
  PROVE  \/ /\ kind = "Add" /\ Confirms(list) /\ DeltaOf(list) = "Add"
            /\ cached' = list /\ KeepFriend(list) /\ EndCall /\ UNCHANGED notFound
         \/ /\ kind = "Add" /\ Confirms(list) /\ DeltaOf(list) = "Bad"
            /\ UNCHANGED <<worker, notFound>> /\ EndCall
         \/ Confirms(list) /\ ReturnRemove(list) /\ UNCHANGED notFound
         \/ ~Confirms(list) /\ phase = "request" /\ Wait
         \/ ~Confirms(list) /\ phase = "list" /\ PollsAgain(list) /\ Poll
         \/ ~Confirms(list) /\ phase = "list" /\ ~PollsAgain(list) /\ LoopAgain
<1>1. CASE Confirms(list) /\ Return(list)
  <2>1. CASE kind = "Add"
    BY <1>1, <2>1, ConfirmedAdd DEF Return, ReturnAdd, ReturnRemove
  <2>2. CASE kind = "Remove"
    BY <1>1, <2>2 DEF Return, ReturnAdd
  <2>3. QED
    BY <2>1, <2>2
<1>2. QED
  BY <1>1 DEF Reply

----------------------------------------------------------------------------
(* Types *)

\* What the worker holds; a call always has a code.
WorkerType ==
  /\ cached \in SUBSET Friend
  /\ infoOf \in [Friend -> Friend \cup {None}]
  /\ phase \in {"idle", "request", "list", "panicked"}
  /\ kind \in {"Add", "Remove"}
  /\ code \in Friend \cup {None}
  /\ retries \in 0 .. MaxRetries - 1
  /\ endure \in 0 .. MaxEndure
  /\ notFound \in SUBSET Friend
  /\ Calling => code \in Friend

TypeInv == TypeOK /\ WorkerType

LEMMA TypeInit == Init => TypeInv
<1> SUFFICES ASSUME Init PROVE TypeInv
  OBVIOUS
<1>1. remote \in SUBSET Friend
  BY ConstantsAssumption DEF Init, Lists
<1>2. WorkerType
  BY ConstantsAssumption DEF Init, WorkerType, Calling
<1>3. raced \in BOOLEAN /\ exact \in BOOLEAN
  <2>1. raced = FALSE /\ exact = TRUE
    BY DEF Init
  <2>2. QED
    BY <2>1, Zenon
<1>4. TypeOK
  BY <1>1, <1>2, <1>3, ConstantsAssumption DEF Init, TypeOK, WorkerType
<1>5. QED
  BY <1>2, <1>4 DEF TypeInv

LEMMA FailType ==
  ASSUME WorkerType, Calling, NEW reason, Fail(reason)
  PROVE  WorkerType'
  BY ConstantsAssumption DEF WorkerType, Calling, Fail, EndCall

LEMMA TryAgainType ==
  ASSUME WorkerType, Calling, NEW reason, TryAgain(reason)
  PROVE  WorkerType'
<1>1. CASE Fail(reason)
  BY <1>1, FailType
<1>2. QED
  BY <1>1, ConstantsAssumption DEF TryAgain, WorkerType, Calling, worker

LEMMA WaitType ==
  ASSUME WorkerType, Calling, Wait
  PROVE  WorkerType'
  BY ConstantsAssumption DEF WorkerType, Calling, Wait, worker

LEMMA ReplyType ==
  ASSUME WorkerType, Calling, NEW list \in SUBSET Friend, Reply(list)
  PROVE  WorkerType'
<1> USE ConstantsAssumption DEF WorkerType, Calling, EndCall, worker
<1>1. ASSUME kind = "Add", Confirms(list), DeltaOf(list) = "Add",
             cached' = list, KeepFriend(list), EndCall, UNCHANGED notFound
      PROVE  WorkerType'
  <2>1. infoOf' \in [Friend -> Friend \cup {None}]
    BY <1>1, ConfirmedAdd DEF KeepFriend, Added
  <2>2. QED
    BY <1>1, <2>1
<1>2. ASSUME PollsAgain(list), Poll
      PROVE  WorkerType'
  BY <1>2 DEF PollsAgain, Poll
<1>3. QED
  BY <1>1, <1>2, WaitType, ReplyOutcome DEF ReturnRemove, LoopAgain

\* The steps of init that are not a start of the process.
InitStep ==
  \/ InitLists \/ InitListsNothing \/ InitEnds \/ InitAgain
  \/ \E f \in Friend : InitRemoves(f)

\* init leaves the loop and its call alone.
LEMMA InitFrame ==
  ASSUME InitStep
  PROVE  UNCHANGED <<worker, call, raced, notFound, strays>>
  BY DEF InitStep, InitLists, InitListsNothing, InitFinds, InitRemoves, InitEnds, InitAgain, Cleaning

LEMMA ChangedType ==
  ASSUME TypeOK, NEW does \in BOOLEAN, Perform(does)
  PROVE  remote' \in SUBSET Friend
  BY ConstantsAssumption DEF TypeOK, Perform, Possible, Changed

LEMMA TypeNext == TypeInv /\ [Next]_vars => TypeInv'
<1> SUFFICES ASSUME TypeInv, [Next]_vars PROVE TypeInv'
  OBVIOUS
<1>0. TypeOK /\ WorkerType
  BY DEF TypeInv
<1>1. \A b \in BOOLEAN : Perform(b) => remote' \in SUBSET Friend
  BY <1>0, ChangedType
<1>2. ASSUME remote' \in SUBSET Friend, WorkerType', UNCHANGED <<start, strays, exact>>,
             Glitch \/ Loss \/ Refusal \/ NoFault
      PROVE  TypeInv'
  BY <1>0, <1>2, ConstantsAssumption
  DEF TypeInv, TypeOK, WorkerType, Glitch, Loss, Refusal, NoFault, start, faults
<1>3. ASSUME NEW f \in Friend, BeginAdd(f) \/ BeginRemove(f)
      PROVE  TypeInv'
  <2>1. exact' = (remote = cached /\ init = "over") /\ raced' = (raced \/ init # "over")
    BY <1>3 DEF BeginAdd, BeginRemove, Begin
  <2>2. exact' \in BOOLEAN /\ raced' \in BOOLEAN
    BY <2>1, Zenon
  <2>3. QED
    BY <1>0, <1>3, <2>2, ConstantsAssumption
    DEF TypeInv, TypeOK, WorkerType, BeginAdd, BeginRemove, Begin, Calling, worker, faults
<1>4. CASE Accept
  <2>1. remote' = Changed /\ Changed \in SUBSET Friend
    BY <1>0, <1>4, ConstantsAssumption DEF Accept, Possible, Changed, TypeOK
  <2>2. QED
    BY <1>0, <1>2, <1>4, <2>1, ReplyType DEF Accept, Answering, Calling
<1>5. CASE Refuse \/ RefuseOther
  <2>1. /\ Calling /\ Fail("FriendNotFound") /\ (NoFault \/ Refusal)
        /\ UNCHANGED <<remote, start, strays, exact>>
    BY <1>5 DEF Refuse, RefuseOther, Answering, Calling
  <2>2. remote' \in SUBSET Friend
    BY <1>0, <2>1 DEF TypeOK
  <2>3. QED
    BY <1>0, <1>2, <2>1, <2>2, FailType
<1>6. CASE Limit
  BY <1>0, <1>2, <1>6, TryAgainType DEF Limit, Answering, Calling, TypeOK
<1>7. CASE EmptyReply
  BY <1>0, <1>1, <1>2, <1>7, ReplyType DEF EmptyReply, Answering, Calling
<1>8. ASSUME NEW does \in BOOLEAN, LoseReply(does) \/ Unavailable(does) \/ Broken(does)
      PROVE  TypeInv'
  BY <1>0, <1>1, <1>2, <1>8, TryAgainType, WaitType, FailType
  DEF LoseReply, Unavailable, Broken, Answering, Calling
<1>9. CASE List \/ EmptyList
  BY <1>0, <1>2, <1>9, ReplyType DEF List, EmptyList, Answering, Calling, TypeOK
<1>10. CASE ListFails
  BY <1>0, <1>2, <1>10, TryAgainType, FailType DEF ListFails, Answering, Calling, TypeOK
<1>11. CASE Restart
  <2>1. raced' = FALSE
    BY <1>11 DEF Restart
  <2>2. raced' \in BOOLEAN
    BY <2>1, Zenon
  <2>3. QED
    BY <1>0, <1>11, <2>2, ConstantsAssumption
    DEF Restart, EndCall, TypeInv, TypeOK, WorkerType, Calling, faults
<1>12. CASE InitStep
  <2>1. WorkerType' /\ UNCHANGED <<raced, strays>>
    BY <1>0, <1>12, InitFrame DEF WorkerType, Calling, worker, call
  <2>2. /\ remote' \in SUBSET Friend /\ found' \in SUBSET Friend /\ exact' \in BOOLEAN
        /\ init' \in {"listing", "cleaning", "over"}
    BY <1>0, <1>12, ConstantsAssumption
    DEF InitStep, InitLists, InitListsNothing, InitFinds, InitRemoves, InitEnds, InitAgain,
        Cleaning, Lists, TypeOK
  <2>3. Loss \/ NoFault
    BY <1>12 DEF InitStep, InitLists, InitListsNothing, InitRemoves, InitEnds, InitAgain
  <2>4. QED
    BY <1>0, <2>1, <2>2, <2>3, ConstantsAssumption
    DEF TypeInv, TypeOK, WorkerType, Loss, NoFault, faults
<1>13. CASE UNCHANGED vars
  BY <1>0, <1>13 DEF TypeInv, TypeOK, WorkerType, Calling, vars, worker, call, start, faults
<1>14. QED
  BY <1>3, <1>4, <1>5, <1>6, <1>7, <1>8, <1>9, <1>10, <1>11, <1>12, <1>13
  DEF Next, Answer, InitStep

LEMMA TypeInvCorrect == Spec => []TypeInv
  BY TypeInit, TypeNext, PTL DEF Spec

\* Every variable keeps its type; the counters stay below their limits.
THEOREM TypeCorrect == Spec => []TypeOK
<1>1. TypeInv => TypeOK
  BY DEF TypeInv
<1>2. QED
  BY <1>1, TypeInvCorrect, PTL
----------------------------------------------------------------------------
(* Whose friend_info a job gets *)

\* During a call the list holds nothing new but strays and the friend asked for.
NewIn(friends) ==
  friends \ cached \subseteq strays \cup (IF kind = "Add" THEN {code} ELSE {})

StrayInv ==
  /\ NeverPanics /\ RightFriend
  /\ Calling => NewIn(remote)

LEMMA StrayInit == Init => StrayInv
  BY DEF Init, StrayInv, NeverPanics, RightFriend, Calling

LEMMA StrayReply ==
  ASSUME TypeInv, StrayInv, Calling, NEW list \in SUBSET Friend, NewIn(list),
         NewIn(remote'), Reply(list), UNCHANGED strays
  PROVE  StrayInv'
<1> USE DEF TypeInv, TypeOK, StrayInv, NeverPanics, RightFriend, Calling, NewIn, EndCall, worker
<1>1. ASSUME kind = "Add", Confirms(list), DeltaOf(list) = "Add",
             cached' = list, KeepFriend(list), EndCall, UNCHANGED notFound
      PROVE  StrayInv'
  <2>1. (CHOOSE f \in Added(list) : TRUE) \in strays \cup {code}
    BY <1>1, ConfirmedAdd DEF Added
  <2>2. \A f \in Friend : infoOf'[f] \in {f, None} \cup strays
    BY <1>1, <2>1 DEF KeepFriend
  <2>3. QED
    BY <1>1, <2>2
<1>2. CASE ReturnRemove(list)
  BY <1>2 DEF ReturnRemove
<1>3. QED
  BY <1>1, <1>2, ReplyOutcome DEF Wait, Poll, LoopAgain

LEMMA StrayOther ==
  ASSUME TypeInv, StrayInv, Calling, NewIn(remote'), UNCHANGED strays,
         NEW reason, TryAgain(reason) \/ Fail(reason) \/ Wait
  PROVE  StrayInv'
  BY DEF TypeInv, TypeOK, StrayInv, NeverPanics, RightFriend, Calling, NewIn, EndCall,
         worker, TryAgain, Fail, Wait

LEMMA StrayNext == TypeInv /\ StrayInv /\ [Next]_vars => StrayInv'
<1> SUFFICES ASSUME TypeInv, StrayInv, [Next]_vars PROVE StrayInv'
  OBVIOUS
<1>0. TypeOK /\ NewIn({}) /\ (Calling => NewIn(remote))
  BY DEF TypeInv, StrayInv, NewIn
<1>1. ASSUME NEW f \in Friend, BeginAdd(f) \/ BeginRemove(f)
      PROVE  StrayInv'
  BY <1>0, <1>1
  DEF StrayInv, NeverPanics, RightFriend, NewIn, BeginAdd, BeginRemove, Begin, worker
<1>2. ASSUME NEW does \in BOOLEAN, Perform(does), Calling
      PROVE  NewIn(remote') /\ remote' \in SUBSET Friend
  BY <1>0, <1>2, ChangedType DEF NewIn, Perform, Changed
<1>3. CASE Accept
  <2>1. Perform(TRUE) /\ Calling /\ remote' = Changed
    BY <1>3 DEF Accept, Perform, Answering, Calling
  <2>2. QED
    BY <1>2, <1>3, <2>1, StrayReply DEF Accept, Answering
<1>4. CASE Refuse \/ RefuseOther
  BY <1>0, <1>4, StrayOther DEF Refuse, RefuseOther, Answering, Calling
<1>5. CASE Limit
  BY <1>0, <1>5, StrayOther DEF Limit, Answering, Calling
<1>6. CASE EmptyReply
  BY <1>0, <1>2, <1>6, StrayReply DEF EmptyReply, Answering, Calling
<1>7. ASSUME NEW does \in BOOLEAN, LoseReply(does) \/ Unavailable(does) \/ Broken(does)
      PROVE  StrayInv'
  BY <1>2, <1>7, StrayOther DEF LoseReply, Unavailable, Broken, Answering, Calling
<1>8. CASE List \/ EmptyList
  BY <1>0, <1>8, StrayReply DEF List, EmptyList, Answering, Calling, TypeOK
<1>9. CASE ListFails
  BY <1>0, <1>9, StrayOther DEF ListFails, Answering, Calling
<1>10. CASE Restart
  BY <1>10 DEF Restart, EndCall, StrayInv, NeverPanics, RightFriend, Calling
<1>11. CASE InitStep
  <2>1. UNCHANGED <<worker, call, strays>>
    BY <1>11, InitFrame
  <2>2. Calling => remote' \subseteq remote
    BY <1>11
    DEF InitStep, InitLists, InitListsNothing, InitFinds, InitRemoves, InitEnds, InitAgain, Calling
  <2>3. QED
    BY <1>0, <2>1, <2>2
    DEF StrayInv, NeverPanics, RightFriend, Calling, NewIn, worker, call
<1>12. CASE UNCHANGED vars
  BY <1>12 DEF vars, worker, call, StrayInv, NeverPanics, RightFriend, Calling, NewIn
<1>13. QED
  BY <1>1, <1>3, <1>4, <1>5, <1>6, <1>7, <1>8, <1>9, <1>10, <1>11, <1>12
  DEF Next, Answer, InitStep

LEMMA StrayCorrect == Spec => []StrayInv
  BY TypeInvCorrect, StrayInit, StrayNext, PTL DEF Spec

\* calc_friend_delta never panics, whatever the service answers and however
\* wrong the worker's copy is.
THEOREM WorkerNeverPanics == Spec => []NeverPanics
<1>1. StrayInv => NeverPanics
  BY DEF StrayInv
<1>2. QED
  BY <1>1, StrayCorrect, PTL

\* A job gets the friend_info of its own player, or of a stray.
THEOREM JobsGetRightFriend == Spec => []RightFriend
<1>1. StrayInv => RightFriend
  BY DEF StrayInv
<1>2. QED
  BY <1>1, StrayCorrect, PTL
----------------------------------------------------------------------------
(* When the worker's copy is the service's list *)

\* Nothing was lost, no request can have been given up more than once, and the
\* loop waited for init.
Masked == losses = 0 /\ glitches <= MaxRetries /\ ~raced

\* Inside a call the list is the copy, but for a removal that was answered
\* with an empty list; that glitch is one the retries no longer have to mask.
\* Before the first call the list is what init has yet to remove.
ExactCall ==
  /\ init # "over" => phase = "idle" /\ cached = {}
  /\ init = "cleaning" => remote = found
  /\ init = "over" /\ phase = "idle" => remote = cached
  /\ phase = "request" => remote = cached /\ retries <= glitches
  /\ phase = "list" /\ kind = "Add" => remote = cached
  /\ phase = "list" /\ kind = "Remove" => remote = Expected /\ retries < glitches

ExactInv == Masked => ExactCall

LEMMA ExactInit == Init => ExactInv
  BY DEF Init, ExactInv, ExactCall, Masked

\* Faults only add up, as long as the process runs.
LEMMA MaskedBefore ==
  ASSUME TypeOK, Masked', Glitch \/ Loss \/ Refusal \/ NoFault, raced => raced'
  PROVE  Masked /\ ~Loss
  BY ConstantsAssumption DEF TypeOK, Masked, Glitch, Loss, Refusal, NoFault, faults

\* An answer without a fault settles the call.
LEMMA ExactAccept ==
  ASSUME TypeInv, remote = cached, Accept
  PROVE  /\ phase' = "idle" /\ cached' = Changed /\ remote' = Changed
         /\ kind = "Add" => KeepFriend(Changed) /\ Added(Changed) = {code}
         /\ kind = "Remove" => infoOf' = [infoOf EXCEPT ![code] = None]
         /\ UNCHANGED notFound
<1> USE DEF TypeInv, TypeOK
<1>1. phase = "request" /\ remote = cached /\ Possible /\ Reply(Changed) /\ remote' = Changed
  BY DEF Accept, Answering
<1>2. Changed \in SUBSET Friend
  BY <1>1, ConstantsAssumption DEF Possible, Changed
<1>3. CASE kind = "Remove"
  <2>1. Confirms(Changed)
    BY <1>1, <1>3 DEF Confirms, Changed, Expected
  <2>2. QED
    BY <1>1, <1>2, <1>3, <2>1, ReplyOutcome DEF ReturnRemove, EndCall
<1>4. CASE kind = "Add"
  <2>1. Changed = cached \cup {code} /\ code \notin cached
    BY <1>1, <1>4 DEF Changed, Possible
  <2>2. Cardinality(cached \cup {code}) = Cardinality(cached) + 1
    <3>1. IsFiniteSet(cached)
      BY ConstantsAssumption, FS_Subset
    <3>2. QED
      BY <2>1, <3>1, FS_AddElement
  <2>3. Confirms(Changed)
    BY <1>4, <2>1, <2>2 DEF Confirms
  <2>4. Added(Changed) = {code}
    BY <2>1 DEF Added
  <2>5. DeltaOf(Changed) = "Add"
    <3>1. Cardinality(Added(Changed)) = 1
      BY <2>4, FS_Singleton
    <3>2. ~(Cardinality(Added(Changed)) > 1) /\ Added(Changed) # {}
      BY <2>4, <3>1
    <3>3. QED
      BY <3>1, <3>2 DEF DeltaOf
  <2>6. QED
    BY <1>1, <1>2, <1>4, <2>3, <2>4, <2>5, ReplyOutcome DEF ReturnRemove, EndCall
<1>5. QED
  BY <1>3, <1>4

\* A list that shows no friend added ends no call that adds one.
LEMMA NotConfirmed ==
  ASSUME cached \in SUBSET Friend, kind = "Add", NEW list \in SUBSET cached
  PROVE  ~Confirms(list)
<1>1. IsFiniteSet(cached)
  BY ConstantsAssumption, FS_Subset
<1>2. /\ Cardinality(list) <= Cardinality(cached)
      /\ Cardinality(list) \in Nat /\ Cardinality(cached) \in Nat
  BY <1>1, FS_Subset, FS_CardinalityType
<1>3. QED
  BY <1>2 DEF Confirms

\* An empty or a true list leads on as the code expects: an add is only asked
\* for again, a removal that happened is recognised or waited for.
LEMMA ExactReply ==
  ASSUME TypeInv, Calling, NEW list \in SUBSET Friend, Reply(list),
         kind = "Add" => remote = cached /\ list \subseteq cached,
         kind = "Remove" => remote' = Expected /\ list \in {{}, Expected},
         kind = "Add" => remote' = cached,
         kind = "Remove" => \/ list = {} /\ 0 < glitches'
                           \/ list = Expected,
         glitches' \in Nat, phase = "list" /\ kind = "Remove" => 0 < glitches',
         init' = "over"
  PROVE  /\ ExactCall'
         /\ kind = "Add" => UNCHANGED <<worker, notFound>> /\ phase' # "idle"
         /\ phase' = "idle" => ReturnRemove(list) /\ cached' = Expected /\ UNCHANGED notFound
         /\ phase' # "idle" => UNCHANGED <<worker, notFound, kind, code>> /\ Calling'
<1> USE DEF TypeInv, TypeOK
<1>1. CASE kind = "Add"
  <2>1. ~Confirms(list)
    BY <1>1, NotConfirmed
  <2>2. QED
    BY <1>1, <2>1, ReplyOutcome DEF ExactCall, Wait, Poll, LoopAgain, Calling, worker
<1>2. CASE kind = "Remove"
  <2>1. Confirms(list) <=> list = Expected
    BY <1>2 DEF Confirms
  <2>2. ~Confirms(list) => list = {} /\ list # cached
    BY <1>2, <2>1 DEF Expected
  <2>3. CASE Confirms(list)
    BY <1>2, <2>1, <2>3, ReplyOutcome DEF ReturnRemove, EndCall, ExactCall
  <2>4. CASE ~Confirms(list)
    <3>1. (phase = "request" /\ Wait) \/ (phase = "list" /\ Poll)
      BY <1>2, <2>2, <2>4, ReplyOutcome DEF PollsAgain
    <3>2. phase' = "list" /\ retries' = 0 /\ UNCHANGED <<worker, kind, code, notFound>>
      BY <3>1 DEF Wait, Poll
    <3>3. Expected' = Expected
      BY <3>2 DEF Expected, worker
    <3>4. QED
      BY <1>2, <2>1, <2>4, <3>2, <3>3 DEF ExactCall, Calling
  <2>5. QED
    BY <2>3, <2>4
<1>3. QED
  BY <1>1, <1>2
LEMMA ExactNext == TypeInv /\ ExactInv /\ [Next]_vars => ExactInv'
<1> SUFFICES ASSUME TypeInv, ExactInv, [Next]_vars, Masked' PROVE ExactCall'
  BY DEF ExactInv
<1> USE DEF TypeInv, TypeOK
<1>0. ASSUME Glitch \/ Loss \/ Refusal \/ NoFault, raced => raced'
      PROVE  Masked /\ ExactCall /\ ~Loss
  BY <1>0, MaskedBefore DEF ExactInv
<1>1. ASSUME NEW f \in Friend, BeginAdd(f) \/ BeginRemove(f)
      PROVE  ExactCall'
  <2>1. NoFault /\ raced' = (raced \/ init # "over") /\ UNCHANGED init
    BY <1>1 DEF BeginAdd, BeginRemove, Begin, NoFault
  <2>2. init = "over" /\ ExactCall
    BY <1>0, <2>1 DEF Masked
  <2>3. QED
    BY <1>1, <2>1, <2>2 DEF ExactCall, BeginAdd, BeginRemove, Begin, worker, NoFault, faults
<1>2. CASE Accept
  <2>1. remote = cached
    BY <1>0, <1>2 DEF Accept, Answering, ExactCall, start
  <2>2. init' = "over"
    BY <1>0, <1>2 DEF Accept, Answering, ExactCall, start
  <2>3. QED
    BY <1>2, <2>1, <2>2, ExactAccept DEF ExactCall
<1>3. CASE Refuse \/ RefuseOther
  BY <1>0, <1>3 DEF Refuse, RefuseOther, Answering, Fail, EndCall, ExactCall, start
<1>4. CASE Limit
  BY <1>0, <1>4, ConstantsAssumption
  DEF Limit, Glitch, Answering, TryAgain, Fail, EndCall, ExactCall, Expected, Masked, worker, start
<1>5. CASE EmptyReply
  <2>1. /\ ExactCall /\ phase = "request" /\ glitches' = glitches + 1 /\ Reply({})
        /\ Perform(kind = "Remove" /\ Possible) /\ init' = "over"
    BY <1>0, <1>5 DEF EmptyReply, Answering, Glitch, ExactCall, start
  <2>2. kind = "Remove" => remote' = Expected
    BY <2>1 DEF ExactCall, Perform, Possible, Changed, Expected
  <2>3. kind = "Add" => remote' = cached /\ remote = cached
    BY <2>1 DEF ExactCall, Perform
  <2>4. QED
    BY <2>1, <2>2, <2>3, ExactReply DEF Calling
<1>6. ASSUME NEW does \in BOOLEAN, LoseReply(does) \/ Unavailable(does) \/ Broken(does)
      PROVE  ExactCall'
  BY <1>0, <1>6 DEF LoseReply, Unavailable, Broken, Answering, start
<1>7. CASE List \/ EmptyList
  <2>1. /\ ExactCall /\ phase = "list" /\ UNCHANGED remote
        /\ glitches' \in {glitches, glitches + 1}
        /\ Reply({}) \/ Reply(remote)
        /\ init' = "over"
    BY <1>0, <1>7 DEF List, EmptyList, Answering, Glitch, NoFault, faults, ExactCall, start
  <2>2. kind = "Remove" => remote = Expected /\ 0 < glitches'
    BY <2>1 DEF ExactCall
  <2>3. kind = "Add" => remote = cached
    BY <2>1 DEF ExactCall
  <2>4. QED
    BY <2>1, <2>2, <2>3, ExactReply DEF Calling
<1>8. CASE ListFails
  BY <1>0, <1>8 DEF ListFails, Answering, start
<1>9. CASE Restart
  BY <1>9 DEF Restart, EndCall, ExactCall
<1>10. CASE InitStep
  <2>1. UNCHANGED <<worker, call, raced>> /\ (Loss \/ NoFault)
    BY <1>10, InitFrame
    DEF InitStep, InitLists, InitListsNothing, InitRemoves, InitEnds, InitAgain
  <2>2. ExactCall /\ ~Loss
    BY <1>0, <2>1
  <2>3. CASE InitLists
    BY <2>1, <2>2, <2>3 DEF InitLists, InitFinds, ExactCall, worker, call
  <2>4. ASSUME NEW f \in Friend, InitRemoves(f) PROVE ExactCall'
    BY <2>1, <2>2, <2>4 DEF InitRemoves, ExactCall, worker, call
  <2>5. CASE InitEnds
    BY <2>1, <2>2, <2>5 DEF InitEnds, ExactCall, worker, call
  <2>6. QED
    BY <1>10, <2>2, <2>3, <2>4, <2>5 DEF InitStep, InitListsNothing, InitAgain
<1>11. CASE UNCHANGED vars
  BY <1>11 DEF vars, worker, call, start, faults, ExactInv, ExactCall, Masked, Expected
<1>12. QED
  BY <1>1, <1>2, <1>3, <1>4, <1>5, <1>6, <1>7, <1>8, <1>9, <1>10, <1>11
  DEF Next, Answer, InitStep

LEMMA ExactCorrect == Spec => []ExactInv
  BY TypeInvCorrect, ExactInit, ExactNext, PTL DEF Spec

\* Whatever friends an earlier worker had left, whatever calls were made, and however
\* the glitches fell, the worker's copy is the service's list between calls, unless
\* the loop began before init was over.
THEOREM CopyIsExact == Spec => []CacheIsExact
<1>1. ExactInv => CacheIsExact
  BY DEF ExactInv, ExactCall, Masked, CacheIsExact
<1>2. QED
  BY <1>1, ExactCorrect, PTL
----------------------------------------------------------------------------
(* A call as one step *)

\* No request can have been given up: every call does what it was asked to.
Clean == losses = 0 /\ glitches < MaxRetries /\ refusals = 0 /\ ~raced

OneStep ==
  /\ notFound \cap Existing = {}
  /\ \A f \in Friend : infoOf[f] \in {None, f}
  /\ cached = {f \in Friend : infoOf[f] # None}
  /\ Calling /\ kind = "Add" => infoOf[code] = None /\ Cardinality(cached) < MaxJobs
  /\ Calling /\ kind = "Remove" => infoOf[code] = code

CleanInv == Clean => OneStep

LEMMA CleanInit == Init => CleanInv
  BY DEF Init, CleanInv, OneStep, Calling

LEMMA CleanIsMasked == TypeOK /\ Clean => Masked
  BY ConstantsAssumption DEF TypeOK, Clean, Masked

LEMMA CleanBefore ==
  ASSUME TypeOK, Clean', Glitch \/ Loss \/ Refusal \/ NoFault, raced => raced'
  PROVE  Clean /\ ~Loss /\ ~Refusal
  BY ConstantsAssumption DEF TypeOK, Clean, Glitch, Loss, Refusal, NoFault, faults

\* Requests are tried again as often as there were glitches.
LEMMA NotGivenUp ==
  ASSUME TypeOK, ExactCall, Calling, phase = "request" \/ kind = "Remove",
         Glitch, Clean', NEW reason, TryAgain(reason)
  PROVE  UNCHANGED <<worker, phase, kind, code, notFound>>
  BY ConstantsAssumption
  DEF TypeOK, ExactCall, Calling, Glitch, Clean, TryAgain
\* A step of the loop inside a call, or one that gives up an add for another
\* reason than the player, changes nothing that was promised.
LEMMA OneStepFrame ==
  ASSUME TypeOK, OneStep, UNCHANGED <<worker, notFound>>,
         \/ UNCHANGED <<phase, kind, code>>
         \/ phase' = "idle"
         \/ Calling /\ UNCHANGED <<kind, code>>
  PROVE  OneStep'
  BY DEF TypeOK, OneStep, Calling, worker

\* What one step of the module is to FriendList.
LEMMA OneStepNext ==
  ASSUME TypeInv, ExactInv, CleanInv, [Next]_vars, Clean'
  PROVE  OneStep' /\ (Atomic!Next \/ UNCHANGED worker)
<1> USE DEF TypeInv, TypeOK
<1>0. ASSUME Glitch \/ Loss \/ Refusal \/ NoFault, raced => raced'
      PROVE  OneStep /\ ExactCall /\ ~Loss /\ ~Refusal
  BY <1>0, CleanBefore, CleanIsMasked DEF CleanInv, ExactInv
<1>1. ASSUME NEW f \in Friend, BeginAdd(f) \/ BeginRemove(f)
      PROVE  OneStep' /\ UNCHANGED worker
  <2>1. OneStep /\ UNCHANGED <<worker, notFound>>
    BY <1>0, <1>1 DEF BeginAdd, BeginRemove, Begin, NoFault
  <2>2. CASE BeginAdd(f)
    BY <2>1, <2>2 DEF OneStep, BeginAdd, Begin, worker
  <2>3. CASE BeginRemove(f)
    BY <2>1, <2>3 DEF OneStep, BeginRemove, Begin, worker
  <2>4. QED
    BY <1>1, <2>1, <2>2, <2>3
<1>2. CASE Accept
  <2>1. /\ phase' = "idle" /\ cached' = Changed /\ UNCHANGED notFound
        /\ kind = "Add" => KeepFriend(Changed) /\ Added(Changed) = {code}
        /\ kind = "Remove" => infoOf' = [infoOf EXCEPT ![code] = None]
    BY <1>0, <1>2, ExactAccept DEF Accept, Answering, start, ExactCall
  <2>2. /\ OneStep /\ phase = "request" /\ remote = cached /\ Possible
        /\ code \in Friend
    BY <1>0, <1>2 DEF Accept, Answering, start, ExactCall, WorkerType, Calling
  <2>3. CASE kind = "Add"
    <3>1. infoOf' = [infoOf EXCEPT ![code] = code] /\ cached' = cached \cup {code}
      BY <2>1, <2>2, <2>3 DEF KeepFriend, Changed
    <3>2. infoOf[code] = None /\ code \notin cached
      BY <2>2, <2>3 DEF OneStep, Calling, Possible
    <3>3. Atomic!Add(code)
      BY <3>1, <3>2 DEF Atomic!Add
    <3>4. cached' = {f \in Friend : infoOf'[f] # None}
      BY <2>2, <3>1, ConstantsAssumption DEF OneStep
    <3>5. OneStep'
      BY <2>1, <2>2, <3>1, <3>4 DEF OneStep, Calling
    <3>6. QED
      BY <2>2, <3>3, <3>5 DEF Atomic!Next
  <2>4. CASE kind = "Remove"
    <3>1. infoOf[code] = code /\ infoOf' = [infoOf EXCEPT ![code] = None]
      BY <2>1, <2>2, <2>4 DEF OneStep, Calling
    <3>2. cached' = cached \ {code}
      BY <2>1, <2>2, <2>4, <3>1 DEF Changed
    <3>3. Atomic!Remove(code)
      BY <3>1, <3>2 DEF Atomic!Remove
    <3>4. cached' = {f \in Friend : infoOf'[f] # None}
      BY <2>2, <3>1, <3>2 DEF OneStep
    <3>5. OneStep'
      BY <2>1, <2>2, <3>1, <3>4 DEF OneStep, Calling
    <3>6. QED
      BY <2>2, <3>3, <3>5 DEF Atomic!Next
  <2>5. QED
    BY <2>3, <2>4
<1>3. CASE Refuse
  <2>1. /\ OneStep /\ remote = cached /\ ~Possible /\ phase = "request"
        /\ code \in Friend /\ Fail("FriendNotFound")
    BY <1>0, <1>3 DEF Refuse, Answering, start, ExactCall, WorkerType, Calling
  <2>2. kind = "Add"
    BY <2>1, ConstantsAssumption DEF OneStep, Calling, Possible
  <2>3. code \notin Existing
    <3>1. infoOf[code] = None /\ Cardinality(cached) < MaxJobs
      BY <2>1, <2>2 DEF OneStep, Calling
    <3>2. IsFiniteSet(cached)
      BY ConstantsAssumption, FS_Subset
    <3>3. Cardinality(cached) \in Nat
      BY <3>2, FS_CardinalityType
    <3>4. code \notin cached /\ Cardinality(cached) < Capacity
      BY <2>1, <3>1, <3>3, ConstantsAssumption DEF OneStep
    <3>5. QED
      BY <2>1, <2>2, <3>4 DEF Possible
  <2>4. infoOf' = infoOf /\ UNCHANGED cached
    BY <2>1, <2>2 DEF Fail, OneStep, Calling
  <2>5. QED
    BY <2>1, <2>2, <2>3, <2>4 DEF Fail, EndCall, OneStep, Calling, worker
<1>4. CASE Limit
  <2>1. OneStep /\ ExactCall /\ Glitch /\ Calling
    BY <1>0, <1>4 DEF Limit, Answering, start, Calling
  <2>2. CASE phase = "request" \/ kind = "Remove"
    <3>1. UNCHANGED <<worker, phase, kind, code, notFound>>
      BY <1>4, <2>1, <2>2, NotGivenUp DEF Limit
    <3>2. QED
      BY <2>1, <3>1, OneStepFrame
  <2>3. CASE phase = "list" /\ kind = "Add"
    <3>1. TryAgain("ApiError")
      BY <1>4, <2>3 DEF Limit, Answering
    <3>2. CASE Fail("ApiError")
      <4>1. infoOf' = infoOf /\ UNCHANGED <<cached, notFound>> /\ phase' = "idle"
        BY <2>1, <2>3, <3>2 DEF Fail, EndCall, OneStep
      <4>2. QED
        BY <2>1, <4>1, OneStepFrame DEF worker
    <3>3. QED
      BY <2>1, <3>1, <3>2, OneStepFrame DEF TryAgain
  <2>4. QED
    BY <2>1, <2>2, <2>3 DEF Calling
<1>5. ASSUME NEW list \in SUBSET Friend, OneStep, Calling, Reply(list),
             kind = "Add" => UNCHANGED <<worker, notFound>> /\ phase' # "idle",
             phase' = "idle" =>
               ReturnRemove(list) /\ cached' = Expected /\ UNCHANGED notFound,
             phase' # "idle" => UNCHANGED <<worker, notFound, kind, code>>
      PROVE  OneStep' /\ (Atomic!Next \/ UNCHANGED worker)
  <2>1. CASE phase' # "idle"
    BY <1>5, <2>1, OneStepFrame
  <2>2. CASE phase' = "idle"
    <3>1. /\ kind = "Remove" /\ code \in Friend /\ infoOf[code] = code
          /\ infoOf' = [infoOf EXCEPT ![code] = None]
          /\ cached' = cached \ {code} /\ UNCHANGED notFound
      BY <1>5, <2>2 DEF ReturnRemove, OneStep, Expected, WorkerType, Calling
    <3>2. Atomic!Remove(code)
      BY <3>1 DEF Atomic!Remove
    <3>3. cached' = {f \in Friend : infoOf'[f] # None}
      BY <1>5, <3>1 DEF OneStep
    <3>4. OneStep'
      BY <1>5, <2>2, <3>1, <3>3 DEF OneStep, Calling
    <3>5. QED
      BY <3>1, <3>2, <3>4 DEF Atomic!Next
  <2>3. QED
    BY <2>1, <2>2
<1>6. CASE EmptyReply
  <2>1. /\ ExactCall /\ phase = "request" /\ glitches' = glitches + 1 /\ Reply({})
        /\ Perform(kind = "Remove" /\ Possible) /\ OneStep
        /\ init' = "over"
    BY <1>0, <1>6 DEF EmptyReply, Answering, start, Glitch, ExactCall
  <2>2. kind = "Remove" => remote' = Expected
    BY <2>1 DEF ExactCall, Perform, Possible, Changed, Expected
  <2>3. kind = "Add" => remote' = cached /\ remote = cached
    BY <2>1 DEF ExactCall, Perform
  <2>4. /\ kind = "Add" => UNCHANGED <<worker, notFound>> /\ phase' # "idle"
        /\ phase' = "idle" => ReturnRemove({}) /\ cached' = Expected /\ UNCHANGED notFound
        /\ phase' # "idle" => UNCHANGED <<worker, notFound, kind, code>>
    BY <2>1, <2>2, <2>3, ExactReply DEF Calling
  <2>5. QED
    BY <1>5, <2>1, <2>4 DEF Calling
<1>7. ASSUME NEW does \in BOOLEAN, LoseReply(does) \/ Unavailable(does) \/ Broken(does)
      PROVE  FALSE
  BY <1>0, <1>7 DEF LoseReply, Unavailable, Broken, Answering, start
<1>8. CASE List \/ EmptyList
  <2>1. /\ ExactCall /\ phase = "list" /\ UNCHANGED remote /\ OneStep
        /\ glitches' \in {glitches, glitches + 1}
        /\ init' = "over"
    BY <1>0, <1>8 DEF List, EmptyList, Answering, start, Glitch, NoFault, faults, ExactCall
  <2>2. PICK list \in {remote, {}} : Reply(list)
    BY <1>8 DEF List, EmptyList
  <2>3. kind = "Remove" => remote = Expected /\ 0 < glitches'
    BY <2>1 DEF ExactCall
  <2>4. kind = "Add" => remote = cached
    BY <2>1 DEF ExactCall
  <2>5. /\ kind = "Add" => UNCHANGED <<worker, notFound>> /\ phase' # "idle"
        /\ phase' = "idle" => ReturnRemove(list) /\ cached' = Expected /\ UNCHANGED notFound
        /\ phase' # "idle" => UNCHANGED <<worker, notFound, kind, code>>
    BY <2>1, <2>2, <2>3, <2>4, ExactReply DEF Calling
  <2>6. QED
    BY <1>5, <2>1, <2>2, <2>5 DEF Calling
<1>9. CASE ListFails \/ RefuseOther
  BY <1>0, <1>9 DEF ListFails, RefuseOther, Answering, start
<1>10. CASE Restart
  <2>1. Atomic!Reset
    BY <1>10 DEF Restart, Atomic!Reset
  <2>2. OneStep'
    BY <1>10 DEF Restart, EndCall, OneStep, Calling
  <2>3. QED
    BY <2>1, <2>2 DEF Atomic!Next
<1>11. CASE InitStep
  <2>1. UNCHANGED <<worker, call, raced, notFound>> /\ (Loss \/ NoFault)
    BY <1>11, InitFrame
    DEF InitStep, InitLists, InitListsNothing, InitRemoves, InitEnds, InitAgain
  <2>2. QED
    BY <1>0, <2>1, OneStepFrame DEF call, worker
<1>12. CASE UNCHANGED vars
  <2>1. Clean
    BY <1>12 DEF vars, Clean, faults, start
  <2>2. QED
    BY <1>12, <2>1, OneStepFrame DEF vars, worker, call, CleanInv
<1>13. QED
  BY <1>1, <1>2, <1>3, <1>4, <1>6, <1>7, <1>8, <1>9, <1>10, <1>11, <1>12
  DEF Next, Answer, InitStep

LEMMA CleanCorrect == Spec => []CleanInv
<1>1. TypeInv /\ ExactInv /\ CleanInv /\ [Next]_vars => CleanInv'
  BY OneStepNext DEF CleanInv
<1>2. QED
  BY <1>1, CleanInit, TypeInvCorrect, ExactCorrect, PTL DEF Spec

\* A player who exists is found, for as long as the retries mask the glitches,
\* nothing is refused for reasons of its own, and the loop waited for init.
THEOREM NotFoundStaysHonest == Spec => []NotFoundIsHonest
<1>1. CleanInv => NotFoundIsHonest
  BY DEF CleanInv, OneStep, Clean, NotFoundIsHonest
<1>2. QED
  BY <1>1, CleanCorrect, PTL

\* A call is one atomic step of FriendList, for as long as the retries mask the
\* glitches, nothing is refused for reasons of its own, and the loop waited for
\* init: what WorkerScan takes for granted.
THEOREM CallsImplementFriendList == Spec => CallsAreAtomic
<1>1. Init => Atomic!Init
  BY DEF Init, Atomic!Init
<1>2. TypeInv /\ ExactInv /\ CleanInv /\ [Next]_vars
        => [losses' = 0 /\ glitches' < MaxRetries /\ refusals' = 0 /\ ~raced'
              => Atomic!Next]_worker
  BY OneStepNext DEF Clean
<1>3. QED
  BY <1>1, <1>2, TypeInvCorrect, ExactCorrect, CleanCorrect, PTL DEF Spec, CallsAreAtomic
----------------------------------------------------------------------------
(* How long a call takes *)

\* What the list becomes when the service does what the call asks for.
Asked == IF kind = "Add" THEN cached \cup {code} ELSE Expected

\* A call that started from an exact copy has done what it was to do, or nothing,
\* however often its requests were repeated.
SettledInv == Calling /\ exact => init = "over" /\ (remote = cached \/ remote = Asked)

LEMMA SettledInit == Init => SettledInv
  BY DEF Init, SettledInv, Calling

\* Inside a call the worker's side does not move, and the list only as asked, as
\* long as init does not start again.
LEMMA CallFrame ==
  ASSUME TypeInv, [Next]_vars, Calling, Calling', init = "over", exact'
  PROVE  /\ UNCHANGED <<worker, kind, code, exact, init>>
         /\ remote' = remote \/ remote' = Changed
<1> USE DEF Calling
<1>1. ASSUME NEW list \in SUBSET Friend, Reply(list)
      PROVE  UNCHANGED <<worker, kind, code>>
  BY <1>1, ReplyOutcome DEF TypeInv, TypeOK, EndCall, ReturnRemove, Wait, Poll, LoopAgain
<1>2. ASSUME NEW reason, TryAgain(reason) \/ Fail(reason) \/ Wait
      PROVE  UNCHANGED <<worker, kind, code>>
  BY <1>2 DEF TryAgain, Fail, EndCall, Wait
<1>3. ASSUME NEW does, Perform(does) PROVE remote' = remote \/ remote' = Changed
  BY <1>3 DEF Perform
<1>4. ASSUME NEW f \in Friend, BeginAdd(f) \/ BeginRemove(f) PROVE FALSE
  BY <1>4 DEF BeginAdd, BeginRemove, Begin
<1>5. CASE Accept
  <2>1. Changed \in SUBSET Friend
    BY <1>5, ConstantsAssumption DEF Accept, Possible, Changed, TypeInv, TypeOK
  <2>2. QED
    BY <1>1, <1>5, <2>1 DEF Accept, Answering, start
<1>6. CASE Refuse \/ RefuseOther \/ Limit \/ ListFails
  BY <1>2, <1>6 DEF Refuse, RefuseOther, Limit, ListFails, Answering, start
<1>7. CASE EmptyReply
  BY <1>1, <1>3, <1>7 DEF EmptyReply, Answering, start
<1>8. ASSUME NEW does \in BOOLEAN, LoseReply(does) \/ Unavailable(does) \/ Broken(does)
      PROVE  /\ UNCHANGED <<worker, kind, code, exact, init>>
             /\ remote' = remote \/ remote' = Changed
  BY <1>2, <1>3, <1>8 DEF LoseReply, Unavailable, Broken, Answering, start
<1>9. CASE List \/ EmptyList
  BY <1>1, <1>9 DEF List, EmptyList, Answering, start, TypeInv, TypeOK
<1>10. CASE Restart
  BY <1>10 DEF Restart, EndCall
<1>11. ASSUME InitStep PROVE FALSE
  BY <1>11
  DEF InitStep, InitLists, InitListsNothing, InitFinds, InitRemoves, InitEnds, InitAgain
<1>12. CASE UNCHANGED vars
  BY <1>12 DEF vars, worker, call, start
<1>13. QED
  BY <1>4, <1>5, <1>6, <1>7, <1>8, <1>9, <1>10, <1>11, <1>12 DEF Next, Answer, InitStep

LEMMA SettledNext == TypeInv /\ SettledInv /\ [Next]_vars => SettledInv'
<1> SUFFICES ASSUME TypeInv, SettledInv, [Next]_vars, Calling', exact'
             PROVE  init' = "over" /\ (remote' = cached' \/ remote' = Asked')
  BY DEF SettledInv
<1>1. CASE Calling
  <2>1. exact
    <3>1. exact' = exact \/ exact' = FALSE \/ phase = "idle"
      BY DEF Next, Answer, Accept, Refuse, RefuseOther, Limit, EmptyReply, LoseReply, Unavailable,
             Broken, List, EmptyList, ListFails, Restart, InitLists, InitListsNothing, InitFinds,
             InitRemoves, InitEnds, InitAgain, Cleaning, Answering, BeginAdd, BeginRemove, Begin,
             vars
    <3>2. QED
      BY <1>1, <3>1 DEF Calling
  <2>2. init = "over" /\ (remote = cached \/ remote = Asked)
    BY <1>1, <2>1 DEF SettledInv
  <2>3. /\ UNCHANGED <<worker, kind, code, exact, init>>
        /\ remote' = remote \/ remote' = Changed
    BY <1>1, <2>2, CallFrame
  <2>4. Asked' = Asked /\ cached' = cached
    BY <2>3 DEF Asked, Expected, worker
  <2>5. Changed \in {remote, Asked}
    BY <2>2 DEF Changed, Asked, Expected
  <2>6. QED
    BY <2>2, <2>3, <2>4, <2>5
<1>2. CASE ~Calling
  <2>1. PICK f \in Friend : BeginAdd(f) \/ BeginRemove(f)
    BY <1>2, InitFrame DEF Next, Answer, Accept, Refuse, RefuseOther, Limit, EmptyReply, LoseReply,
                Unavailable, Broken, List, EmptyList, ListFails, InitStep, Restart, EndCall,
                Answering, Calling, vars, call
  <2>2. exact' = (remote = cached /\ init = "over") /\ UNCHANGED <<remote, cached, init>>
    BY <2>1 DEF BeginAdd, BeginRemove, Begin, worker
  <2>3. QED
    BY <2>2
<1>3. QED
  BY <1>1, <1>2

LEMMA SettledCorrect == Spec => []SettledInv
  BY TypeInvCorrect, SettledInit, SettledNext, PTL DEF Spec

\* No list without a fault sends a call from an exact copy round in a circle.
LEMMA PatienceDrops ==
  ASSUME TypeInv, TypeInv', StrayInv, SettledInv, Next, phase # "idle", exact, NoFault
  PROVE  Patience \in Nat /\ Patience' \in Nat /\ Patience' < Patience
<1> USE DEF TypeInv, TypeOK
<1>1. Calling /\ init = "over" /\ (remote = cached \/ remote = Asked)
  BY DEF Calling, StrayInv, NeverPanics, SettledInv
<1>2. ~Glitch /\ ~Loss /\ ~Refusal
  BY DEF Glitch, Loss, Refusal, NoFault, faults
<1>3. endure \in Nat /\ endure' \in Nat /\ endure <= MaxEndure /\ endure' <= MaxEndure
      /\ MaxEndure \in Nat
  BY ConstantsAssumption
<1>4. Patience \in Nat /\ Patience' \in Nat /\ Patience > 0
  BY <1>1, <1>3 DEF Patience, Calling
<1>5. CASE phase' = "idle"
  BY <1>4, <1>5 DEF Patience
<1>6. CASE Accept
  <2>1. phase = "request" /\ Possible
    BY <1>6 DEF Accept, Answering
  <2>2. remote = cached
    BY <1>1, <2>1 DEF Possible, Asked, Expected
  <2>3. QED
    BY <1>5, <1>6, <2>2, ExactAccept
<1>7. CASE Refuse
  BY <1>5, <1>7 DEF Refuse, Fail, EndCall
<1>8. CASE List
  <2>1. phase = "list" /\ Reply(remote)
    BY <1>8 DEF List, Answering
  <2>2. CASE ~Confirms(remote) /\ PollsAgain(remote) /\ Poll
    <3>1. kind = "Add"
      BY <1>1, <2>2 DEF Confirms, PollsAgain, Asked
    <3>2. phase' = "list" /\ endure' = endure + 1
      BY <2>1, <2>2, <3>1 DEF Poll
    <3>3. QED
      BY <1>3, <2>1, <3>2 DEF Patience
  <2>3. CASE LoopAgain
    <3>1. phase' = "request"
      BY <2>3 DEF LoopAgain
    <3>2. QED
      BY <1>3, <2>1, <3>1 DEF Patience
  <2>4. QED
    BY <1>1, <1>5, <2>1, <2>2, <2>3, ReplyOutcome DEF EndCall, ReturnRemove
<1>9. CASE Restart
  BY <1>5, <1>9 DEF Restart, EndCall
<1>10. QED
  BY <1>1, <1>2, <1>6, <1>7, <1>8, <1>9
  DEF Next, Answer, BeginAdd, BeginRemove, Begin, Calling, Limit, EmptyReply, EmptyList,
      ListFails, LoseReply, Unavailable, Broken, RefuseOther, InitLists, InitListsNothing,
      InitFinds, InitRemoves, InitEnds, InitAgain

\* A call from an exact copy ends after so many answers without a fault.
THEOREM CallsComeToAnEnd == Spec => CallsDescend
<1>1. ASSUME TypeInv, TypeInv', StrayInv, SettledInv, [Next]_vars
      PROVE  [phase # "idle" /\ exact /\ NoFault
                => Patience \in Nat /\ Patience' \in Nat /\ Patience' < Patience]_vars
  BY <1>1, PatienceDrops
<1>2. QED
  BY <1>1, TypeInvCorrect, StrayCorrect, SettledCorrect, PTL DEF Spec, CallsDescend
=============================================================================
