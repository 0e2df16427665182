------------------------ MODULE RequestResultsProofs ------------------------
(***************************************************************************)
(* Proofs about RequestResults, for any ranges, songs, workers, number of  *)
(* requests under one token and number of faults.                          *)
(***************************************************************************)
EXTENDS RequestResults, TLAPS

LEMMA EntryType ==
  ASSUME NEW e \in Entry
  PROVE  /\ e.req \in Request /\ e.part \in Range /\ e.cursor \in Place /\ e.run \in 0 .. MaxFaults
         /\ UidOf(e) \in Uid /\ UidOf(e)[1] = e.part /\ UidOf(e)[2] = e.cursor
  BY DEF Entry, Uid, UidOf

\* The entry a request writes for a range.
LEMMA NewEntryType ==
  ASSUME NEW r \in Request, NEW p \in Range
  PROVE  /\ NewEntry(r, p) \in Entry /\ NewEntry(r, p).req = r /\ NewEntry(r, p).part = p
         /\ NewEntry(r, p).cursor = 1 /\ NewEntry(r, p).run = 0
         /\ UidOf(NewEntry(r, p)) = <<p, 1>> /\ <<p, 1>> \in Uid
  BY ConstantsAssumption DEF NewEntry, Entry, Place, UidOf, Uid

LEMMA HeldType ==
  ASSUME NEW h \in HeldJob
  PROVE  /\ h.worker \in Worker /\ h.entry \in Entry /\ h.delivery \in Nat /\ h.n \in Nat
         /\ h.ok \in BOOLEAN /\ h.fresh \in BOOLEAN /\ h.phase \in JobPhase /\ h.copy \in Tag
         /\ h.entry.req \in Request /\ h.entry.part \in Range
         /\ UidOf(h.entry) \in Uid /\ UidOf(h.entry)[1] = h.entry.part
         /\ UidOf(h.entry)[2] = h.entry.cursor
  BY EntryType DEF HeldJob

\* Songs of a range.
LEMMA SongType ==
  ASSUME NEW p \in Range, NEW n \in 1 .. Songs[p]
  PROVE  <<p, n>> \in Song
<1>1. <<p, n>> \in {p} \X (1 .. Songs[p])
  OBVIOUS
<1>2. QED
  BY <1>1 DEF Song

\* The song a job polls, and the progress it makes with it.
LEMMA SongAtType ==
  ASSUME NEW h \in HeldJob, Songs[h.entry.part] # 0
  PROVE  SongAt(h) \in Song
<1>1. h.entry.part \in Range /\ h.n \in Nat /\ Songs[h.entry.part] \in Nat
  BY HeldType, ConstantsAssumption
<1> DEFINE k == IF h.n < Songs[h.entry.part] THEN h.n + 1 ELSE 1
<1>2. k \in 1 .. Songs[h.entry.part]
  BY <1>1
<1>3. QED
  BY <1>1, <1>2, SongType DEF SongAt

----------------------------------------------------------------------------
(* Types *)

LEMMA TypeInit == Init => TypeOK
<1> SUFFICES ASSUME Init PROVE TypeOK
  OBVIOUS
<1>1. NoTag \in Tag
  BY DEF NoTag, Tag, Status
<1>2. ranges \in Splits \cup {{InfoOnly}} /\ ranges \subseteq Range
  BY ConstantsAssumption DEF Init
<1>3. values \in [Song -> Nat] /\ taken \in [Entry -> Nat] /\ tags \in [Uid -> Tag]
  BY <1>1 DEF Init
<1>4. phase \in [Request -> {"none", "writing", "done", "failed"}] /\ todo \in [Request -> SUBSET Range]
  BY <1>2 DEF Init
<1>5. faults \in 0 .. MaxFaults
  BY ConstantsAssumption DEF Init
<1>6. QED
  BY <1>2, <1>3, <1>4, <1>5 DEF Init, TypeOK

\* update_job_track_info reads the tag, or fails to.
Fetches(h) ==
  \/ FetchTag(h, "Pulled", "Tagging") \/ FetchTag(h, "Acked", "Closing")
  \/ FetchTag(h, "Requeued", "Resuming")

\* Any step is one of these; a proof that it preserves something has a case each.
LEMMA StepCases ==
  ASSUME [Next]_vars
  PROVE  \/ \E r \in Request : Begin(r) \/ WriteTags(r) \/ RequestFails(r)
         \/ \E r \in Request, p \in ranges : WriteEntry(r, p)
         \/ \E w \in Worker, u \in ranges \X Place :
              \E fetched \in SUBSET waiting, claimed \in SUBSET pending :
                /\ Pull(w, u, fetched, claimed)
                /\ faults' = faults \/ Fault
         \/ \E h \in held : Fetches(h) \/ TagPulled(h) \/ TagCleaned(h) \/ TagResumed(h)
         \/ \E h \in held : AddFriend(h) \/ AddFriendFails(h) \/ Poll(h) \/ Ack(h)
         \/ \E h \in held, c \in Place : ResumeAdd(h, c)
         \/ \E w \in Worker : Refresh(w) \/ Crash(w) \/ Stop(w)
         \/ ExpireKeys \/ \E p \in ranges : ExpireStream(p)
         \/ AskTags \/ AskInfo \/ AskValues
         \/ UNCHANGED vars
<1>1. ASSUME NEW w \in Worker, NEW u \in ranges \X Place,
             NEW fetched \in SUBSET waiting, NEW claimed \in SUBSET pending,
             PullIdle(w, u, fetched, claimed) \/ PullHeld(w, u, fetched, claimed)
      PROVE  Pull(w, u, fetched, claimed) /\ (faults' = faults \/ Fault)
  BY <1>1 DEF PullIdle, PullHeld
<1>2. CASE WorkerStep
  BY <1>1, <1>2 DEF WorkerStep, JobStep, Fetches
<1>3. CASE RequestStep
  BY <1>3 DEF RequestStep
<1>4. QED
  BY <1>2, <1>3 DEF Next

LEMMA FaultType ==
  ASSUME faults \in 0 .. MaxFaults, Fault
  PROVE  faults' \in 0 .. MaxFaults
  BY ConstantsAssumption DEF Fault

LEMMA Phases ==
  JobPhase = {"Pulled", "Tagging", "Tagged", "Scanning", "Polled", "Ended", "Acked", "Closing",
              "Stopped", "Requeued", "Resuming"}
  BY DEF JobPhase

LEMMA TagTypes ==
  /\ NoTag \in Tag
  /\ \A t \in Tag : PulledTag(t) \in Tag
  /\ \A t \in Tag, ok \in BOOLEAN : CleanedTag(ok, t) \in Tag
  /\ \A t \in Tag : ResumedTag(t) \in Tag
  BY DEF NoTag, Tag, Status, PulledTag, CleanedTag, ResumedTag

\* What a worker may change of a job.
LEMMA ChangedType ==
  ASSUME NEW h \in HeldJob, NEW p \in JobPhase, NEW t \in Tag
  PROVE  /\ [h EXCEPT !.phase = p] \in HeldJob
         /\ [h EXCEPT !.phase = p, !.copy = t] \in HeldJob
         /\ [h EXCEPT !.phase = p, !.ok = FALSE] \in HeldJob
         /\ [h EXCEPT !.phase = p, !.n = @ + 1] \in HeldJob
         /\ [h EXCEPT !.fresh = FALSE] \in HeldJob
<1> USE DEF HeldJob
<1>1. [h EXCEPT !.phase = p] \in HeldJob /\ [h EXCEPT !.phase = p, !.copy = t] \in HeldJob
  OBVIOUS
<1>2. [h EXCEPT !.phase = p, !.ok = FALSE] \in HeldJob /\ [h EXCEPT !.fresh = FALSE] \in HeldJob
  OBVIOUS
<1>3. h.n + 1 \in Nat
  OBVIOUS
<1>4. [h EXCEPT !.phase = p, !.n = @ + 1] \in HeldJob
  BY <1>3
<1>5. QED
  BY <1>1, <1>2, <1>4

\* Job h goes on as one that differs in these fields.
Becomes(h, phs, cpy, num, okay) ==
  \E g \in HeldJob :
    /\ Replace(h, g)
    /\ g.entry = h.entry /\ g.fresh = h.fresh
    /\ g.phase = phs /\ g.copy = cpy /\ g.n = num /\ g.ok = okay

LEMMA ChangedFields ==
  ASSUME NEW h \in HeldJob, NEW p \in JobPhase, NEW t \in Tag
  PROVE  /\ Replace(h, [h EXCEPT !.phase = p]) => Becomes(h, p, h.copy, h.n, h.ok)
         /\ Replace(h, [h EXCEPT !.phase = p, !.copy = t]) => Becomes(h, p, t, h.n, h.ok)
         /\ Replace(h, [h EXCEPT !.phase = p, !.ok = FALSE]) => Becomes(h, p, h.copy, h.n, FALSE)
         /\ Replace(h, [h EXCEPT !.phase = p, !.n = @ + 1]) => Becomes(h, p, h.copy, h.n + 1, h.ok)
<1>1. Replace(h, [h EXCEPT !.phase = p]) => Becomes(h, p, h.copy, h.n, h.ok)
  <2> DEFINE g == [h EXCEPT !.phase = p]
  <2>1. g \in HeldJob
    BY ChangedType
  <2>2. /\ g.entry = h.entry /\ g.fresh = h.fresh /\ g.phase = p /\ g.copy = h.copy
        /\ g.n = h.n /\ g.ok = h.ok
    BY DEF HeldJob
  <2>3. QED
    BY <2>1, <2>2 DEF Becomes
<1>2. Replace(h, [h EXCEPT !.phase = p, !.copy = t]) => Becomes(h, p, t, h.n, h.ok)
  <2> DEFINE g == [h EXCEPT !.phase = p, !.copy = t]
  <2>1. g \in HeldJob
    BY ChangedType
  <2>2. /\ g.entry = h.entry /\ g.fresh = h.fresh /\ g.phase = p /\ g.copy = t
        /\ g.n = h.n /\ g.ok = h.ok
    BY DEF HeldJob
  <2>3. QED
    BY <2>1, <2>2 DEF Becomes
<1>3. Replace(h, [h EXCEPT !.phase = p, !.ok = FALSE]) => Becomes(h, p, h.copy, h.n, FALSE)
  <2> DEFINE g == [h EXCEPT !.phase = p, !.ok = FALSE]
  <2>1. g \in HeldJob
    BY ChangedType
  <2>2. /\ g.entry = h.entry /\ g.fresh = h.fresh /\ g.phase = p /\ g.copy = h.copy
        /\ g.n = h.n /\ g.ok = FALSE
    BY DEF HeldJob
  <2>3. QED
    BY <2>1, <2>2 DEF Becomes
<1>4. Replace(h, [h EXCEPT !.phase = p, !.n = @ + 1]) => Becomes(h, p, h.copy, h.n + 1, h.ok)
  <2> DEFINE g == [h EXCEPT !.phase = p, !.n = @ + 1]
  <2>1. g \in HeldJob
    BY ChangedType
  <2>2. /\ g.entry = h.entry /\ g.fresh = h.fresh /\ g.phase = p /\ g.copy = h.copy
        /\ g.n = h.n + 1 /\ g.ok = h.ok
    BY DEF HeldJob
  <2>3. QED
    BY <2>1, <2>2 DEF Becomes
<1>5. QED
  BY <1>1, <1>2, <1>3, <1>4

\* What each step makes of the job.
LEMMA JobMoves ==
  ASSUME TypeOK, NEW h \in held
  PROVE  /\ TagPulled(h) => Becomes(h, "Tagged", NoTag, h.n, h.ok)
         /\ AddFriend(h) => Becomes(h, "Scanning", h.copy, h.n, h.ok)
         /\ AddFriendFails(h) => Becomes(h, "Polled", h.copy, h.n, FALSE)
         /\ Poll(h) => Becomes(h, "Polled", h.copy, h.n + 1, h.ok)
         /\ Ack(h) => Becomes(h, "Acked", h.copy, h.n, h.ok)
         /\ \A c \in Place : ResumeAdd(h, c) => Becomes(h, "Requeued", h.copy, h.n, h.ok)
<1>1. h \in HeldJob /\ NoTag \in Tag
  BY HeldType, TagTypes DEF TypeOK
<1>2. /\ "Tagged" \in JobPhase /\ "Scanning" \in JobPhase /\ "Polled" \in JobPhase
      /\ "Acked" \in JobPhase /\ "Requeued" \in JobPhase
  BY Phases
<1>3. \A t \in Tag, p \in JobPhase :
        /\ Replace(h, [h EXCEPT !.phase = p]) => Becomes(h, p, h.copy, h.n, h.ok)
        /\ Replace(h, [h EXCEPT !.phase = p, !.copy = t]) => Becomes(h, p, t, h.n, h.ok)
        /\ Replace(h, [h EXCEPT !.phase = p, !.ok = FALSE]) => Becomes(h, p, h.copy, h.n, FALSE)
        /\ Replace(h, [h EXCEPT !.phase = p, !.n = @ + 1]) => Becomes(h, p, h.copy, h.n + 1, h.ok)
  BY <1>1, ChangedFields
<1>4. TagPulled(h) => Becomes(h, "Tagged", NoTag, h.n, h.ok)
  BY <1>1, <1>2, <1>3 DEF TagPulled
<1>5. /\ AddFriend(h) => Becomes(h, "Scanning", h.copy, h.n, h.ok)
      /\ AddFriendFails(h) => Becomes(h, "Polled", h.copy, h.n, FALSE)
  BY <1>1, <1>2, <1>3 DEF AddFriend, AddFriendFails
<1>6. /\ Poll(h) => Becomes(h, "Polled", h.copy, h.n + 1, h.ok)
      /\ Ack(h) => Becomes(h, "Acked", h.copy, h.n, h.ok)
  BY <1>1, <1>2, <1>3 DEF Poll, Ack
<1>7. ASSUME NEW c \in Place, ResumeAdd(h, c) PROVE Becomes(h, "Requeued", h.copy, h.n, h.ok)
  BY <1>1, <1>2, <1>3, <1>7 DEF ResumeAdd
<1>8. QED
  BY <1>4, <1>5, <1>6, <1>7

\* Between which phases a tag is fetched.
Fetch == {<<"Pulled", "Tagging">>, <<"Acked", "Closing">>, <<"Requeued", "Resuming">>}

\* The copy is the tag, or none, and then the range is marked.
LEMMA FetchMoves ==
  ASSUME TypeOK, NEW h \in held, Fetches(h)
  PROVE  /\ UNCHANGED <<requestVars, streamVars, results, client>>
         /\ UNCHANGED <<taken, early, overtaken, expired, lost, dropped>>
         /\ unread \subseteq unread' /\ unread' \subseteq unread \cup {h.entry.part}
         /\ faults' = faults \/ Fault
         /\ \E move \in Fetch, t \in {tags[UidOf(h.entry)], NoTag} :
              /\ t = tags[UidOf(h.entry)] \/ h.entry.part \in unread'
              /\ h.phase = move[1] /\ Becomes(h, move[2], t, h.n, h.ok)
<1>1. PICK move \in Fetch : FetchTag(h, move[1], move[2])
  BY DEF Fetches, Fetch
<1>2. /\ h \in HeldJob /\ tags[UidOf(h.entry)] \in Tag /\ NoTag \in Tag /\ move[2] \in JobPhase
  BY HeldType, TagTypes, Phases DEF TypeOK, Fetch
<1>3. \A t \in Tag : Replace(h, [h EXCEPT !.phase = move[2], !.copy = t]) =>
                     Becomes(h, move[2], t, h.n, h.ok)
  BY <1>2, ChangedFields
<1>4. CASE ReadTag(h, move[1], move[2])
  <2>1. h.phase = move[1] /\ Becomes(h, move[2], tags[UidOf(h.entry)], h.n, h.ok)
    BY <1>2, <1>3, <1>4 DEF ReadTag
  <2>2. /\ UNCHANGED <<requestVars, streamVars, results, client, faults>>
        /\ UNCHANGED <<taken, early, overtaken, unread, expired, lost, dropped>>
    BY <1>4 DEF ReadTag, history, marks
  <2>3. QED
    BY <2>1, <2>2
<1>5. CASE ReadTagFails(h, move[1], move[2])
  <2>1. h.phase = move[1] /\ Becomes(h, move[2], NoTag, h.n, h.ok)
    BY <1>2, <1>3, <1>5 DEF ReadTagFails
  <2>2. /\ UNCHANGED <<requestVars, streamVars, results, client>> /\ Fault
        /\ UNCHANGED <<taken, early, overtaken, expired, lost, dropped>>
        /\ unread' = unread \cup {h.entry.part}
    BY <1>5 DEF ReadTagFails
  <2>3. QED
    BY <2>1, <2>2
<1>6. QED
  BY <1>1, <1>4, <1>5 DEF FetchTag

\* What any step may make of the jobs of a worker that ends an iteration.
LEMMA RefreshMoves ==
  ASSUME TypeOK, NEW w \in Worker, Refresh(w), NEW g \in held', g \notin held
  PROVE  \E h \in held : /\ h.phase = "Polled"
                        /\ g.entry = h.entry /\ g.copy = h.copy /\ g.n = h.n
                        /\ g.ok = h.ok /\ g.fresh = h.fresh
                        /\ \/ g.phase = "Scanning" /\ h.ok /\ ~Complete(h)
                           \/ g.phase = "Ended" /\ ~(h.ok /\ ~Complete(h))
<1>1. PICK h \in held : /\ h.phase = "Polled"
                       /\ g = [h EXCEPT !.phase = IF h.ok /\ ~Complete(h) THEN "Scanning" ELSE "Ended"]
  BY DEF Refresh, HeldBy
<1>2. h \in HeldJob
  BY DEF TypeOK
<1>3. g.entry = h.entry /\ g.copy = h.copy /\ g.n = h.n /\ g.ok = h.ok /\ g.fresh = h.fresh
  BY <1>1, <1>2 DEF HeldJob
<1>4. g.phase = IF h.ok /\ ~Complete(h) THEN "Scanning" ELSE "Ended"
  BY <1>1, <1>2 DEF HeldJob
<1>5. QED
  BY <1>1, <1>3, <1>4

\* A worker stops with all its jobs.
LEMMA StopMoves ==
  ASSUME TypeOK, NEW w \in Worker, Stop(w)
  PROVE  /\ UNCHANGED <<requestVars, streamVars, results, client, taken, marks, faults>>
         /\ held' \subseteq HeldJob
         /\ \A g \in held' : g \in held \/
              \E h \in held : /\ h.phase \in {"Scanning", "Polled"} /\ g.phase = "Stopped"
                              /\ g.entry = h.entry /\ g.copy = h.copy /\ g.n = h.n
                              /\ g.ok = h.ok /\ g.fresh = h.fresh
         /\ \A h \in held : \E g \in held' : g.entry = h.entry
<1>1. /\ \A h \in HeldBy(w) : h.phase \in {"Scanning", "Polled"}
      /\ held' = (held \ HeldBy(w)) \cup {[h EXCEPT !.phase = "Stopped"] : h \in HeldBy(w)}
  BY DEF Stop
<1>2. HeldBy(w) \subseteq held /\ held \subseteq HeldJob
  BY DEF HeldBy, TypeOK
<1>3. ASSUME NEW h \in held
      PROVE  /\ [h EXCEPT !.phase = "Stopped"] \in HeldJob
             /\ [h EXCEPT !.phase = "Stopped"].phase = "Stopped"
             /\ [h EXCEPT !.phase = "Stopped"].entry = h.entry
             /\ [h EXCEPT !.phase = "Stopped"].copy = h.copy
             /\ [h EXCEPT !.phase = "Stopped"].n = h.n
             /\ [h EXCEPT !.phase = "Stopped"].ok = h.ok
             /\ [h EXCEPT !.phase = "Stopped"].fresh = h.fresh
  BY <1>2, Phases DEF HeldJob
<1>4. ASSUME NEW g \in held', g \notin held
      PROVE  \E h \in held : /\ h.phase \in {"Scanning", "Polled"} /\ g.phase = "Stopped"
                             /\ g.entry = h.entry /\ g.copy = h.copy /\ g.n = h.n
                             /\ g.ok = h.ok /\ g.fresh = h.fresh /\ g \in HeldJob
  <2>1. PICK h \in HeldBy(w) : g = [h EXCEPT !.phase = "Stopped"]
    BY <1>1, <1>4
  <2>2. QED
    BY <1>1, <1>2, <1>3, <2>1
<1>5. ASSUME NEW h \in held PROVE \E g \in held' : g.entry = h.entry
  <2>1. h \in held' \/ [h EXCEPT !.phase = "Stopped"] \in held'
    BY <1>1
  <2>2. QED
    BY <1>3, <2>1
<1>6. UNCHANGED <<requestVars, streamVars, results, client, taken, marks, faults>>
  BY DEF Stop, history
<1>7. QED
  BY <1>2, <1>4, <1>5, <1>6

LEMMA ExpireMoves ==
  ASSUME TypeOK, ExpireKeys, NEW g \in held'
  PROVE  \E h \in held : /\ g.phase = h.phase /\ g.entry = h.entry /\ g.copy = h.copy
                        /\ g.n = h.n /\ g.ok = h.ok /\ g.fresh = FALSE
  BY DEF TypeOK, ExpireKeys, HeldJob

LEMMA MovedType ==
  ASSUME TypeOK, NEW h \in held,
         \/ Fetches(h) \/ TagPulled(h)
         \/ AddFriend(h) \/ AddFriendFails(h) \/ Poll(h) \/ Ack(h)
         \/ \E c \in Place : ResumeAdd(h, c)
  PROVE  held' \subseteq HeldJob
<1>1. ASSUME NEW p, NEW t, NEW k, NEW b, Becomes(h, p, t, k, b) PROVE held' \subseteq HeldJob
  BY <1>1 DEF Becomes, Replace, TypeOK
<1>2. \E p, t, k, b : Becomes(h, p, t, k, b)
  BY JobMoves, FetchMoves
<1>3. QED
  BY <1>1, <1>2

LEMMA TypeNext == TypeOK /\ [Next]_vars => TypeOK'
<1> SUFFICES ASSUME TypeOK, [Next]_vars PROVE TypeOK'
  OBVIOUS
<1> USE ConstantsAssumption, HeldType, TagTypes DEF TypeOK
<1>0. ranges \subseteq Range
  OBVIOUS
<1>1. ASSUME NEW r \in Request, Begin(r) PROVE TypeOK'
  BY <1>1 DEF Begin, streamVars, results, history, marks
<1>2. ASSUME NEW r \in Request, WriteTags(r) PROVE TypeOK'
  <2>1. tags' \in [Uid -> Tag] /\ overtaken' \in SUBSET Range
    BY <1>0, <1>2 DEF WriteTags, BatchWrite, Tag, Status
  <2>2. QED
    BY <1>2, <2>1 DEF WriteTags, streamVars
<1>3. ASSUME NEW r \in Request, RequestFails(r) PROVE TypeOK'
  BY <1>3, FaultType DEF RequestFails, streamVars, results, history, marks
<1>4. ASSUME NEW r \in Request, NEW p \in ranges, WriteEntry(r, p) PROVE TypeOK'
  <2>1. NewEntry(r, p) \in Entry
    BY <1>0, NewEntryType
  <2>2. QED
    BY <1>4, <2>1 DEF WriteEntry, results, history, marks
<1>5. ASSUME NEW w \in Worker, NEW u \in ranges \X Place,
             NEW fetched \in SUBSET waiting, NEW claimed \in SUBSET pending,
             Pull(w, u, fetched, claimed), faults' = faults \/ Fault
      PROVE  TypeOK'
  <2>1. PICK e \in FirstOf(fetched, claimed) : Take(w, e)
    BY <1>5 DEF Pull
  <2>2. e \in Entry /\ e.part \in Range
    BY <2>1, EntryType DEF FirstOf
  <2>3. held' \subseteq HeldJob
    <3>1. taken[e] + 1 \in Nat
      BY <2>2
    <3>2. [worker |-> w, entry |-> e, delivery |-> taken[e] + 1, n |-> 0, ok |-> TRUE,
           fresh |-> TRUE, phase |-> "Pulled", copy |-> NoTag] \in HeldJob
      BY <2>2, <3>1, Phases DEF HeldJob
    <3>3. QED
      BY <2>1, <3>2 DEF Take
  <2>4. taken' \in [Entry -> Nat] /\ early' \in SUBSET Range
    BY <2>1, <2>2 DEF Take
  <2>5. waiting' \in SUBSET Entry /\ pending' \in SUBSET Entry
    BY <1>5 DEF Pull, Deliver
  <2>6. faults' \in 0 .. MaxFaults
    BY <1>5, FaultType
  <2>7. QED
    BY <1>5, <2>3, <2>4, <2>5, <2>6 DEF Pull, requestVars, results
<1>6. ASSUME NEW h \in held, Fetches(h) PROVE TypeOK'
  <2>1. held' \subseteq HeldJob
    BY <1>6, MovedType
  <2>2. unread' \in SUBSET Range /\ faults' \in 0 .. MaxFaults
    BY <1>6, FetchMoves, FaultType
  <2>3. UNCHANGED <<requestVars, streamVars, results, client,
                    taken, early, overtaken, expired, lost, dropped>>
    BY <1>6, FetchMoves
  <2>4. QED
    BY <2>1, <2>2, <2>3 DEF requestVars, streamVars, results
<1>7. ASSUME NEW h \in held, TagPulled(h) PROVE TypeOK'
  <2>1. held' \subseteq HeldJob
    BY <1>7, MovedType
  <2>2. tags' \in [Uid -> Tag]
    BY <1>7 DEF TagPulled, SetTag
  <2>3. QED
    BY <1>7, <2>1, <2>2 DEF TagPulled, requestVars, streamVars, history, marks
<1>8. ASSUME NEW h \in held, TagCleaned(h) \/ TagResumed(h) PROVE TypeOK'
  <2>1. tags' \in [Uid -> Tag] /\ h.entry.part \in Range
    BY <1>8 DEF TagCleaned, TagResumed, SetTag
  <2>2. lost' \in SUBSET Range /\ dropped' \in SUBSET Range /\ held' \subseteq HeldJob
    BY <1>8, <2>1 DEF TagCleaned, TagResumed
  <2>3. QED
    BY <1>8, <2>1, <2>2 DEF TagCleaned, TagResumed, requestVars, streamVars
<1>9. ASSUME NEW h \in held, AddFriend(h) \/ AddFriendFails(h) PROVE TypeOK'
  <2>1. held' \subseteq HeldJob
    BY <1>9, MovedType
  <2>2. QED
    BY <1>9, <2>1 DEF AddFriend, AddFriendFails, requestVars, streamVars, results, history, marks
<1>10. ASSUME NEW h \in held, Poll(h) PROVE TypeOK'
  <2>1. held' \subseteq HeldJob
    BY <1>10, MovedType
  <2>2. values' \in [Song -> Nat]
    BY <1>10, SongAtType DEF Poll
  <2>3. QED
    BY <1>10, <2>1, <2>2 DEF Poll, requestVars, streamVars, history, marks
<1>11. ASSUME NEW h \in held, Ack(h) PROVE TypeOK'
  <2>1. held' \subseteq HeldJob
    BY <1>11, MovedType
  <2>2. QED
    BY <1>11, <2>1 DEF Ack, requestVars, results, history, marks
<1>12. ASSUME NEW w \in Worker, Refresh(w) PROVE TypeOK'
  <2>1. held' \subseteq HeldJob
    <3>1. \A h \in held : [h EXCEPT !.phase = IF h.ok /\ ~Complete(h) THEN "Scanning" ELSE "Ended"] \in HeldJob
      BY ChangedType, Phases
    <3>2. QED
      BY <1>12, <3>1 DEF Refresh, HeldBy
  <2>2. mortal' \in SUBSET {"tags", "values", "info"}
    BY <1>12 DEF Refresh, Existing
  <2>3. QED
    BY <1>12, <2>1, <2>2 DEF Refresh, requestVars, streamVars, history, marks
<1>13. ASSUME NEW w \in Worker, Crash(w) PROVE TypeOK'
  <2>1. dropped' \in SUBSET Range
    BY <1>13 DEF Crash, HeldBy
  <2>2. QED
    BY <1>13, <2>1, FaultType DEF Crash, requestVars, streamVars, results
<1>14. ASSUME ExpireKeys PROVE TypeOK'
  <2>1. held' \subseteq HeldJob
    <3>1. \A h \in held : [h EXCEPT !.fresh = FALSE] \in HeldJob
      BY ChangedType, Phases
    <3>2. QED
      BY <1>14, <3>1 DEF ExpireKeys
  <2>2. tags' \in [Uid -> Tag] /\ values' \in [Song -> Nat] /\ info' \in BOOLEAN
    BY <1>14 DEF ExpireKeys
  <2>3. QED
    BY <1>0, <1>14, <2>1, <2>2, FaultType DEF ExpireKeys, requestVars, streamVars
<1>15. ASSUME NEW p \in ranges, ExpireStream(p) PROVE TypeOK'
  BY <1>0, <1>15, FaultType DEF ExpireStream, requestVars, results
<1>16. ASSUME AskTags \/ AskInfo \/ AskValues PROVE TypeOK'
  BY <1>16 DEF AskTags, AskInfo, AskValues, Reads, requestVars, streamVars, results, history, marks
<1>17. ASSUME UNCHANGED vars PROVE TypeOK'
  BY <1>17 DEF vars, requestVars, streamVars, results, history, marks
<1>18. ASSUME NEW w \in Worker, Stop(w) PROVE TypeOK'
  <2>1. /\ UNCHANGED <<requestVars, streamVars, results, client, taken, marks, faults>>
        /\ held' \subseteq HeldJob
    BY <1>18, StopMoves
  <2>2. QED
    BY <2>1 DEF requestVars, streamVars, results, marks
<1>19. ASSUME NEW h \in held, NEW c \in Place, ResumeAdd(h, c) PROVE TypeOK'
  <2>1. held' \subseteq HeldJob
    BY <1>19, MovedType
  <2>2. h.entry \in Entry /\ taken[h.entry] \in Nat
    OBVIOUS
  <2>3. faults + 1 \in 0 .. MaxFaults /\ faults' = faults + 1
    BY <1>19 DEF ResumeAdd, Fault
  <2>4. [h.entry EXCEPT !.cursor = c, !.run = faults + 1] \in Entry
    BY <2>2, <2>3 DEF Entry
  <2>5. /\ waiting' \in SUBSET Entry /\ pending' \in SUBSET Entry
        /\ taken' \in [Entry -> Nat]
    BY <1>19, <2>2, <2>4 DEF ResumeAdd
  <2>6. QED
    BY <1>19, <2>1, <2>3, <2>5 DEF ResumeAdd, requestVars, results, marks
<1>20. QED
  BY <1>1, <1>2, <1>3, <1>4, <1>5, <1>6, <1>7, <1>8, <1>9, <1>10, <1>11, <1>12, <1>13,
     <1>14, <1>15, <1>16, <1>17, <1>18, <1>19, StepCases

\* Entries, jobs, tags and lists have their types, for any constants.
THEOREM TypeCorrect == Spec => []TypeOK
  BY TypeInit, TypeNext, PTL DEF Spec

----------------------------------------------------------------------------
(* Failures *)

\* A tag that a worker did not find had not been written yet, could not be read, is
\* that of another job_uid, or it expired: the request of an entry that was not taken
\* early has written its tags.
FailureInv ==
  /\ \A r \in Request : todo[r] \subseteq ranges
  /\ \A r \in Request : phase[r] = "done" /\ ~expired => \A p \in ranges : tags[<<p, 1>>].status # "None"
  /\ \A u \in Uid : tags[u].reason \in {"missing", "requeued"} => Excused(u)
  /\ \A u \in Uid : tags[u].status = "Failed" => tags[u].reason # "none"
  /\ \A h \in held :
       /\ h.entry.part \in ranges
       /\ phase[h.entry.req] = "done" \/ h.entry.part \in early
       /\ h.copy.reason \in {"missing", "requeued"} => Excused(UidOf(h.entry))
       /\ h.phase \in {"Tagging", "Closing", "Resuming"} /\ h.copy = NoTag => Excused(UidOf(h.entry))

LEMMA FailureInit == Init => FailureInv
  BY ConstantsAssumption DEF Init, FailureInv, NoTag

\* What a worker writes for a tag it read.
LEMMA WrittenTags ==
  ASSUME NEW t \in Tag, NEW ok \in BOOLEAN
  PROVE  /\ \A s \in {PulledTag(t), CleanedTag(ok, t), ResumedTag(t)} :
              /\ s.status # "None"
              /\ s.reason \in {"missing", "requeued"} => t = NoTag \/ t.reason \in {"missing", "requeued"}
              /\ s.status = "Failed" => s.reason # "none"
         /\ PulledTag(t).status \in {"Queueing", "Pending"}
         /\ CleanedTag(ok, t).status = IF ok THEN "Success" ELSE "Failed"
         /\ ResumedTag(t).status = IF t = NoTag THEN "Queueing" ELSE "Success"
<1> USE DEF Tag, Status, NoTag
<1>1. /\ PulledTag(t).status \in {"Queueing", "Pending"}
      /\ PulledTag(t).reason = "missing" => t = NoTag \/ t.reason = "missing"
      /\ PulledTag(t).reason = "requeued" => t.reason = "requeued"
  BY DEF PulledTag
<1>2. /\ CleanedTag(ok, t).status = IF ok THEN "Success" ELSE "Failed"
      /\ ~ok => CleanedTag(ok, t).reason # "none"
      /\ CleanedTag(ok, t).reason = "missing" => t = NoTag \/ t.reason = "missing"
      /\ CleanedTag(ok, t).reason = "requeued" => t.reason = "requeued"
  BY DEF CleanedTag
<1>3. /\ ResumedTag(t).status = IF t = NoTag THEN "Queueing" ELSE "Success"
      /\ ResumedTag(t).reason = "missing" => t.reason = "missing"
      /\ ResumedTag(t).reason = "requeued" => t = NoTag \/ t.reason = "requeued"
  BY DEF ResumedTag
<1>4. QED
  BY <1>1, <1>2, <1>3

\* The steps that write a tag.
Writes(h) == TagPulled(h) \/ TagCleaned(h) \/ TagResumed(h)

LEMMA WritesMoves ==
  ASSUME TypeOK, NEW h \in held, Writes(h)
  PROVE  /\ UNCHANGED <<todo, phase, ranges, waiting, pending, values, info, client>>
         /\ UNCHANGED <<taken, early, overtaken, unread, expired>>
         /\ h.phase \in {"Tagging", "Closing", "Resuming"}
         /\ \A g \in held' : g \in held \/ (g.entry = h.entry /\ g.phase = "Tagged" /\ g.copy = NoTag)
         /\ \E t \in {PulledTag(h.copy), CleanedTag(h.ok, h.copy), ResumedTag(h.copy)} :
              \A u \in Uid : tags'[u] = IF u = UidOf(h.entry) THEN t ELSE tags[u]
<1>1. \A g \in held' : g \in held \/ (g.entry = h.entry /\ g.phase = "Tagged" /\ g.copy = NoTag)
  <2>1. CASE TagPulled(h)
    <3>1. Becomes(h, "Tagged", NoTag, h.n, h.ok)
      BY <2>1, JobMoves
    <3>2. QED
      BY <3>1 DEF Becomes, Replace
  <2>2. CASE TagCleaned(h) \/ TagResumed(h)
    BY <2>2 DEF TagCleaned, TagResumed
  <2>3. QED
    BY <2>1, <2>2 DEF Writes
<1>2. PICK t \in {PulledTag(h.copy), CleanedTag(h.ok, h.copy), ResumedTag(h.copy)} : SetTag(h, t)
  BY DEF Writes, TagPulled, TagCleaned, TagResumed
<1>3. \A u \in Uid : tags'[u] = IF u = UidOf(h.entry) THEN t ELSE tags[u]
  BY <1>2 DEF SetTag, TypeOK
<1>4. h.phase \in {"Tagging", "Closing", "Resuming"}
  BY DEF Writes, TagPulled, TagCleaned, TagResumed
<1>5. /\ UNCHANGED <<todo, phase, ranges, waiting, pending, values, info, client>>
      /\ UNCHANGED <<taken, early, overtaken, unread, expired>>
  BY DEF Writes, TagPulled, TagCleaned, TagResumed, requestVars, streamVars, history, marks
<1>6. QED
  BY <1>1, <1>3, <1>4, <1>5

\* A step that writes no tag, and gives no job another copy.
LEMMA FailureFrame ==
  ASSUME FailureInv, UNCHANGED <<todo, phase, ranges, tags, expired, unread>>, early \subseteq early',
         \A g \in held' : g \in held \/
           /\ g.entry.part \in ranges
           /\ phase[g.entry.req] = "done" \/ g.entry.part \in early'
           /\ g.copy.reason \in {"missing", "requeued"} => Excused(UidOf(g.entry))
           /\ g.phase \notin {"Tagging", "Closing", "Resuming"}
  PROVE  FailureInv'
  BY DEF FailureInv, Excused

LEMMA FailureNext == TypeOK /\ FailureInv /\ [Next]_vars => FailureInv'
<1> SUFFICES ASSUME TypeOK, FailureInv, [Next]_vars PROVE FailureInv'
  OBVIOUS
<1>0. /\ held \subseteq HeldJob /\ tags \in [Uid -> Tag] /\ ranges \subseteq Range
      /\ todo \in [Request -> SUBSET Range]
      /\ phase \in [Request -> {"none", "writing", "done", "failed"}]
  BY ConstantsAssumption DEF TypeOK
<1>1. ASSUME NEW r \in Request, Begin(r) \/ RequestFails(r) PROVE FailureInv'
  BY <1>0, <1>1, HeldType DEF FailureInv, Excused, Begin, RequestFails, streamVars, results, history,
     marks, Fault
<1>2. ASSUME NEW r \in Request, WriteTags(r) PROVE FailureInv'
  <2>1. /\ UNCHANGED <<todo, ranges, held, early, unread, expired>>
        /\ phase' = [phase EXCEPT ![r] = "done"]
    BY <1>2 DEF WriteTags
  <2>2. /\ \A p \in ranges : <<p, 1>> \in Uid /\ tags'[<<p, 1>>].status = "Queueing"
        /\ \A u \in Uid : tags'[u] = tags[u] \/ (tags'[u].status = "Queueing" /\ tags'[u].reason = "none")
    BY <1>0, <1>2, NewEntryType DEF WriteTags, BatchWrite
  <2>3. QED
    BY <1>0, <2>1, <2>2, HeldType DEF FailureInv, Excused
<1>3. ASSUME NEW r \in Request, NEW p \in ranges, WriteEntry(r, p) PROVE FailureInv'
  BY <1>0, <1>3 DEF FailureInv, Excused, WriteEntry, results, history, marks
<1>4. ASSUME NEW w \in Worker, NEW u \in ranges \X Place,
             NEW fetched \in SUBSET waiting, NEW claimed \in SUBSET pending,
             Pull(w, u, fetched, claimed)
      PROVE  FailureInv'
  <2>1. PICK e \in FirstOf(fetched, claimed) : Take(w, e)
    BY <1>4 DEF Pull
  <2>2. e.part \in ranges
    BY <1>4, <2>1 DEF Pull, FirstOf, UidOf
  <2>3. early \subseteq early' /\ (phase[e.req] = "done" \/ e.part \in early')
    BY <2>1 DEF Take
  <2>4. UNCHANGED <<todo, phase, ranges, tags, expired, unread>>
    BY <1>4 DEF Pull, requestVars, results
  <2>5. \A h \in held' : h \in held \/ (h.entry = e /\ h.phase = "Pulled" /\ h.copy = NoTag)
    BY <2>1 DEF Take
  <2>6. QED
    BY <2>2, <2>3, <2>4, <2>5, FailureFrame DEF NoTag
<1>5. ASSUME NEW h \in held, Fetches(h) PROVE FailureInv'
  <2> DEFINE u == UidOf(h.entry)
  <2>1. /\ UNCHANGED <<todo, phase, ranges, tags, expired, early>>
        /\ unread \subseteq unread'
    BY <1>5, FetchMoves DEF requestVars, results
  <2>2. PICK g : /\ held' = (held \ {h}) \cup {g} /\ g.entry = h.entry
                 /\ \/ g.copy = tags[u]
                    \/ g.copy = NoTag /\ h.entry.part \in unread'
    BY <1>5, FetchMoves DEF Becomes, Replace
  <2>3. u \in Uid /\ u[1] = h.entry.part /\ u[2] = h.entry.cursor /\ u = <<h.entry.part, h.entry.cursor>>
    BY <1>0, HeldType DEF UidOf
  <2>4. h.entry.part \in ranges /\ (phase[h.entry.req] = "done" \/ h.entry.part \in early)
    BY DEF FailureInv
  <2>5. \A v \in Uid : Excused(v) => Excused(v)'
    BY <2>1 DEF Excused
  <2>6. tags[u].reason \in {"missing", "requeued"} => Excused(u)
    BY <2>3 DEF FailureInv
  <2>7. tags[u] = NoTag => Excused(u)
    BY <1>0, <2>3, <2>4, HeldType DEF FailureInv, Excused, NoTag
  <2>8. h.entry.part \in unread' => Excused(u)'
    BY <2>3 DEF Excused
  <2>9. /\ g.copy.reason \in {"missing", "requeued"} => Excused(u)'
        /\ g.copy = NoTag => Excused(u)'
    BY <2>2, <2>3, <2>5, <2>6, <2>7, <2>8 DEF NoTag
  <2>10. \A j \in held : UidOf(j.entry) \in Uid
    BY <1>0, HeldType
  <2>11. QED
    BY <2>1, <2>2, <2>4, <2>5, <2>9, <2>10 DEF FailureInv
<1>6. ASSUME NEW h \in held, Writes(h) PROVE FailureInv'
  <2> DEFINE u == UidOf(h.entry)
  <2>1. /\ UNCHANGED <<todo, phase, ranges, early, unread, expired>>
        /\ \A g \in held' : g \in held \/ (g.entry = h.entry /\ g.phase = "Tagged" /\ g.copy = NoTag)
    BY <1>6, WritesMoves
  <2>2. PICK t \in {PulledTag(h.copy), CleanedTag(h.ok, h.copy), ResumedTag(h.copy)} :
          \A v \in Uid : tags'[v] = IF v = u THEN t ELSE tags[v]
    BY <1>6, WritesMoves
  <2>3. h.copy \in Tag /\ h.ok \in BOOLEAN /\ h.phase \in {"Tagging", "Closing", "Resuming"}
    BY <1>0, <1>6, HeldType, WritesMoves
  <2>4. /\ t.status # "None" /\ (t.status = "Failed" => t.reason # "none")
        /\ t.reason \in {"missing", "requeued"} => Excused(u)
    BY <2>3, WrittenTags DEF FailureInv
  <2>5. \A v : Excused(v)' <=> Excused(v)
    BY <2>1 DEF Excused
  <2>6. \A p \in ranges : <<p, 1>> \in Uid
    BY <1>0 DEF Uid, Place
  <2>7. \A r \in Request : phase'[r] = "done" /\ ~expired' =>
                             \A p \in ranges' : tags'[<<p, 1>>].status # "None"
    BY <2>1, <2>2, <2>4, <2>6 DEF FailureInv
  <2>8. \A v \in Uid : /\ tags'[v].reason \in {"missing", "requeued"} => Excused(v)'
                       /\ tags'[v].status = "Failed" => tags'[v].reason # "none"
    BY <2>2, <2>4, <2>5 DEF FailureInv
  <2>9. ASSUME NEW g \in held'
        PROVE  /\ g.entry.part \in ranges
               /\ phase[g.entry.req] = "done" \/ g.entry.part \in early
               /\ g.copy.reason \in {"missing", "requeued"} => Excused(UidOf(g.entry))
               /\ g.phase \in {"Tagging", "Closing", "Resuming"} /\ g.copy = NoTag =>
                    Excused(UidOf(g.entry))
    BY <2>1, <2>9 DEF FailureInv, NoTag
  <2>10. \A r \in Request : todo'[r] \subseteq ranges'
    BY <2>1 DEF FailureInv
  <2>11. QED
    BY <2>1, <2>5, <2>7, <2>8, <2>9, <2>10 DEF FailureInv
<1>7. ASSUME NEW h \in held,
             \/ AddFriend(h) \/ AddFriendFails(h) \/ Poll(h) \/ Ack(h)
             \/ \E c \in Place : ResumeAdd(h, c)
      PROVE  FailureInv'
  <2>1. UNCHANGED <<todo, phase, ranges, tags, expired, early, unread>>
    BY <1>7 DEF AddFriend, AddFriendFails, Poll, Ack, ResumeAdd, requestVars, results, history, marks
  <2>2. \A g \in held' : g \in held \/ (/\ g.entry = h.entry /\ g.copy = h.copy
                                       /\ g.phase \in {"Scanning", "Polled", "Acked", "Requeued"})
    <3>1. ASSUME NEW p \in {"Scanning", "Polled", "Acked", "Requeued"}, NEW k, NEW b,
                 Becomes(h, p, h.copy, k, b)
          PROVE  \A g \in held' : g \in held \/
                   (/\ g.entry = h.entry /\ g.copy = h.copy
                    /\ g.phase \in {"Scanning", "Polled", "Acked", "Requeued"})
      BY <3>1 DEF Becomes, Replace
    <3>2. \/ Becomes(h, "Scanning", h.copy, h.n, h.ok) \/ Becomes(h, "Polled", h.copy, h.n, FALSE)
          \/ Becomes(h, "Polled", h.copy, h.n + 1, h.ok) \/ Becomes(h, "Acked", h.copy, h.n, h.ok)
          \/ Becomes(h, "Requeued", h.copy, h.n, h.ok)
      BY <1>7, JobMoves
    <3>3. QED
      BY <3>1, <3>2
  <2>3. QED
    BY <2>1, <2>2, FailureFrame DEF FailureInv
<1>8. ASSUME NEW w \in Worker, Refresh(w) \/ Crash(w) \/ Stop(w) PROVE FailureInv'
  <2>1. UNCHANGED <<todo, phase, ranges, tags, expired, early, unread>>
    BY <1>8 DEF Refresh, Crash, Stop, requestVars, results, history, marks
  <2>2. \A g \in held' : g \in held \/ \E h \in held : /\ g.entry = h.entry /\ g.copy = h.copy
                                                    /\ g.phase \in {"Scanning", "Ended", "Stopped"}
    <3>1. CASE Refresh(w)
      BY <3>1, RefreshMoves
    <3>2. CASE Crash(w)
      BY <3>2 DEF Crash
    <3>3. CASE Stop(w)
      BY <3>3, StopMoves
    <3>4. QED
      BY <1>8, <3>1, <3>2, <3>3
  <2>3. QED
    BY <2>1, <2>2, FailureFrame DEF FailureInv
<1>9. ASSUME ExpireKeys PROVE FailureInv'
  <2>1. UNCHANGED <<todo, phase, ranges, early>> /\ expired'
    BY <1>9 DEF ExpireKeys, requestVars
  <2>2. \A u \in Uid : tags'[u] \in {tags[u], NoTag}
    BY <1>0, <1>9 DEF ExpireKeys
  <2>3. \A g \in held' : \E h \in held : g.entry = h.entry
    BY <1>9, ExpireMoves
  <2>4. \A u \in Uid : tags'[u].status = "Failed" => tags'[u].reason # "none"
    BY <2>2 DEF FailureInv, NoTag
  <2>5. QED
    BY <2>1, <2>3, <2>4 DEF FailureInv, Excused
<1>10. ASSUME NEW p \in ranges, ExpireStream(p) PROVE FailureInv'
  BY <1>10 DEF FailureInv, Excused, ExpireStream, requestVars, results
<1>11. ASSUME AskTags \/ AskInfo \/ AskValues \/ UNCHANGED vars PROVE FailureInv'
  BY <1>11 DEF FailureInv, Excused, AskTags, AskInfo, AskValues, Reads, vars, requestVars, streamVars,
               results, history, marks
<1>12. QED
  BY <1>1, <1>2, <1>3, <1>4, <1>5, <1>6, <1>7, <1>8, <1>9, <1>10, <1>11, StepCases DEF Writes

\* A failed tag names a reason, and its first one is the failure of the job, unless the
\* tag was made anew: a worker took the job before it was tagged, could not read the tag,
\* or carried the job to another job_uid, or the tags expired.
THEOREM FailuresAreExplained == Spec => []FailureExplained
<1>1. TypeOK /\ FailureInv => FailureExplained
  BY DEF TypeOK, Tag, FailureInv, FailureExplained
<1>2. Init => FailureInv
  BY FailureInit
<1>3. QED
  BY TypeInit, TypeNext, FailureNext, <1>1, <1>2, PTL DEF Spec
----------------------------------------------------------------------------
(* Answers *)

Gathered(p) == info /\ Listed(p)

\* A job that was begun after the last expiry, and whose friend could be added, has
\* listed as many songs as it counts.
JobInv(h) ==
  /\ h.fresh \/ expired
  /\ h.phase \in {"Pulled", "Tagging", "Tagged"} => h.n = 0
  /\ h.fresh /\ h.ok =>
       /\ \A i \in 1 .. Songs[h.entry.part] : i <= h.n => values[<<h.entry.part, i>>] > 0
       /\ h.phase \in {"Scanning", "Polled", "Ended", "Acked", "Closing"} => info
       /\ h.phase = "Scanning" => h.n = 0 \/ ~Complete(h)
       /\ h.phase \in {"Ended", "Acked", "Closing"} => Complete(h)

\* What a Success tag, or a range gathered anew, stands for.
AnswerInv ==
  /\ \A u \in Uid : u[1] \in ranges \ lost /\ tags[u].status = "Success" /\ ~expired => Gathered(u[1])
  /\ expired \/ client # "idle" => \A p \in ranges \ lost : Gathered(p)
  /\ \A h \in held : JobInv(h)

LEMMA AnswerInit == Init => AnswerInv
  BY ConstantsAssumption DEF Init, AnswerInv, NoTag

\* Nothing but their expiry takes scores or the friend away.
LEMMA ListsGrow ==
  ASSUME TypeOK, TypeOK', NEW p \in Range, info => info', \A s \in Song : values'[s] >= values[s]
  PROVE  /\ Gathered(p) => Gathered(p)'
         /\ \A i \in 1 .. Songs[p] : values[<<p, i>>] > 0 => values'[<<p, i>>] > 0
<1>1. \A i \in 1 .. Songs[p] : values[<<p, i>>] > 0 => values'[<<p, i>>] > 0
  <2>1. ASSUME NEW i \in 1 .. Songs[p], values[<<p, i>>] > 0 PROVE values'[<<p, i>>] > 0
    <3>1. <<p, i>> \in Song
      BY SongType
    <3>2. /\ values[<<p, i>>] \in Nat /\ values'[<<p, i>>] \in Nat
          /\ values'[<<p, i>>] >= values[<<p, i>>]
      BY <3>1 DEF TypeOK
    <3>3. QED
      BY <2>1, <3>2
  <2>2. QED
    BY <2>1
<1>2. QED
  BY <1>1 DEF Gathered, Listed

\* A job with a full count, begun after the last expiry, has gathered its range.
LEMMA CompleteIsGathered ==
  ASSUME NEW h \in HeldJob, JobInv(h), h.fresh, h.ok, h.phase = "Closing"
  PROVE  Gathered(h.entry.part)
<1>1. h.n \in Nat /\ Songs[h.entry.part] \in Nat /\ h.n >= Songs[h.entry.part] /\ info
  BY HeldType, ConstantsAssumption DEF JobInv, Complete
<1>2. QED
  BY <1>1 DEF JobInv, Gathered, Listed

\* The steps that add to the lists and may change one job.
LEMMA JobStepAnswers ==
  ASSUME TypeOK, TypeOK', AnswerInv, info => info', \A s \in Song : values'[s] >= values[s],
         UNCHANGED <<ranges, tags, client, lost, expired>>,
         \A g \in held' : g \in held \/ JobInv(g)'
  PROVE  AnswerInv'
<1>1. ranges \subseteq Range /\ held \subseteq HeldJob
  BY ConstantsAssumption DEF TypeOK
<1>2. \A p \in Range : Gathered(p) => Gathered(p)'
  BY ListsGrow
<1>3. ASSUME NEW g \in held PROVE JobInv(g)'
  <2>1. g.entry.part \in Range /\ JobInv(g)
    BY <1>1, HeldType DEF AnswerInv
  <2>2. \A i \in 1 .. Songs[g.entry.part] :
          values[<<g.entry.part, i>>] > 0 => values'[<<g.entry.part, i>>] > 0
    BY <2>1, ListsGrow
  <2>3. QED
    BY <2>1, <2>2 DEF JobInv, Complete
<1>4. QED
  BY <1>1, <1>2, <1>3 DEF AnswerInv

LEMMA AnswerNext == TypeOK /\ TypeOK' /\ FailureInv /\ AnswerInv /\ [Next]_vars => AnswerInv'
<1> SUFFICES ASSUME TypeOK, TypeOK', FailureInv, AnswerInv, [Next]_vars PROVE AnswerInv'
  OBVIOUS
<1>0. /\ held \subseteq HeldJob /\ tags \in [Uid -> Tag] /\ ranges \subseteq Range
      /\ values \in [Song -> Nat]
  BY ConstantsAssumption DEF TypeOK
<1>a. \A s \in Song : values[s] >= values[s]
  BY <1>0
\* A step that leaves the lists, the tags and the jobs alone.
<1>b. ASSUME UNCHANGED <<ranges, tags, values, info, client, lost, expired>>, held' \subseteq held
      PROVE  AnswerInv'
  BY <1>0, <1>a, <1>b, JobStepAnswers
<1>1. ASSUME NEW r \in Request, Begin(r) \/ RequestFails(r) PROVE AnswerInv'
  BY <1>1, <1>b DEF Begin, RequestFails, requestVars, streamVars, results, history, marks
<1>2. ASSUME NEW r \in Request, WriteTags(r) PROVE AnswerInv'
  <2>1. \A u \in Uid : tags'[u].status = "Success" => tags[u].status = "Success"
    BY <1>0, <1>2 DEF WriteTags, BatchWrite
  <2>2. UNCHANGED <<ranges, values, info, client, lost, expired, held>>
    BY <1>2 DEF WriteTags
  <2>3. QED
    BY <2>1, <2>2 DEF AnswerInv, Gathered, Listed, JobInv, Complete
<1>3. ASSUME NEW r \in Request, NEW p \in ranges, WriteEntry(r, p) PROVE AnswerInv'
  BY <1>3, <1>b DEF WriteEntry, results, history, marks
<1>4. ASSUME NEW w \in Worker, NEW u \in ranges \X Place,
             NEW fetched \in SUBSET waiting, NEW claimed \in SUBSET pending,
             Pull(w, u, fetched, claimed)
      PROVE  AnswerInv'
  <2>1. PICK e : Take(w, e)
    BY <1>4 DEF Pull
  <2>2. UNCHANGED <<ranges, tags, values, info, client, lost, expired>>
    BY <1>4 DEF Pull, requestVars, results
  <2>3. \A g \in held' : g \in held \/ (g.phase = "Pulled" /\ g.n = 0 /\ g.fresh)
    BY <2>1 DEF Take
  <2>4. \A g \in held' : g \in held \/ JobInv(g)'
    BY <2>3 DEF JobInv
  <2>5. QED
    BY <1>a, <2>2, <2>4, JobStepAnswers
<1>5. ASSUME NEW h \in held, Fetches(h) \/ Ack(h) \/ \E c \in Place : ResumeAdd(h, c)
      PROVE  AnswerInv'
  <2>1. UNCHANGED <<ranges, tags, values, info, client, lost, expired>>
    <3>1. CASE Fetches(h)
      BY <3>1, FetchMoves DEF requestVars, results
    <3>2. CASE Ack(h) \/ \E c \in Place : ResumeAdd(h, c)
      BY <3>2 DEF Ack, ResumeAdd, requestVars, results, history, marks
    <3>3. QED
      BY <1>5, <3>1, <3>2
  <2>2. JobInv(h) /\ h \in HeldJob
    BY <1>0 DEF AnswerInv
  <2>3. ASSUME NEW t, NEW q,
               \/ (q = "Tagging" /\ h.phase = "Pulled")
               \/ (q = "Closing" /\ h.phase = "Acked")
               \/ (q = "Acked" /\ h.phase = "Ended")
               \/ q \in {"Requeued", "Resuming"},
               Becomes(h, q, t, h.n, h.ok)
        PROVE  \A g \in held' : g \in held \/ JobInv(g)'
    BY <2>1, <2>2, <2>3 DEF Becomes, Replace, JobInv, Complete
  <2>4. \A g \in held' : g \in held \/ JobInv(g)'
    <3>1. CASE Fetches(h)
      BY <2>3, <3>1, FetchMoves DEF Fetch
    <3>2. CASE Ack(h)
      <4>1. h.phase = "Ended" /\ Becomes(h, "Acked", h.copy, h.n, h.ok)
        BY <3>2, JobMoves DEF Ack
      <4>2. QED
        BY <2>3, <4>1
    <3>3. CASE \E c \in Place : ResumeAdd(h, c)
      <4>1. Becomes(h, "Requeued", h.copy, h.n, h.ok)
        BY <3>3, JobMoves
      <4>2. QED
        BY <2>3, <4>1
    <3>4. QED
      BY <1>5, <3>1, <3>2, <3>3
  <2>5. QED
    BY <1>a, <2>1, <2>4, JobStepAnswers
<1>6. ASSUME NEW h \in held, TagPulled(h) PROVE AnswerInv'
  <2>1. UNCHANGED <<ranges, values, info, client, lost, expired>>
    BY <1>6 DEF TagPulled, requestVars, history, marks
  <2>2. /\ JobInv(h) /\ h \in HeldJob /\ h.phase = "Tagging"
        /\ h.copy \in Tag /\ h.ok \in BOOLEAN
    BY <1>0, <1>6, HeldType DEF AnswerInv, TagPulled
  <2>3. Becomes(h, "Tagged", NoTag, h.n, h.ok)
    BY <1>6, JobMoves
  <2>4. \A g \in held' : g \in held \/ JobInv(g)'
    BY <2>1, <2>2, <2>3 DEF Becomes, Replace, JobInv, Complete
  <2>5. \A u \in Uid : tags'[u].status = "Success" => tags[u].status = "Success"
    BY <1>0, <1>6, <2>2, WrittenTags DEF TagPulled, SetTag
  <2>6. \A g \in held' : JobInv(g)'
    BY <2>1, <2>4 DEF AnswerInv, JobInv, Complete
  <2>7. QED
    BY <2>1, <2>5, <2>6 DEF AnswerInv, Gathered, Listed
<1>7. ASSUME NEW h \in held, TagCleaned(h) PROVE AnswerInv'
  <2>1. UNCHANGED <<ranges, values, info, client, expired>> /\ held' \subseteq held
    BY <1>7 DEF TagCleaned, requestVars
  <2>2. /\ JobInv(h) /\ h \in HeldJob /\ h.phase = "Closing" /\ h.ok \in BOOLEAN
        /\ h.copy \in Tag /\ h.entry.part \in Range
    BY <1>0, <1>7, HeldType DEF AnswerInv, TagCleaned
  <2>3. h.ok /\ h.fresh => Gathered(h.entry.part)
    BY <2>2, CompleteIsGathered
  <2>4. \A u \in Uid : tags'[u].status = "Success" =>
          tags[u].status = "Success" \/ (u[1] = h.entry.part /\ h.ok)
    BY <1>0, <1>7, <2>2, HeldType, WrittenTags DEF TagCleaned, SetTag
  <2>5. \A p \in ranges \ lost' : p \in ranges \ lost \/ (p = h.entry.part /\ h.ok /\ h.fresh)
    BY <1>7 DEF TagCleaned
  <2>6. h.fresh \/ expired
    BY <2>2 DEF JobInv
  <2>7. \A g \in held' : JobInv(g)'
    BY <2>1 DEF AnswerInv, JobInv, Complete
  <2>8. \A p \in Range : Gathered(p)' <=> Gathered(p)
    BY <2>1 DEF Gathered, Listed
  <2>9. QED
    BY <1>0, <2>1, <2>3, <2>4, <2>5, <2>6, <2>7, <2>8 DEF AnswerInv
<1>8. ASSUME NEW h \in held, AddFriend(h) PROVE AnswerInv'
  <2>1. UNCHANGED <<ranges, tags, values, client, lost, expired>> /\ info'
    BY <1>8 DEF AddFriend, requestVars, history, marks
  <2>2. JobInv(h) /\ h \in HeldJob /\ h.phase = "Tagged"
    BY <1>0, <1>8 DEF AnswerInv, AddFriend
  <2>3. Becomes(h, "Scanning", h.copy, h.n, h.ok)
    BY <1>8, JobMoves
  <2>4. \A g \in held' : g \in held \/ JobInv(g)'
    BY <2>1, <2>2, <2>3 DEF Becomes, Replace, JobInv, Complete
  <2>5. QED
    BY <1>a, <2>1, <2>4, JobStepAnswers
<1>9. ASSUME NEW h \in held, AddFriendFails(h) PROVE AnswerInv'
  <2>1. UNCHANGED <<ranges, tags, values, info, client, lost, expired>>
    BY <1>9 DEF AddFriendFails, requestVars, results, history, marks
  <2>2. JobInv(h)
    BY DEF AnswerInv
  <2>3. Becomes(h, "Polled", h.copy, h.n, FALSE)
    BY <1>9, JobMoves
  <2>4. \A g \in held' : g \in held \/ JobInv(g)'
    BY <2>1, <2>2, <2>3 DEF Becomes, Replace, JobInv
  <2>5. QED
    BY <1>a, <2>1, <2>4, JobStepAnswers
<1>10. ASSUME NEW h \in held, Poll(h) PROVE AnswerInv'
  <2> DEFINE p == h.entry.part
  <2>1. UNCHANGED <<ranges, tags, info, client, lost, expired>>
    BY <1>10 DEF Poll, requestVars, history, marks
  <2>2. /\ JobInv(h) /\ h \in HeldJob /\ h.phase = "Scanning" /\ h.n \in Nat /\ p \in Range
        /\ Songs[p] \in Nat
    BY <1>0, <1>10, HeldType, ConstantsAssumption DEF AnswerInv, Poll
  <2>3. Becomes(h, "Polled", h.copy, h.n + 1, h.ok)
    BY <1>10, JobMoves
  <2>4. \A s \in Song : values'[s] >= values[s]
    <3>1. CASE Songs[p] = 0
      BY <1>0, <1>10, <3>1 DEF Poll
    <3>2. CASE Songs[p] # 0
      <4>1. SongAt(h) \in Song
        BY <2>2, <3>2, SongAtType
      <4>2. values' = [values EXCEPT ![SongAt(h)] = @ + 1]
        BY <1>10, <3>2 DEF Poll
      <4>3. QED
        BY <1>0, <4>1, <4>2
    <3>3. QED
      BY <3>1, <3>2
  <2>5. ASSUME h.fresh, h.ok, NEW i \in 1 .. Songs[p], i <= h.n + 1
        PROVE  values'[<<p, i>>] > 0
    <3>1. <<p, i>> \in Song
      BY <2>2, SongType
    <3>2. CASE i <= h.n
      <4>1. values[<<p, i>>] > 0
        BY <2>2, <2>5, <3>2 DEF JobInv
      <4>2. QED
        BY <2>2, <2>4, <4>1, ListsGrow, <2>1
    <3>3. CASE i = h.n + 1
      <4>1. SongAt(h) = <<p, i>>
        BY <2>2, <3>3 DEF SongAt
      <4>2. values'[<<p, i>>] = values[<<p, i>>] + 1 /\ values[<<p, i>>] \in Nat
        BY <1>0, <1>10, <2>2, <3>1, <4>1 DEF Poll
      <4>3. QED
        BY <4>2
    <3>4. QED
      BY <2>2, <2>5, <3>2, <3>3
  <2>6. \A g \in held' : g \in held \/ JobInv(g)'
    BY <2>1, <2>2, <2>3, <2>5 DEF Becomes, Replace, JobInv
  <2>7. QED
    BY <2>1, <2>4, <2>6, JobStepAnswers
<1>11. ASSUME NEW w \in Worker, Refresh(w) PROVE AnswerInv'
  <2>1. UNCHANGED <<ranges, tags, values, info, client, lost, expired>>
    BY <1>11 DEF Refresh, requestVars, history, marks
  <2>2. ASSUME NEW g \in held', g \notin held PROVE JobInv(g)'
    <3>1. PICK h \in held : /\ h.phase = "Polled"
                           /\ g.entry = h.entry /\ g.n = h.n /\ g.ok = h.ok /\ g.fresh = h.fresh
                           /\ \/ g.phase = "Scanning" /\ h.ok /\ ~Complete(h)
                              \/ g.phase = "Ended" /\ ~(h.ok /\ ~Complete(h))
      BY <1>11, <2>2, RefreshMoves
    <3>2. JobInv(h)
      BY DEF AnswerInv
    <3>3. QED
      BY <2>1, <3>1, <3>2 DEF JobInv, Complete
  <2>3. QED
    BY <1>a, <2>1, <2>2, JobStepAnswers
<1>12. ASSUME NEW w \in Worker, Crash(w) PROVE AnswerInv'
  BY <1>12, <1>b DEF Crash, requestVars, results
<1>13. ASSUME ExpireKeys PROVE AnswerInv'
  <2>1. expired' /\ lost' = ranges /\ ranges' = ranges
    BY <1>13 DEF ExpireKeys, requestVars
  <2>2. \A g \in held' : JobInv(g)'
    <3>1. ASSUME NEW g \in held' PROVE JobInv(g)'
      <4>1. PICK h \in held : g.phase = h.phase /\ g.n = h.n /\ g.fresh = FALSE
        BY <1>13, ExpireMoves
      <4>2. JobInv(h)
        BY DEF AnswerInv
      <4>3. QED
        BY <2>1, <4>1, <4>2 DEF JobInv
    <3>2. QED
      BY <3>1
  <2>3. QED
    BY <2>1, <2>2 DEF AnswerInv
<1>14. ASSUME NEW p \in ranges, ExpireStream(p) PROVE AnswerInv'
  BY <1>14, <1>b DEF ExpireStream, requestVars, results
<1>15. ASSUME AskTags \/ AskInfo \/ AskValues PROVE AnswerInv'
  <2>1. UNCHANGED <<ranges, tags, values, info, lost, expired, held>>
    BY <1>15 DEF AskTags, AskInfo, AskValues, Reads, requestVars, results, history, marks
  <2>2. ASSUME AskTags, ~expired PROVE \A p \in ranges \ lost : Gathered(p)
    <3>1. \A p \in ranges : tags[<<p, 1>>].status # "None"
      BY <2>2 DEF AskTags, Accepted, FailureInv
    <3>2. \A u \in Uid : tags[u].status # "None" => tags[u].status = "Success"
      BY <2>2 DEF AskTags, Verdict
    <3>3. \A p \in ranges : <<p, 1>> \in Uid /\ <<p, 1>>[1] = p
      BY <1>0 DEF Uid, Place
    <3>4. QED
      BY <2>2, <3>1, <3>2, <3>3 DEF AnswerInv
  <2>3. AskInfo \/ AskValues => client # "idle"
    BY DEF AskInfo, AskValues, Reads
  <2>4. \A p \in ranges \ lost : Gathered(p)
    BY <1>15, <2>2, <2>3 DEF AnswerInv
  <2>5. QED
    BY <2>1, <2>4 DEF AnswerInv, Gathered, Listed, JobInv, Complete
<1>16. ASSUME UNCHANGED vars PROVE AnswerInv'
  BY <1>16, <1>b DEF vars, requestVars, results, history, marks
<1>17. ASSUME NEW w \in Worker, Stop(w) PROVE AnswerInv'
  <2>1. UNCHANGED <<ranges, tags, values, info, client, lost, expired>>
    BY <1>17, StopMoves DEF requestVars, results, marks
  <2>2. ASSUME NEW g \in held', g \notin held PROVE JobInv(g)'
    <3>1. PICK h \in held : /\ g.phase = "Stopped"
                           /\ g.entry = h.entry /\ g.n = h.n /\ g.ok = h.ok /\ g.fresh = h.fresh
      BY <1>17, <2>2, StopMoves
    <3>2. JobInv(h)
      BY DEF AnswerInv
    <3>3. QED
      BY <2>1, <3>1, <3>2 DEF JobInv, Complete
  <2>3. QED
    BY <1>a, <2>1, <2>2, JobStepAnswers
<1>18. ASSUME NEW h \in held, TagResumed(h) PROVE AnswerInv'
  <2>1. /\ UNCHANGED <<ranges, values, info, client, expired>>
        /\ held' \subseteq held /\ lost' = lost \cup {h.entry.part}
    BY <1>18 DEF TagResumed, requestVars
  <2>2. \A u \in Uid : u[1] \notin lost' => tags'[u] = tags[u]
    BY <1>0, <1>18, <2>1, HeldType DEF TagResumed, SetTag
  <2>3. \A g \in held' : JobInv(g)'
    BY <2>1 DEF AnswerInv, JobInv, Complete
  <2>4. \A p \in Range : Gathered(p)' <=> Gathered(p)
    BY <2>1 DEF Gathered, Listed
  <2>5. QED
    BY <1>0, <2>1, <2>2, <2>3, <2>4 DEF AnswerInv
<1>19. QED
  BY <1>1, <1>2, <1>3, <1>4, <1>5, <1>6, <1>7, <1>8, <1>9, <1>10, <1>11, <1>12, <1>13,
     <1>14, <1>15, <1>16, <1>17, <1>18, StepCases

\* A client that was told Finished reads the friend and the scores of every song,
\* but for ranges that expired, or were carried on by another worker, and were not
\* gathered again.
THEOREM AnswersAreComplete == Spec => AnswerComplete
<1>1. ASSUME TypeOK, AnswerInv, AskInfo PROVE info \/ lost # {}
  <2>1. \A p \in ranges \ lost : Gathered(p)
    BY <1>1 DEF AnswerInv, AskInfo, Reads
  <2>2. ranges # {}
    BY <1>1, ConstantsAssumption DEF TypeOK
  <2>3. QED
    BY <2>1, <2>2 DEF Gathered
<1>2. ASSUME AnswerInv, AskValues PROVE \A p \in ranges \ lost : Listed(p)
  BY <1>2 DEF AnswerInv, AskValues, Reads, Gathered
<1>3. TypeOK /\ AnswerInv =>
        [/\ AskInfo => info \/ lost # {}
         /\ AskValues => \A p \in ranges \ lost : Listed(p)]_vars
  BY <1>1, <1>2
<1>4. QED
  BY TypeInit, FailureInit, AnswerInit, TypeNext, FailureNext, AnswerNext, <1>3, PTL
     DEF Spec, AnswerComplete

----------------------------------------------------------------------------
(* Entries and jobs *)

\* What holds of entries and jobs in any case.
BegunInv ==
  /\ \A e \in waiting \cup pending : phase[e.req] # "none"
  /\ \A e \in Entry : taken[e] > 0 => phase[e.req] # "none"
  /\ \A h \in held : taken[h.entry] > 0
  /\ \A h \in held : h.phase \in {"Requeued", "Resuming"} => taken[h.entry] > 1
  /\ \A h \in held : h.phase \in {"Pulled", "Tagging", "Tagged", "Scanning"} => h.ok
  /\ \A u \in Uid : u[1] \notin ranges => tags[u].status = "None"

LEMMA BegunInit == Init => BegunInv
  BY ConstantsAssumption DEF Init, BegunInv, NoTag

\* What a step may make of the jobs that it does not take or re-enqueue.
Carried(g, h) ==
  /\ g.entry = h.entry
  /\ g.phase \in {"Pulled", "Tagging", "Tagged", "Scanning"} => g.ok
  /\ g.phase \in {"Requeued", "Resuming"} => h.phase \in {"Requeued", "Resuming"}

\* A step that takes no entry, writes none, and sets no tag but those of the ranges.
LEMMA BegunFrame ==
  ASSUME BegunInv, UNCHANGED <<phase, ranges, taken>>,
         waiting' \cup pending' \subseteq waiting \cup pending,
         \A u \in Uid : u[1] \notin ranges => tags'[u].status \in {tags[u].status, "None"},
         \A g \in held' : g \in held \/ \E h \in held : Carried(g, h)
  PROVE  BegunInv'
  BY DEF BegunInv, Carried

LEMMA BegunNext == TypeOK /\ FailureInv /\ BegunInv /\ [Next]_vars => BegunInv'
<1> SUFFICES ASSUME TypeOK, FailureInv, BegunInv, [Next]_vars PROVE BegunInv'
  OBVIOUS
<1>0. /\ held \subseteq HeldJob /\ taken \in [Entry -> Nat] /\ tags \in [Uid -> Tag]
      /\ waiting \subseteq Entry /\ pending \subseteq Entry
      /\ phase \in [Request -> {"none", "writing", "done", "failed"}]
  BY DEF TypeOK
<1>1. ASSUME NEW r \in Request, Begin(r) \/ WriteTags(r) \/ RequestFails(r) PROVE BegunInv'
  <2>1. /\ UNCHANGED <<ranges, waiting, pending, held, taken>>
        /\ \A q \in Request : phase[q] # "none" => phase'[q] # "none"
    BY <1>0, <1>1 DEF Begin, WriteTags, RequestFails, streamVars, history
  <2>2. \A u \in Uid : u[1] \notin ranges => tags'[u] = tags[u]
    BY <1>1 DEF Begin, WriteTags, BatchWrite, RequestFails, results
  <2>3. QED
    BY <1>0, <2>1, <2>2, EntryType DEF BegunInv
<1>2. ASSUME NEW r \in Request, NEW p \in ranges, WriteEntry(r, p) PROVE BegunInv'
  <2>1. waiting' = waiting \cup {NewEntry(r, p)} /\ NewEntry(r, p).req = r /\ phase[r] = "writing"
    BY <1>2 DEF WriteEntry, NewEntry
  <2>2. UNCHANGED <<ranges, phase, pending, held, taken, tags>>
    BY <1>2 DEF WriteEntry, results, history
  <2>3. QED
    BY <2>1, <2>2 DEF BegunInv
<1>3. ASSUME NEW w \in Worker, NEW u \in ranges \X Place,
             NEW fetched \in SUBSET waiting, NEW claimed \in SUBSET pending,
             Pull(w, u, fetched, claimed)
      PROVE  BegunInv'
  <2>1. PICK e \in FirstOf(fetched, claimed) : Take(w, e)
    BY <1>3 DEF Pull
  <2>2. e \in waiting \cup pending /\ e \in Entry
    BY <1>0, <2>1 DEF FirstOf
  <2>3. UNCHANGED <<phase, ranges, tags>> /\ waiting' \cup pending' \subseteq waiting \cup pending
    BY <1>3 DEF Pull, Deliver, requestVars, results
  <2>4. \A f \in Entry : taken[f] \in Nat /\ taken'[f] = IF f = e THEN taken[f] + 1 ELSE taken[f]
    BY <1>0, <2>1 DEF Take
  <2>5. \A g \in held' : g \in held \/ (g.entry = e /\ g.ok /\ g.phase = "Pulled")
    BY <2>1 DEF Take
  <2>6. \A g \in held : g.entry \in Entry
    BY <1>0, HeldType
  <2>7. \A f \in Entry : taken'[f] > 0 => taken[f] > 0 \/ f = e
    BY <2>4
  <2>8. \A f \in Entry : /\ taken[f] > 0 => taken'[f] > 0
                         /\ taken[f] > 1 => taken'[f] > 1
    BY <2>4
  <2>9. taken'[e] > 0
    BY <2>2, <2>4
  <2>10. QED
    BY <2>2, <2>3, <2>5, <2>6, <2>7, <2>8, <2>9 DEF BegunInv
<1>4. ASSUME NEW h \in held, NEW q, NEW t, NEW k, NEW b, Becomes(h, q, t, k, b),
             q \in {"Pulled", "Tagging", "Tagged", "Scanning"} => b,
             q \in {"Requeued", "Resuming"} => h.phase \in {"Requeued", "Resuming"}
      PROVE  \A g \in held' : g \in held \/ \E j \in held : Carried(g, j)
  BY <1>4 DEF Becomes, Replace, Carried
<1>5. ASSUME NEW h \in held, Fetches(h) PROVE BegunInv'
  <2>1. UNCHANGED <<phase, ranges, taken, tags, waiting, pending>>
    BY <1>5, FetchMoves DEF requestVars, streamVars, results
  <2>2. PICK move \in Fetch : \E t : h.phase = move[1] /\ Becomes(h, move[2], t, h.n, h.ok)
    BY <1>5, FetchMoves
  <2>3. h.phase = "Pulled" => h.ok
    BY DEF BegunInv
  <2>4. \A g \in held' : g \in held \/ \E j \in held : Carried(g, j)
    BY <1>4, <2>2, <2>3 DEF Fetch
  <2>5. QED
    BY <2>1, <2>4, BegunFrame
<1>6. ASSUME NEW h \in held, Writes(h) PROVE BegunInv'
  <2>1. UNCHANGED <<phase, ranges, taken, waiting, pending>>
    BY <1>6, WritesMoves
  <2>2. \A u \in Uid : u[1] \notin ranges => tags'[u] = tags[u]
    <3>1. UidOf(h.entry)[1] \in ranges
      BY <1>0, HeldType DEF FailureInv
    <3>2. QED
      BY <1>6, <3>1, WritesMoves
  <2>3. \A g \in held' : g \in held \/ \E j \in held : Carried(g, j)
    <3>1. CASE TagPulled(h)
      <4>1. h.ok
        BY <3>1 DEF TagPulled, BegunInv
      <4>2. Becomes(h, "Tagged", NoTag, h.n, h.ok)
        BY <3>1, JobMoves
      <4>3. QED
        BY <1>4, <4>1, <4>2
    <3>2. CASE TagCleaned(h) \/ TagResumed(h)
      BY <3>2 DEF TagCleaned, TagResumed
    <3>3. QED
      BY <1>6, <3>1, <3>2 DEF Writes
  <2>4. QED
    BY <2>1, <2>2, <2>3, BegunFrame
<1>7. ASSUME NEW h \in held, AddFriend(h) \/ AddFriendFails(h) \/ Poll(h) \/ Ack(h)
      PROVE  BegunInv'
  <2>1. /\ UNCHANGED <<phase, ranges, taken, tags>>
        /\ waiting' \cup pending' \subseteq waiting \cup pending
    BY <1>7 DEF AddFriend, AddFriendFails, Poll, Ack, requestVars, streamVars, results, history
  <2>2. \A g \in held' : g \in held \/ \E j \in held : Carried(g, j)
    <3>1. CASE AddFriend(h)
      <4>1. h.ok
        BY <3>1 DEF AddFriend, BegunInv
      <4>2. Becomes(h, "Scanning", h.copy, h.n, h.ok)
        BY <3>1, JobMoves
      <4>3. QED
        BY <1>4, <4>1, <4>2
    <3>2. CASE AddFriendFails(h) \/ Poll(h) \/ Ack(h)
      <4>1. PICK q \in {"Polled", "Acked"} : \E t, k, b : Becomes(h, q, t, k, b)
        BY <3>2, JobMoves
      <4>2. QED
        BY <1>4, <4>1
    <3>3. QED
      BY <1>7, <3>1, <3>2
  <2>3. QED
    BY <2>1, <2>2, BegunFrame
<1>8. ASSUME NEW h \in held, NEW c \in Place, ResumeAdd(h, c) PROVE BegunInv'
  <2>1. PICK e : /\ waiting' = waiting \cup {e} /\ e.req = h.entry.req
                 /\ pending' \subseteq pending
    <3>1. [h.entry EXCEPT !.cursor = c, !.run = faults + 1].req = h.entry.req
      BY <1>0, HeldType DEF Entry
    <3>2. QED
      BY <1>8, <3>1 DEF ResumeAdd
  <2>2. UNCHANGED <<phase, ranges, tags>>
    BY <1>8 DEF ResumeAdd, requestVars, results
  <2>3. h.entry \in Entry /\ taken[h.entry] \in Nat /\ taken[h.entry] > 0
    BY <1>0, HeldType DEF BegunInv
  <2>4. \A f \in Entry : taken[f] \in Nat /\ taken'[f] = IF f = h.entry THEN taken[f] + 1 ELSE taken[f]
    BY <1>0, <1>8 DEF ResumeAdd
  <2>5. \A f \in Entry : taken'[f] > 0 => taken[f] > 0
    BY <2>3, <2>4
  <2>6. \A f \in Entry : /\ taken[f] > 0 => taken'[f] > 0
                         /\ taken[f] > 1 => taken'[f] > 1
    BY <2>4
  <2>7. taken'[h.entry] > 1
    BY <2>3, <2>4
  <2>8. \A g \in held' : g \in held \/ (g.entry = h.entry /\ g.phase = "Requeued")
    <3>1. Becomes(h, "Requeued", h.copy, h.n, h.ok)
      BY <1>8, JobMoves
    <3>2. QED
      BY <3>1 DEF Becomes, Replace
  <2>9. \A g \in held : g.entry \in Entry
    BY <1>0, HeldType
  <2>10. QED
    BY <2>1, <2>2, <2>3, <2>5, <2>6, <2>7, <2>8, <2>9 DEF BegunInv
<1>9. ASSUME NEW w \in Worker, Refresh(w) \/ Stop(w) PROVE BegunInv'
  <2>1. UNCHANGED <<phase, ranges, taken, waiting, pending, tags>>
    BY <1>9 DEF Refresh, Stop, requestVars, streamVars, results, history
  <2>2. \A g \in held' : g \in held \/ \E h \in held : /\ g.entry = h.entry
                                                       /\ \/ g.phase \in {"Ended", "Stopped"}
                                                          \/ g.ok /\ g.phase = "Scanning"
    BY <1>9, RefreshMoves, StopMoves
  <2>3. \A g \in held' : g \in held \/ \E h \in held : Carried(g, h)
    BY <2>2 DEF Carried
  <2>4. QED
    BY <2>1, <2>3, BegunFrame
<1>10. ASSUME ExpireKeys PROVE BegunInv'
  <2>1. UNCHANGED <<phase, ranges, taken, waiting, pending>>
    BY <1>10 DEF ExpireKeys, requestVars, streamVars
  <2>2. \A u \in Uid : tags'[u].status \in {tags[u].status, "None"}
    BY <1>0, <1>10 DEF ExpireKeys, NoTag
  <2>3. \A g \in held' : \E h \in held : g.phase = h.phase /\ g.entry = h.entry /\ g.ok = h.ok
    BY <1>10, ExpireMoves
  <2>4. QED
    BY <2>1, <2>2, <2>3 DEF BegunInv
<1>11. ASSUME \/ \E w \in Worker : Crash(w)
              \/ \E p \in ranges : ExpireStream(p)
              \/ AskTags \/ AskInfo \/ AskValues \/ UNCHANGED vars
       PROVE  BegunInv'
  <2>1. /\ UNCHANGED <<phase, ranges, taken, tags>> /\ held' \subseteq held
        /\ waiting' \cup pending' \subseteq waiting \cup pending
    BY <1>11 DEF Crash, ExpireStream, AskTags, AskInfo, AskValues, Reads, vars, requestVars, streamVars,
                results, history
  <2>2. QED
    BY <2>1, BegunFrame
<1>12. QED
  BY <1>1, <1>2, <1>3, <1>5, <1>6, <1>7, <1>8, <1>9, <1>10, <1>11, StepCases DEF Writes

----------------------------------------------------------------------------
(* Nothing is left undone *)

\* Somebody will still see to the job_uid, or its range is among the exceptions.
Excluded(p) == p \in dropped \cup overtaken
Left(u) ==
  \/ Excluded(u[1])
  \/ \E e \in waiting \cup pending : UidOf(e) = u
  \/ \E h \in held : UidOf(h.entry) = u

\* While a request is being written, the entries it wrote are there or were taken.
OwnEntryLeft(r, p) == taken[NewEntry(r, p)] = 0 => NewEntry(r, p) \in waiting \cup pending

LeftInv ==
  /\ \A u \in Uid : tags[u].status \in {"Queueing", "Pending"} => Left(u)
  /\ \A r \in Request : phase[r] = "none" => todo[r] = ranges
  /\ \A r \in Request : phase[r] = "writing" => \A p \in ranges \ todo[r] : OwnEntryLeft(r, p)

LEMMA LeftInit == Init => LeftInv
  BY ConstantsAssumption DEF Init, LeftInv, NoTag

\* A step after which every job_uid that somebody will see to still has somebody.
LEMMA LeftGrows ==
  ASSUME overtaken \subseteq overtaken', dropped \subseteq dropped',
         \A e \in waiting \cup pending :
           \/ e \in waiting' \cup pending' \/ e.part \in dropped'
           \/ \E g \in held' : UidOf(g.entry) = UidOf(e),
         \A h \in held : \/ \E g \in held' : g.entry = h.entry
                         \/ h.entry \in waiting' \cup pending' \/ h.entry.part \in dropped'
  PROVE  \A u : Left(u) => Left(u)'
<1>1. \A e : UidOf(e)[1] = e.part
  BY DEF UidOf
<1>2. QED
  BY <1>1 DEF Left, Excluded

\* A step that keeps the requests, and sets no tag but those of held jobs.
LEMMA LeftFrame ==
  ASSUME LeftInv, UNCHANGED <<ranges, phase, todo>>,
         \A u \in Uid : tags'[u].status \in {"Queueing", "Pending"} =>
           tags[u].status = tags'[u].status \/ Left(u)',
         \A u : Left(u) => Left(u)',
         \A r \in Request : \A p \in ranges \ todo[r] :
           phase[r] = "writing" /\ OwnEntryLeft(r, p) => OwnEntryLeft(r, p)'
  PROVE  LeftInv'
<1>1. ASSUME NEW u \in Uid, tags'[u].status \in {"Queueing", "Pending"} PROVE Left(u)'
  BY <1>1 DEF LeftInv
<1>2. QED
  BY <1>1 DEF LeftInv

\* No entry of a request that is being written is lost but by a job that took it.
LEMMA OwnEntryFrame ==
  ASSUME TypeOK, BegunInv, NEW h \in held,
         waiting \subseteq waiting', pending \ {h.entry} \subseteq pending',
         \A e \in Entry : taken'[e] = 0 => taken[e] = 0
  PROVE  \A r \in Request : \A p \in ranges : OwnEntryLeft(r, p) => OwnEntryLeft(r, p)'
<1>1. ASSUME NEW r \in Request, NEW p \in ranges, OwnEntryLeft(r, p), taken'[NewEntry(r, p)] = 0
      PROVE  NewEntry(r, p) \in waiting' \cup pending'
  <2>1. NewEntry(r, p) \in Entry
    <3>1. ranges \subseteq Range
      BY ConstantsAssumption DEF TypeOK
    <3>2. QED
      BY <3>1, NewEntryType
  <2>2. taken[NewEntry(r, p)] = 0 /\ NewEntry(r, p) \in waiting \cup pending
    BY <1>1, <2>1 DEF OwnEntryLeft
  <2>3. h.entry # NewEntry(r, p)
    BY <2>2 DEF BegunInv
  <2>4. QED
    BY <2>2, <2>3
<1>2. QED
  BY <1>1 DEF OwnEntryLeft, NewEntry

LEMMA LeftNext == TypeOK /\ BegunInv /\ LeftInv /\ [Next]_vars => LeftInv'
<1> SUFFICES ASSUME TypeOK, BegunInv, LeftInv, [Next]_vars PROVE LeftInv'
  OBVIOUS
<1>0. /\ held \subseteq HeldJob /\ tags \in [Uid -> Tag] /\ ranges \subseteq Range
      /\ todo \in [Request -> SUBSET Range]
      /\ phase \in [Request -> {"none", "writing", "done", "failed"}]
      /\ taken \in [Entry -> Nat]
  BY ConstantsAssumption DEF TypeOK
<1>a. \A r, p : NewEntry(r, p)' = NewEntry(r, p)
  BY DEF NewEntry
\* A step that leaves requests, tags and entries alone, and the entry of every job.
<1>b. ASSUME UNCHANGED <<ranges, phase, todo, tags, waiting, pending, taken, overtaken, dropped>>,
             \A h \in held : \E g \in held' : g.entry = h.entry
      PROVE  LeftInv'
  <2>1. \A u : Left(u) => Left(u)'
    BY <1>b, LeftGrows
  <2>2. QED
    BY <1>a, <1>b, <2>1, LeftFrame DEF OwnEntryLeft
<1>1. ASSUME NEW r \in Request, Begin(r) \/ RequestFails(r) PROVE LeftInv'
  <2>1. /\ UNCHANGED <<ranges, todo, tags, waiting, pending, taken, overtaken, dropped, held>>
        /\ phase' \in {[phase EXCEPT ![r] = "writing"], [phase EXCEPT ![r] = "failed"]}
        /\ phase[r] = "none" \/ phase'[r] = "failed"
    BY <1>0, <1>1 DEF Begin, RequestFails, streamVars, results, history, marks
  <2>2. \A u : Left(u) => Left(u)'
    BY <2>1, LeftGrows
  <2>3. QED
    BY <1>0, <1>a, <2>1, <2>2 DEF LeftInv, OwnEntryLeft
<1>2. ASSUME NEW r \in Request, WriteTags(r) PROVE LeftInv'
  <2>1. /\ UNCHANGED <<ranges, todo, waiting, pending, taken, dropped, held>>
        /\ phase' = [phase EXCEPT ![r] = "done"] /\ phase[r] = "writing" /\ todo[r] = {}
        /\ overtaken' = overtaken \cup {p \in ranges : Overtaken(r, p)}
    BY <1>2 DEF WriteTags, streamVars
  <2>2. \A u : Left(u) => Left(u)'
    BY <2>1, LeftGrows
  <2>3. ASSUME NEW p \in ranges PROVE Left(<<p, 1>>)'
    <3>1. OwnEntryLeft(r, p)
      BY <2>1 DEF LeftInv
    <3>2. NewEntry(r, p) \in Entry /\ UidOf(NewEntry(r, p)) = <<p, 1>> /\ <<p, 1>>[1] = p
      BY <1>0, NewEntryType
    <3>3. taken[NewEntry(r, p)] \in Nat
      BY <1>0, <3>2
    <3>4. CASE taken[NewEntry(r, p)] = 0
      BY <2>2, <3>1, <3>2, <3>4 DEF OwnEntryLeft, Left
    <3>5. CASE Overtaken(r, p)
      BY <2>1, <3>2, <3>5 DEF Left, Excluded
    <3>6. CASE taken[NewEntry(r, p)] > 0 /\ ~Overtaken(r, p)
      <4>1. Left(<<p, 1>>)
        BY <3>6 DEF Overtaken, Left
      <4>2. QED
        BY <2>2, <4>1
    <3>7. QED
      BY <3>3, <3>4, <3>5, <3>6
  <2>4. \A u \in Uid : tags'[u] = tags[u] \/ \E p \in ranges : u = <<p, 1>>
    BY <1>2 DEF WriteTags, BatchWrite
  <2>5. \A u \in Uid : tags'[u].status \in {"Queueing", "Pending"} => Left(u)'
    BY <2>2, <2>3, <2>4 DEF LeftInv
  <2>6. QED
    BY <1>0, <1>a, <2>1, <2>5 DEF LeftInv, OwnEntryLeft
<1>3. ASSUME NEW r \in Request, NEW p \in ranges, WriteEntry(r, p) PROVE LeftInv'
  <2>1. /\ UNCHANGED <<ranges, phase, tags, pending, taken, overtaken, dropped, held>>
        /\ todo' = [todo EXCEPT ![r] = @ \ {p}] /\ phase[r] = "writing"
        /\ waiting' = waiting \cup {NewEntry(r, p)}
    BY <1>3 DEF WriteEntry, results, history, marks
  <2>2. \A u : Left(u) => Left(u)'
    BY <2>1, LeftGrows
  <2>3. \A u \in Uid : tags'[u].status \in {"Queueing", "Pending"} => Left(u)'
    BY <2>1, <2>2 DEF LeftInv
  <2>4. \A q \in Request : phase'[q] = "none" => todo'[q] = ranges'
    BY <1>0, <2>1 DEF LeftInv
  <2>5. ASSUME NEW q \in Request, phase'[q] = "writing", NEW s \in ranges' \ todo'[q]
        PROVE  OwnEntryLeft(q, s)'
    <3>1. s \in ranges \ todo[q] \/ (q = r /\ s = p)
      BY <1>0, <2>1, <2>5
    <3>2. QED
      BY <1>a, <2>1, <2>5, <3>1 DEF LeftInv, OwnEntryLeft
  <2>6. QED
    BY <2>3, <2>4, <2>5 DEF LeftInv
<1>4. ASSUME NEW w \in Worker, NEW u \in ranges \X Place,
             NEW fetched \in SUBSET waiting, NEW claimed \in SUBSET pending,
             Pull(w, u, fetched, claimed)
      PROVE  LeftInv'
  <2>1. PICK e : Take(w, e)
    BY <1>4 DEF Pull
  <2>2. held \subseteq held' /\ taken' = [taken EXCEPT ![e] = @ + 1]
    BY <2>1 DEF Take
  <2>3. UNCHANGED <<ranges, phase, todo, tags, overtaken, dropped>>
    BY <1>4 DEF Pull, requestVars, results
  <2>4. waiting \cup pending \subseteq waiting' \cup pending'
    BY <1>4 DEF Pull, Deliver
  <2>5. \A v : Left(v) => Left(v)'
    BY <2>2, <2>3, <2>4, LeftGrows
  <2>6. \A f \in Entry : taken'[f] = 0 => taken[f] = 0
    <3>1. \A f \in Entry : taken[f] \in Nat
      BY <1>0
    <3>2. QED
      BY <1>0, <2>2, <3>1
  <2>7. \A r \in Request, p \in ranges : NewEntry(r, p) \in Entry
    BY <1>0, NewEntryType
  <2>8. \A r \in Request : \A p \in ranges : OwnEntryLeft(r, p) => OwnEntryLeft(r, p)'
    BY <1>a, <2>4, <2>6, <2>7 DEF OwnEntryLeft
  <2>9. QED
    BY <2>3, <2>5, <2>8, LeftFrame
<1>5. ASSUME NEW h \in held, NEW q, NEW t, NEW k, NEW b, Becomes(h, q, t, k, b)
      PROVE  \A j \in held : \E g \in held' : g.entry = j.entry
  BY <1>5 DEF Becomes, Replace
<1>6. ASSUME NEW h \in held, Fetches(h) \/ AddFriend(h) \/ AddFriendFails(h) \/ Poll(h)
      PROVE  LeftInv'
  <2>1. UNCHANGED <<ranges, phase, todo, tags, waiting, pending, taken, overtaken, dropped>>
    <3>1. CASE Fetches(h)
      BY <3>1, FetchMoves DEF requestVars, streamVars, results
    <3>2. CASE AddFriend(h) \/ AddFriendFails(h) \/ Poll(h)
      BY <3>2 DEF AddFriend, AddFriendFails, Poll, requestVars, streamVars, results, history, marks
    <3>3. QED
      BY <1>6, <3>1, <3>2
  <2>2. \E q, t, k, b : Becomes(h, q, t, k, b)
    BY <1>6, JobMoves, FetchMoves
  <2>3. QED
    BY <1>b, <1>5, <2>1, <2>2
<1>7. ASSUME NEW h \in held, TagPulled(h) PROVE LeftInv'
  <2>1. UNCHANGED <<ranges, phase, todo, waiting, pending, taken, overtaken, dropped>>
    BY <1>7 DEF TagPulled, requestVars, streamVars, history, marks
  <2>2. \A j \in held : \E g \in held' : g.entry = j.entry
    <3>1. Becomes(h, "Tagged", NoTag, h.n, h.ok)
      BY <1>7, JobMoves
    <3>2. QED
      BY <1>5, <3>1
  <2>3. \A u : Left(u) => Left(u)'
    BY <2>1, <2>2, LeftGrows
  <2>4. \A u \in Uid : u # UidOf(h.entry) => tags'[u] = tags[u]
    BY <1>0, <1>7 DEF TagPulled, SetTag
  <2>5. Left(UidOf(h.entry))
    BY DEF Left
  <2>6. QED
    BY <1>a, <2>1, <2>3, <2>4, <2>5, LeftFrame DEF OwnEntryLeft
<1>8. ASSUME NEW h \in held, TagCleaned(h) \/ TagResumed(h) PROVE LeftInv'
  <2> DEFINE own == UidOf(h.entry)
  <2>1. /\ UNCHANGED <<ranges, phase, todo, waiting, pending, taken, overtaken>>
        /\ dropped \subseteq dropped' /\ held' = held \ {h}
    BY <1>8 DEF TagCleaned, TagResumed, requestVars, streamVars
  <2>2. h.copy \in Tag /\ h.ok \in BOOLEAN /\ own \in Uid /\ own[1] = h.entry.part
    BY <1>0, HeldType
  <2>3. \A u \in Uid : u # own => tags'[u] = tags[u]
    BY <1>0, <1>8 DEF TagCleaned, TagResumed, SetTag
  <2>4. tags'[own].status \in {"Success", "Failed"} \/ h.entry.part \in dropped'
    <3>1. CASE TagCleaned(h)
      <4>1. tags'[own] = CleanedTag(h.ok, h.copy)
        BY <1>0, <2>2, <3>1 DEF TagCleaned, SetTag
      <4>2. QED
        BY <2>2, <4>1, WrittenTags
    <3>2. CASE TagResumed(h)
      <4>1. tags'[own] = ResumedTag(h.copy) /\ (h.copy = NoTag => h.entry.part \in dropped')
        BY <1>0, <2>2, <3>2 DEF TagResumed, SetTag
      <4>2. QED
        BY <2>2, <4>1, WrittenTags
    <3>3. QED
      BY <1>8, <3>1, <3>2
  <2>5. \A u : u # own /\ Left(u) => Left(u)'
    BY <2>1 DEF Left, Excluded
  <2>6. \A u \in Uid : tags'[u].status \in {"Queueing", "Pending"} => Left(u)'
    BY <2>2, <2>3, <2>4, <2>5 DEF LeftInv, Left, Excluded
  <2>7. QED
    BY <1>a, <2>1, <2>6 DEF LeftInv, OwnEntryLeft
<1>9. ASSUME NEW h \in held, Ack(h) \/ \E c \in Place : ResumeAdd(h, c) PROVE LeftInv'
  <2>1. /\ UNCHANGED <<ranges, phase, todo, tags, overtaken, dropped>>
        /\ waiting \subseteq waiting' /\ pending' = pending \ {h.entry}
        /\ taken' = taken \/ taken' = [taken EXCEPT ![h.entry] = @ + 1]
    BY <1>9 DEF Ack, ResumeAdd, requestVars, results, history, marks
  <2>2. \A j \in held : \E g \in held' : g.entry = j.entry
    BY <1>5, <1>9, JobMoves
  <2>3. \A u : Left(u) => Left(u)'
    <3>1. PICK g \in held' : g.entry = h.entry
      BY <2>2
    <3>2. \A e \in waiting \cup pending : e \in waiting' \cup pending' \/ UidOf(g.entry) = UidOf(e)
      BY <2>1, <3>1
    <3>3. QED
      BY <2>1, <2>2, <3>2, LeftGrows
  <2>4. \A f \in Entry : taken'[f] = 0 => taken[f] = 0
    <3>1. \A f \in Entry : taken[f] \in Nat
      BY <1>0
    <3>2. QED
      BY <1>0, <2>1, <3>1
  <2>5. \A r \in Request : \A p \in ranges : OwnEntryLeft(r, p) => OwnEntryLeft(r, p)'
    BY <2>1, <2>4, OwnEntryFrame
  <2>6. QED
    BY <2>1, <2>3, <2>5, LeftFrame
<1>10. ASSUME NEW w \in Worker, Refresh(w) PROVE LeftInv'
  <2>1. UNCHANGED <<ranges, phase, todo, tags, waiting, pending, taken, overtaken, dropped>>
    BY <1>10 DEF Refresh, requestVars, streamVars, history, marks
  <2>2. ASSUME NEW h \in held PROVE \E g \in held' : g.entry = h.entry
    <3>1. PICK g : g = [h EXCEPT !.phase = IF h.ok /\ ~Complete(h) THEN "Scanning" ELSE "Ended"]
      OBVIOUS
    <3>2. g.entry = h.entry
      BY <1>0, <3>1 DEF HeldJob
    <3>3. h \in held' \/ g \in held'
      BY <1>10, <3>1 DEF Refresh
    <3>4. QED
      BY <3>2, <3>3
  <2>3. QED
    BY <1>b, <2>1, <2>2
<1>11. ASSUME NEW w \in Worker, Crash(w) PROVE LeftInv'
  <2>1. /\ UNCHANGED <<ranges, phase, todo, tags, waiting, pending, taken, overtaken>>
        /\ dropped \subseteq dropped'
    BY <1>11 DEF Crash, requestVars, streamVars, results
  <2>2. \A h \in held : h \in held' \/ h.entry \in pending \/ h.entry.part \in dropped'
    BY <1>11 DEF Crash
  <2>3. \A u : Left(u) => Left(u)'
    BY <2>1, <2>2, LeftGrows
  <2>4. QED
    BY <1>a, <2>1, <2>3, LeftFrame DEF OwnEntryLeft
<1>12. ASSUME ExpireKeys PROVE LeftInv'
  <2>1. UNCHANGED <<ranges, phase, todo, waiting, pending, taken, overtaken, dropped>>
    BY <1>12 DEF ExpireKeys, requestVars, streamVars
  <2>2. ASSUME NEW h \in held PROVE \E g \in held' : g.entry = h.entry
    <3>1. PICK g : g = [h EXCEPT !.fresh = FALSE]
      OBVIOUS
    <3>2. g.entry = h.entry
      BY <1>0, <3>1 DEF HeldJob
    <3>3. QED
      BY <1>12, <3>1, <3>2 DEF ExpireKeys
  <2>3. \A u : Left(u) => Left(u)'
    BY <2>1, <2>2, LeftGrows
  <2>4. \A u \in Uid : tags'[u] = tags[u] \/ tags'[u].status = "None"
    BY <1>0, <1>12 DEF ExpireKeys, NoTag
  <2>5. QED
    BY <1>a, <2>1, <2>3, <2>4, LeftFrame DEF OwnEntryLeft
<1>13. ASSUME NEW p \in ranges, ExpireStream(p) PROVE LeftInv'
  <2>1. UNCHANGED <<ranges, phase, todo, tags, overtaken, held>> /\ dropped \subseteq dropped'
    BY <1>13 DEF ExpireStream, requestVars, results
  <2>2. ASSUME NEW e \in waiting \cup pending
        PROVE  \/ e \in waiting' \cup pending' \/ e.part \in dropped'
               \/ \E g \in held : g.entry = e
    BY <1>13 DEF ExpireStream, IsHeld
  <2>3. \A u : Left(u) => Left(u)'
    BY <2>1, <2>2, LeftGrows
  <2>4. \A r \in Request : phase[r] # "writing"
    BY <1>13 DEF ExpireStream
  <2>5. QED
    BY <2>1, <2>3, <2>4, LeftFrame
<1>14. ASSUME AskTags \/ AskInfo \/ AskValues \/ UNCHANGED vars PROVE LeftInv'
  BY <1>b, <1>14 DEF AskTags, AskInfo, AskValues, Reads, vars, requestVars, streamVars, results, history,
                     marks
<1>15. ASSUME NEW w \in Worker, Stop(w) PROVE LeftInv'
  BY <1>b, <1>15, StopMoves DEF requestVars, streamVars, results, marks
<1>16. QED
  BY <1>1, <1>2, <1>3, <1>4, <1>6, <1>7, <1>8, <1>9, <1>10, <1>11, <1>12, <1>13, <1>14, <1>15, StepCases

\* A job whose tag says that it is queued or running has somebody to see to it: with
\* nothing left to do, no tag says so but those of ranges that were tagged after a worker
\* was done with them, or whose job left no entry.
THEOREM QuietIsAnswered == Spec => []QuietMeansAnswered
<1>1. LeftInv => QuietMeansAnswered
  BY DEF LeftInv, Left, Excluded, QuietMeansAnswered
<1>2. QED
  BY <1>1, TypeInit, FailureInit, BegunInit, LeftInit, TypeNext, FailureNext, BegunNext, LeftNext, PTL
     DEF Spec

----------------------------------------------------------------------------
(* A Finished verdict is final *)

Single == ~Repeated /\ ~expired

Taken(p) == \E e \in Entry : e.part = p /\ taken[e] > 0

\* As long as nothing was repeated: one job per range, each song it polled listed
\* once; a range no worker took has no score, and one tagged Success has each
\* score once and nobody who could add another.  Every entry is one that a request
\* wrote: none was re-enqueued.
SingleInv ==
  /\ \A e \in waiting \cup pending : e = NewEntry(e.req, e.part)
  /\ \A e \in Entry : taken[e] > 0 => e = NewEntry(e.req, e.part)
  /\ \A g, h \in held : g.entry.part = h.entry.part => g = h
  /\ \A h \in held : h.ok => \A n \in 1 .. Songs[h.entry.part] :
                               values[<<h.entry.part, n>>] = IF n <= h.n THEN 1 ELSE 0
  /\ \A p \in Range : ~Taken(p) => \A n \in 1 .. Songs[p] : values[<<p, n>>] = 0
  /\ \A u \in Uid : tags[u].status = "Success" =>
                      /\ Taken(u[1])
                      /\ \A h \in held : h.entry.part # u[1]
                      /\ \A n \in 1 .. Songs[u[1]] : values[<<u[1], n>>] = 1

LEMMA SingleInit == Init => SingleInv
<1> SUFFICES ASSUME Init PROVE SingleInv
  OBVIOUS
<1>1. \A p \in Range : \A n \in 1 .. Songs[p] : values[<<p, n>>] = 0
  BY SongType DEF Init
<1>2. QED
  BY <1>1 DEF Init, SingleInv, NoTag

\* Once repeated or expired, always so.
LEMMA RepeatedStays == TypeOK /\ [Next]_vars => (Repeated => Repeated') /\ (expired => expired')
<1> DEFINE Stays == /\ \A r \in Request : phase[r] # "none" => phase'[r] # "none"
                    /\ \A e \in Entry : taken[e] > 1 => taken'[e] > 1
                    /\ expired => expired'
<1> SUFFICES ASSUME TypeOK, [Next]_vars PROVE Stays
  BY DEF Repeated
<1>0. /\ held \subseteq HeldJob /\ taken \in [Entry -> Nat]
      /\ phase \in [Request -> {"none", "writing", "done", "failed"}]
  BY DEF TypeOK
<1>1. ASSUME NEW r \in Request, Begin(r) \/ WriteTags(r) \/ RequestFails(r)
      PROVE  Stays
  BY <1>0, <1>1 DEF Begin, WriteTags, RequestFails, history, marks
<1>2. ASSUME NEW w \in Worker, NEW u \in ranges \X Place,
             NEW fetched \in SUBSET waiting, NEW claimed \in SUBSET pending,
             Pull(w, u, fetched, claimed)
      PROVE  Stays
  <2>1. PICK e : Take(w, e)
    BY <1>2 DEF Pull
  <2>2. \A f \in Entry : taken'[f] = IF f = e THEN taken[f] + 1 ELSE taken[f]
    BY <1>0, <2>1 DEF Take
  <2>3. \A f \in Entry : taken[f] \in Nat
    BY <1>0
  <2>4. QED
    BY <1>2, <2>2, <2>3 DEF Pull, requestVars
<1>3. ASSUME \/ \E r \in Request, p \in ranges : WriteEntry(r, p)
             \/ \E h \in held : TagPulled(h) \/ TagCleaned(h) \/ TagResumed(h)
             \/ \E h \in held : AddFriend(h) \/ AddFriendFails(h) \/ Poll(h) \/ Ack(h)
             \/ \E w \in Worker : Refresh(w) \/ Crash(w) \/ Stop(w)
             \/ \E p \in ranges : ExpireStream(p)
             \/ AskTags \/ AskInfo \/ AskValues
             \/ UNCHANGED vars
      PROVE  Stays
  <2>1. UNCHANGED <<phase, taken, expired>>
    BY <1>3 DEF WriteEntry, TagPulled, TagCleaned, TagResumed, AddFriend, AddFriendFails, Poll, Ack,
                Refresh, Crash, Stop, ExpireStream, AskTags, AskInfo, AskValues, Reads,
                vars, requestVars, history, marks
  <2>2. QED
    BY <2>1
<1>4. ASSUME ExpireKeys PROVE Stays
  BY <1>4 DEF ExpireKeys, requestVars
<1>5. ASSUME NEW h \in held, Fetches(h) PROVE Stays
  BY <1>5, FetchMoves DEF requestVars
<1>6. ASSUME NEW h \in held, NEW c \in Place, ResumeAdd(h, c) PROVE Stays
  <2>1. UNCHANGED <<phase, expired>> /\ taken' = [taken EXCEPT ![h.entry] = @ + 1]
    BY <1>6 DEF ResumeAdd, requestVars, marks
  <2>2. \A f \in Entry : taken[f] \in Nat
    BY <1>0
  <2>3. QED
    BY <1>0, <2>1, <2>2
<1> HIDE DEF Stays
<1>7. QED
  BY <1>1, <1>2, <1>3, <1>4, <1>5, <1>6, StepCases

LEMMA OneEntry ==
  ASSUME ~Repeated, NEW e \in Entry, NEW f \in Entry,
         e = NewEntry(e.req, e.part), f = NewEntry(f.req, f.part),
         phase[e.req] # "none", phase[f.req] # "none", e.part = f.part
  PROVE  e = f
<1>1. e.req = f.req
  BY EntryType DEF Repeated
<1>2. QED
  BY <1>1

\* A step that adds no score, takes no entry and tags nothing Success.
LEMMA SingleFrame ==
  ASSUME SingleInv, UNCHANGED <<values, taken>>,
         \A e \in waiting' \cup pending' : e \in waiting \cup pending \/ e = NewEntry(e.req, e.part),
         \A u \in Uid : tags'[u].status = "Success" => tags[u].status = "Success",
         \A g, h \in held' : g.entry.part = h.entry.part => g = h,
         \A g \in held' : \E h \in held : g.entry = h.entry /\ g.n = h.n /\ (g.ok => h.ok)
  PROVE  SingleInv'
<1>1. \A p : Taken(p)' <=> Taken(p)
  BY DEF Taken
<1>2. ASSUME NEW g \in held', g.ok, NEW n \in 1 .. Songs[g.entry.part]
      PROVE  values'[<<g.entry.part, n>>] = IF n <= g.n THEN 1 ELSE 0
  <2>1. PICK h \in held : g.entry = h.entry /\ g.n = h.n /\ h.ok
    BY <1>2
  <2>2. QED
    BY <1>2, <2>1 DEF SingleInv
<1>3. QED
  BY <1>1, <1>2 DEF SingleInv, NewEntry

LEMMA SingleBecomes ==
  ASSUME SingleInv, NEW h \in held, NEW q, NEW t, NEW b, Becomes(h, q, t, h.n, b), b => h.ok
  PROVE  /\ \A g, k \in held' : g.entry.part = k.entry.part => g = k
         /\ \A g \in held' : \E k \in held : g.entry = k.entry /\ g.n = k.n /\ (g.ok => k.ok)
  BY DEF SingleInv, Becomes, Replace

LEMMA SingleNext ==
  TypeOK /\ TypeOK' /\ FailureInv /\ AnswerInv /\ BegunInv /\ SingleInv /\ Single' /\ [Next]_vars
    => SingleInv'
<1> SUFFICES ASSUME TypeOK, TypeOK', FailureInv, AnswerInv, BegunInv, SingleInv, Single', [Next]_vars
             PROVE  SingleInv'
  OBVIOUS
<1>0. /\ held \subseteq HeldJob /\ taken \in [Entry -> Nat] /\ tags \in [Uid -> Tag]
      /\ waiting \subseteq Entry /\ pending \subseteq Entry /\ values \in [Song -> Nat]
  BY DEF TypeOK
<1>a. ~Repeated /\ ~expired
  BY RepeatedStays DEF Single
<1>b. ASSUME UNCHANGED <<values, taken, tags>>, held' \subseteq held,
             \A e \in waiting' \cup pending' : e \in waiting \cup pending \/ e = NewEntry(e.req, e.part)
      PROVE  SingleInv'
  <2>1. \A g, h \in held' : g.entry.part = h.entry.part => g = h
    BY <1>b DEF SingleInv
  <2>2. QED
    BY <1>b, <2>1, SingleFrame
<1>1. ASSUME \/ \E r \in Request : Begin(r) \/ RequestFails(r)
             \/ \E r \in Request, p \in ranges : WriteEntry(r, p)
             \/ \E w \in Worker : Crash(w)
             \/ \E p \in ranges : ExpireStream(p)
             \/ AskTags \/ AskInfo \/ AskValues \/ UNCHANGED vars
      PROVE  SingleInv'
  <2>1. UNCHANGED <<values, taken, tags>> /\ held' \subseteq held
    BY <1>1 DEF Begin, RequestFails, WriteEntry, Crash, ExpireStream, AskTags, AskInfo, AskValues,
                Reads, vars, results, history, marks
  <2>2. \A e \in waiting' \cup pending' : e \in waiting \cup pending \/ e = NewEntry(e.req, e.part)
    BY <1>1 DEF Begin, RequestFails, WriteEntry, Crash, ExpireStream, AskTags, AskInfo, AskValues,
                Reads, vars, streamVars, NewEntry
  <2>3. QED
    BY <1>b, <2>1, <2>2
<1>2. ASSUME NEW r \in Request, WriteTags(r) PROVE SingleInv'
  <2>1. UNCHANGED <<values, taken, held, waiting, pending>>
    BY <1>2 DEF WriteTags, streamVars
  <2>2. \A u \in Uid : tags'[u].status = "Success" => tags[u].status = "Success"
    BY <1>2 DEF WriteTags, BatchWrite
  <2>3. \A g, h \in held' : g.entry.part = h.entry.part => g = h
    BY <2>1 DEF SingleInv
  <2>4. QED
    BY <2>1, <2>2, <2>3, SingleFrame
<1>3. ASSUME NEW w \in Worker, NEW u \in ranges \X Place,
             NEW fetched \in SUBSET waiting, NEW claimed \in SUBSET pending,
             Pull(w, u, fetched, claimed)
      PROVE  SingleInv'
  <2>1. PICK e \in FirstOf(fetched, claimed) : Take(w, e)
    BY <1>3 DEF Pull
  <2>2. e \in Entry /\ phase[e.req] # "none" /\ e = NewEntry(e.req, e.part)
    BY <1>0, <2>1 DEF FirstOf, BegunInv, SingleInv
  <2>3. \A f \in Entry : taken'[f] = IF f = e THEN taken[f] + 1 ELSE taken[f]
    BY <1>0, <2>1 DEF Take
  <2>4. taken[e] = 0
    <3>1. taken[e] \in Nat /\ taken'[e] = taken[e] + 1 /\ ~(taken'[e] > 1)
      BY <1>0, <2>2, <2>3 DEF Single, Repeated
    <3>2. QED
      BY <3>1
  <2>5. ~Taken(e.part)
    <3>1. ASSUME NEW f \in Entry, f.part = e.part, taken[f] > 0 PROVE FALSE
      <4>1. phase[f.req] # "none" /\ f = NewEntry(f.req, f.part)
        BY <3>1 DEF BegunInv, SingleInv
      <4>2. f = e
        BY <1>a, <2>2, <3>1, <4>1, OneEntry
      <4>3. QED
        BY <2>4, <3>1, <4>2
    <3>2. QED
      BY <3>1 DEF Taken
  <2>6. \A h \in held : h.entry.part # e.part
    <3>1. \A h \in held : h.entry \in Entry /\ taken[h.entry] > 0
      BY <1>0, HeldType DEF BegunInv
    <3>2. QED
      BY <2>5, <3>1 DEF Taken
  <2>7. PICK j : j.entry = e /\ j.n = 0 /\ held' = held \cup {j}
    BY <2>1 DEF Take
  <2>8. UNCHANGED <<values, tags>> /\ waiting' \cup pending' \subseteq waiting \cup pending
    BY <1>3 DEF Pull, Deliver, results
  <2>9. /\ e.part \in Range /\ \A v \in Uid : v[1] = e.part => tags[v].status # "Success"
        /\ \A n \in 1 .. Songs[e.part] : values[<<e.part, n>>] = 0
    BY <2>2, <2>5, EntryType DEF SingleInv
  <2>10. \A q : Taken(q) => Taken(q)'
    <3>1. \A f \in Entry : taken[f] \in Nat
      BY <1>0
    <3>2. QED
      BY <2>3, <3>1 DEF Taken
  <2>11. \A g, h \in held' : g.entry.part = h.entry.part => g = h
    BY <2>6, <2>7 DEF SingleInv
  <2>12. \A g \in held' : g.ok => \A n \in 1 .. Songs[g.entry.part] :
                                   values'[<<g.entry.part, n>>] = IF n <= g.n THEN 1 ELSE 0
    <3>1. \A n \in 1 .. Songs[e.part] : ~(n <= 0)
      BY <2>9, ConstantsAssumption
    <3>2. QED
      BY <2>7, <2>8, <2>9, <3>1 DEF SingleInv
  <2>13. \A v \in Uid : tags'[v].status = "Success" =>
           /\ Taken(v[1])'
           /\ \A g \in held' : g.entry.part # v[1]
           /\ \A n \in 1 .. Songs[v[1]] : values'[<<v[1], n>>] = 1
    BY <2>7, <2>8, <2>9, <2>10 DEF SingleInv
  <2>14. \A q \in Range : ~Taken(q)' => \A n \in 1 .. Songs[q] : values'[<<q, n>>] = 0
    BY <2>8, <2>10 DEF SingleInv
  <2>15. /\ \A f \in waiting' \cup pending' : f = NewEntry(f.req, f.part)
         /\ \A f \in Entry : taken'[f] > 0 => f = NewEntry(f.req, f.part)
    BY <2>2, <2>3, <2>8 DEF SingleInv
  <2>16. QED
    BY <2>11, <2>12, <2>13, <2>14, <2>15 DEF SingleInv, NewEntry
<1>4. ASSUME NEW h \in held,
             Fetches(h) \/ TagPulled(h) \/ AddFriend(h) \/ AddFriendFails(h) \/ Ack(h)
      PROVE  SingleInv'
  <2>1. UNCHANGED <<values, taken>> /\ waiting' \cup pending' \subseteq waiting \cup pending
    <3>1. CASE Fetches(h)
      BY <3>1, FetchMoves DEF results, streamVars
    <3>2. CASE TagPulled(h) \/ AddFriend(h) \/ AddFriendFails(h) \/ Ack(h)
      BY <3>2 DEF TagPulled, AddFriend, AddFriendFails, Ack, results, streamVars, history
    <3>3. QED
      BY <1>4, <3>1, <3>2
  <2>2. \A u \in Uid : tags'[u].status = "Success" => tags[u].status = "Success"
    <3>1. CASE TagPulled(h)
      <4>1. h.copy \in Tag /\ h.ok \in BOOLEAN
        BY <1>0, HeldType
      <4>2. \A u \in Uid : tags'[u] = tags[u] \/ tags'[u] = PulledTag(h.copy)
        BY <1>0, <3>1 DEF TagPulled, SetTag
      <4>3. PulledTag(h.copy).status # "Success"
        BY <4>1, WrittenTags
      <4>4. QED
        BY <4>2, <4>3
    <3>2. CASE Fetches(h)
      BY <3>2, FetchMoves DEF results
    <3>3. CASE AddFriend(h) \/ AddFriendFails(h) \/ Ack(h)
      BY <3>3 DEF AddFriend, AddFriendFails, Ack, results
    <3>4. QED
      BY <1>4, <3>1, <3>2, <3>3
  <2>3. /\ \A g, k \in held' : g.entry.part = k.entry.part => g = k
        /\ \A g \in held' : \E k \in held : g.entry = k.entry /\ g.n = k.n /\ (g.ok => k.ok)
    <3>1. CASE AddFriendFails(h)
      <4>1. Becomes(h, "Polled", h.copy, h.n, FALSE)
        BY <3>1, JobMoves
      <4>2. QED
        BY <4>1, SingleBecomes
    <3>2. CASE Fetches(h) \/ TagPulled(h) \/ AddFriend(h) \/ Ack(h)
      <4>1. PICK q, t : Becomes(h, q, t, h.n, h.ok)
        BY <3>2, JobMoves, FetchMoves
      <4>2. QED
        BY <4>1, SingleBecomes
    <3>3. QED
      BY <1>4, <3>1, <3>2
  <2>4. QED
    BY <2>1, <2>2, <2>3, SingleFrame
<1>5. ASSUME NEW h \in held, Poll(h) PROVE SingleInv'
  <2> DEFINE own == h.entry.part
  <2>1. UNCHANGED <<tags, taken, waiting, pending>>
    BY <1>5 DEF Poll, history, streamVars
  <2>2. /\ h \in HeldJob /\ JobInv(h) /\ h.phase = "Scanning" /\ h.ok /\ h.fresh
        /\ h.n \in Nat /\ own \in Range /\ Songs[own] \in Nat
    BY <1>0, <1>a, <1>5, HeldType, ConstantsAssumption DEF AnswerInv, JobInv, BegunInv, Poll
  <2>3. PICK g : /\ g.entry = h.entry /\ g.n = h.n + 1 /\ g.ok = h.ok
                 /\ held' = (held \ {h}) \cup {g}
    BY <1>5, JobMoves DEF Becomes, Replace
  <2>4. ASSUME NEW p \in Range, p # own, NEW n \in 1 .. Songs[p]
        PROVE  values'[<<p, n>>] = values[<<p, n>>]
    <3>1. <<p, n>> # SongAt(h)
      BY <2>4 DEF SongAt
    <3>2. <<p, n>> \in Song
      BY SongType
    <3>3. QED
      BY <1>0, <1>5, <3>1, <3>2 DEF Poll
  <2>5. ASSUME NEW n \in 1 .. Songs[own]
        PROVE  values'[<<own, n>>] = IF n <= h.n + 1 THEN 1 ELSE 0
    <3>1. Songs[own] # 0 /\ h.n < Songs[own]
      BY <2>2 DEF JobInv, Complete
    <3>2. SongAt(h) = <<own, h.n + 1>>
      BY <3>1 DEF SongAt
    <3>3. <<own, n>> \in Song
      BY <2>2, SongType
    <3>4. values'[<<own, n>>] = IF n = h.n + 1 THEN values[<<own, n>>] + 1 ELSE values[<<own, n>>]
      BY <1>0, <1>5, <3>1, <3>2, <3>3 DEF Poll
    <3>5. values[<<own, n>>] = IF n <= h.n THEN 1 ELSE 0
      BY <2>2 DEF SingleInv
    <3>6. QED
      BY <2>2, <3>4, <3>5
  <2>6. \A k \in held' : k = g \/ (k \in held /\ k.entry.part # own /\ k.entry.part \in Range)
    BY <1>0, <2>3, HeldType DEF SingleInv
  <2>7. \A p : Taken(p)' <=> Taken(p)
    BY <2>1 DEF Taken
  <2>8. Taken(own) /\ \A u \in Uid : u[1] = own => tags[u].status # "Success"
    BY <1>0, HeldType, <2>2 DEF BegunInv, Taken, SingleInv
  <2>9. \A j, k \in held' : j.entry.part = k.entry.part => j = k
    BY <2>3, <2>6 DEF SingleInv
  <2>10. ASSUME NEW k \in held', k.ok, NEW n \in 1 .. Songs[k.entry.part]
         PROVE  values'[<<k.entry.part, n>>] = IF n <= k.n THEN 1 ELSE 0
    <3>1. CASE k = g
      BY <2>3, <2>5, <2>10, <3>1
    <3>2. CASE k \in held /\ k.entry.part # own /\ k.entry.part \in Range
      BY <2>4, <2>10, <3>2 DEF SingleInv
    <3>3. QED
      BY <2>6, <3>1, <3>2
  <2>11. \A p \in Range : ~Taken(p)' => \A n \in 1 .. Songs[p] : values'[<<p, n>>] = 0
    BY <2>4, <2>7, <2>8 DEF SingleInv
  <2>12. \A u \in Uid : tags'[u].status = "Success" =>
           /\ Taken(u[1])'
           /\ \A k \in held' : k.entry.part # u[1]
           /\ \A n \in 1 .. Songs[u[1]] : values'[<<u[1], n>>] = 1
    <3>1. \A u \in Uid : u[1] \in Range
      BY DEF Uid
    <3>2. QED
      BY <2>1, <2>3, <2>4, <2>6, <2>7, <2>8, <3>1 DEF SingleInv
  <2>13. QED
    BY <2>1, <2>9, <2>10, <2>11, <2>12 DEF SingleInv, NewEntry
<1>6. ASSUME NEW h \in held, TagCleaned(h) PROVE SingleInv'
  <2> DEFINE own == h.entry.part
  <2>1. UNCHANGED <<values, taken, waiting, pending>> /\ held' = held \ {h}
    BY <1>6 DEF TagCleaned, streamVars
  <2>2. /\ h \in HeldJob /\ JobInv(h) /\ h.phase = "Closing" /\ h.fresh /\ h.copy \in Tag
        /\ h.ok \in BOOLEAN /\ h.n \in Nat /\ own \in Range /\ Songs[own] \in Nat
    BY <1>0, <1>a, <1>6, HeldType, ConstantsAssumption DEF AnswerInv, JobInv, TagCleaned
  <2>3. h.ok => \A n \in 1 .. Songs[own] : values[<<own, n>>] = 1
    <3>1. h.ok => h.n >= Songs[own]
      BY <2>2 DEF JobInv, Complete
    <3>2. QED
      BY <2>2, <3>1 DEF SingleInv
  <2>4. \A u \in Uid : tags'[u].status = "Success" => tags[u].status = "Success" \/ (u[1] = own /\ h.ok)
    BY <1>0, <1>6, <2>2, HeldType, WrittenTags DEF TagCleaned, SetTag
  <2>5. \A k \in held' : k \in held /\ k.entry.part # own
    BY <2>1 DEF SingleInv
  <2>6. Taken(own) /\ \A p : Taken(p)' <=> Taken(p)
    BY <1>0, <2>1, HeldType DEF BegunInv, Taken
  <2>7. QED
    BY <2>1, <2>3, <2>4, <2>5, <2>6 DEF SingleInv, NewEntry
<1>7. ASSUME NEW w \in Worker, Refresh(w) PROVE SingleInv'
  <2>1. UNCHANGED <<values, taken, tags, waiting, pending>>
    BY <1>7 DEF Refresh, history, streamVars
  <2>2. PICK f : f = [h \in held |->
                       IF h.worker = w
                       THEN [h EXCEPT !.phase = IF h.ok /\ ~Complete(h) THEN "Scanning" ELSE "Ended"]
                       ELSE h]
    OBVIOUS
  <2>3. \A g \in held' : \E h \in held : g = f[h]
    BY <1>7, <2>2 DEF Refresh, HeldBy
  <2>4. \A h \in held : f[h].entry = h.entry /\ f[h].n = h.n /\ f[h].ok = h.ok
    BY <1>0, <2>2 DEF HeldJob
  <2>5. \A g, h \in held' : g.entry.part = h.entry.part => g = h
    BY <2>3, <2>4 DEF SingleInv
  <2>6. \A g \in held' : \E h \in held : g.entry = h.entry /\ g.n = h.n /\ (g.ok => h.ok)
    BY <2>3, <2>4
  <2>7. QED
    BY <2>1, <2>5, <2>6, SingleFrame
<1>8. ASSUME ExpireKeys PROVE FALSE
  BY <1>8 DEF ExpireKeys, Single
<1>9. ASSUME NEW w \in Worker, Stop(w) PROVE SingleInv'
  <2>1. UNCHANGED <<values, taken, tags, waiting, pending>>
    BY <1>9, StopMoves DEF results, streamVars
  <2>2. PICK f : f = [h \in held |-> IF h.worker = w THEN [h EXCEPT !.phase = "Stopped"] ELSE h]
    OBVIOUS
  <2>3. \A g \in held' : \E h \in held : g = f[h]
    BY <1>9, <2>2 DEF Stop, HeldBy
  <2>4. \A h \in held : f[h].entry = h.entry /\ f[h].n = h.n /\ f[h].ok = h.ok
    BY <1>0, <2>2 DEF HeldJob
  <2>5. \A g, h \in held' : g.entry.part = h.entry.part => g = h
    BY <2>3, <2>4 DEF SingleInv
  <2>6. \A g \in held' : \E h \in held : g.entry = h.entry /\ g.n = h.n /\ (g.ok => h.ok)
    BY <2>3, <2>4
  <2>7. QED
    BY <2>1, <2>5, <2>6, SingleFrame
<1>10. ASSUME NEW h \in held, NEW c \in Place, ResumeAdd(h, c) PROVE FALSE
  <2>1. h.entry \in Entry /\ taken[h.entry] \in Nat /\ taken[h.entry] > 0
    BY <1>0, HeldType DEF BegunInv
  <2>2. taken'[h.entry] = taken[h.entry] + 1
    BY <1>0, <1>10, <2>1 DEF ResumeAdd
  <2>3. QED
    BY <2>1, <2>2 DEF Single, Repeated
<1>11. ASSUME NEW h \in held, TagResumed(h) PROVE FALSE
  <2>1. h.entry \in Entry /\ taken[h.entry] > 1
    BY <1>0, <1>11, HeldType DEF BegunInv, TagResumed
  <2>2. QED
    BY <1>a, <2>1 DEF Repeated
<1>12. QED
  BY <1>1, <1>2, <1>3, <1>4, <1>5, <1>6, <1>7, <1>8, <1>9, <1>10, <1>11, StepCases

\* What goes with a Finished verdict, and that no step can change it.
LEMMA FinishedStays ==
  ASSUME TypeOK, FailureInv, BegunInv, SingleInv, [Next]_vars, Accepted, Verdict = "Finished", Single'
  PROVE  Verdict' = "Finished" /\ \A s \in Song : s[1] \in ranges => values'[s] = 1
<1>1. ~Repeated /\ ~expired /\ ranges \subseteq Range
  BY RepeatedStays, ConstantsAssumption DEF Single, TypeOK
<1>2. \A p \in ranges : <<p, 1>> \in Uid /\ <<p, 1>>[1] = p /\ tags[<<p, 1>>].status = "Success"
  <2>1. \A p \in ranges : tags[<<p, 1>>].status # "None"
    BY <1>1 DEF Accepted, FailureInv
  <2>2. \A u \in Uid : tags[u].status # "None" => tags[u].status = "Success"
    BY DEF Verdict
  <2>3. \A p \in ranges : <<p, 1>> \in Uid
    BY <1>1 DEF Uid, Place
  <2>4. QED
    BY <2>1, <2>2, <2>3
<1>3. held = {}
  <2>1. \A h \in held : h.entry.part \in ranges
    BY DEF FailureInv
  <2>2. QED
    BY <1>1, <1>2, <2>1 DEF SingleInv
<1>4. \A s \in Song : s[1] \in ranges => values[s] = 1
  <2>1. ASSUME NEW s \in Song, s[1] \in ranges PROVE values[s] = 1
    <3>1. PICK p \in Range : s \in {p} \X (1 .. Songs[p])
      BY <2>1 DEF Song
    <3>2. PICK n \in 1 .. Songs[p] : s = <<p, n>>
      BY <3>1
    <3>3. QED
      BY <1>2, <2>1, <3>2 DEF SingleInv
  <2>2. QED
    BY <2>1
<1>5. UNCHANGED <<tags, values, ranges>>
  <2>1. ASSUME NEW r \in Request, WriteTags(r) PROVE FALSE
    <3>1. PICK q \in Request : phase[q] = "done"
      BY DEF Accepted
    <3>2. phase[r] = "writing"
      BY <2>1 DEF WriteTags
    <3>3. QED
      BY <1>1, <3>1, <3>2 DEF Repeated
  <2>2. ~ExpireKeys
    BY DEF ExpireKeys, Single
  <2>3. CASE \/ \E r \in Request : Begin(r) \/ RequestFails(r)
             \/ \E r \in Request, p \in ranges : WriteEntry(r, p)
             \/ \E w \in Worker, u \in ranges \X Place :
                  \E fetched \in SUBSET waiting, claimed \in SUBSET pending : Pull(w, u, fetched, claimed)
             \/ \E p \in ranges : ExpireStream(p)
             \/ AskTags \/ AskInfo \/ AskValues \/ UNCHANGED vars
    BY <2>3 DEF Begin, RequestFails, WriteEntry, Pull, ExpireStream, AskTags, AskInfo, AskValues,
                Reads, vars, requestVars, results
  <2>4. \A w \in Worker : ~Refresh(w) /\ ~Crash(w) /\ ~Stop(w)
    BY <1>3 DEF Refresh, Crash, Stop, HeldBy
  <2>5. QED
    BY <1>3, <2>1, <2>2, <2>3, <2>4, StepCases
<1>6. QED
  BY <1>4, <1>5 DEF Verdict

\* Once a client could be told Finished, whoever asks later is told the same and
\* finds each score once, unless the token was given twice, a job was done again
\* or the keys expired.
THEOREM FinishedStaysFinished == Spec => FinishedIsFinal
<1> DEFINE OnceInv == Single => SingleInv
<1>1. TypeOK /\ TypeOK' /\ FailureInv /\ AnswerInv /\ BegunInv /\ OnceInv /\ [Next]_vars => OnceInv'
  BY SingleNext, RepeatedStays DEF Single
<1>2. TypeOK /\ FailureInv /\ BegunInv /\ OnceInv /\ [Next]_vars =>
        [Accepted /\ Verdict = "Finished" /\ ~Repeated' /\ ~expired' =>
           Verdict' = "Finished" /\ \A s \in Song : s[1] \in ranges => values'[s] = 1]_vars
  BY FinishedStays, RepeatedStays DEF Single
<1>3. Init => OnceInv
  BY SingleInit
<1>4. QED
  BY <1>1, <1>2, <1>3, TypeInit, FailureInit, AnswerInit, BegunInit,
     TypeNext, FailureNext, AnswerNext, BegunNext, PTL DEF Spec, FinishedIsFinal
=============================================================================
