--------------------------- MODULE RequestResults ---------------------------
(***************************************************************************)
(* What a client reads under its token.  The token is the friend code and  *)
(* the second of the request, so requests of the same second share it, and *)
(* so do all info-only requests of a code, which carry no time.  Under it  *)
(* redis keeps a hash of tags, a list of scores and a list of friend infos *)
(* that workers write while they scan the jobs and that expire some time   *)
(* after the last iteration; /v1/query reads them one after the other.     *)
(*                                                                         *)
(* Every redis call that touches a tag is a step of its own.  How a worker *)
(* scans is WorkerScan's subject: here a job polls one song after the      *)
(* other.  Calls that fail are JobTracking's, but for the read of a tag,   *)
(* and so is a worker that dies in the middle of resume_state.             *)
(***************************************************************************)
EXTENDS Integers, FiniteSets

CONSTANTS
  Range,       \* ranges of songs
  InfoOnly,    \* the range 0..0 of an info-only request
  Splits,      \* what a request for all songs may be split into
  Songs,       \* number of songs of a range
  Worker,
  MaxEntries,  \* bound on the entries of the token
  MaxFaults    \* bound on crashes, re-claims, failing requests, expiries, tags
               \* that cannot be read, and re-enqueued jobs

ASSUME ConstantsAssumption ==
  /\ InfoOnly \in Range
  /\ Splits \subseteq SUBSET (Range \ {InfoOnly}) /\ {} \notin Splits
  /\ Songs \in [Range -> Nat] /\ \A p \in Range : Songs[p] = 0 <=> p = InfoOnly
  /\ MaxEntries \in Nat /\ MaxFaults \in Nat

VARIABLES
  ranges,    \* of the requests
  phase,     \* of each request: "none", "writing", "done" or "failed"
  todo,      \* its entries that are not yet written
  waiting,   \* stream entries never delivered
  pending,   \* delivered, not acknowledged
  held,      \* jobs of the workers
  tags,      \* results:index, one field per job_uid
  values,    \* results:value: how often the friend's scores of a song are listed
  info,      \* whether results:friend_info has an element
  mortal,    \* which of the three keys have a time to live
  client,    \* how far /v1/query is with a Finished verdict
  \* history
  taken,     \* times a worker took an entry for a job, or wrote it anew
  early,     \* ranges with an entry that a worker took before its request was tagged
  overtaken, \* of these, ranges that were tagged when no job was left to be done
  unread,    \* ranges with a tag that could not be read
  expired,   \* whether the keys have ever expired
  lost,      \* ranges whose scores and tag expired, or whose job was re-enqueued, and
             \* that were not gathered anew
  dropped,   \* ranges with a job that left no entry to be reclaimed, or a tag that
             \* resume_state made anew
  faults

requestVars == <<ranges, phase, todo>>
streamVars == <<waiting, pending>>
results == <<tags, values, info, mortal>>
marks == <<early, overtaken, unread, expired, lost, dropped>>
history == <<taken, marks>>
vars == <<requestVars, streamVars, held, results, client, history, faults>>

Request == 1 .. MaxEntries \* in the order they begin
Song == UNION {{p} \X (1 .. Songs[p]) : p \in Range}
\* The places of a range: cursor_start is the first, until a worker re-enqueues the
\* job with the place where it joined.  run tells one writing of an entry from another.
Place == {1} \cup UNION {1 .. Songs[p] : p \in Range}
Entry == [req : Request, part : Range, cursor : Place, run : 0 .. MaxFaults]
NewEntry(r, p) == [req |-> r, part |-> p, cursor |-> 1, run |-> 0]

\* job_uid, of which all entries of a token with this range and cursor_start have one.
Uid == Range \X Place
UidOf(e) == <<e.part, e.cursor>>

\* reason: the first element of failures.  "missing" is TargetKeyNotFound and
\* "requeued" Reenqueued, with which a tag made anew starts; "real" the failure of
\* the job.
Status == {"None", "Queueing", "Pending", "Failed", "Success"}
Tag == [status : Status, reason : {"none", "missing", "requeued", "real"}]
NoTag == [status |-> "None", reason |-> "none"]

\* "Tagging", "Closing" and "Resuming" are between HGET and HSET; copy is what HGET
\* gave, NoTag also if it failed.  "Stopped" and "Requeued" are in resume_state.
\* ok: the friend was added.  fresh: the keys have not expired since the job began.
JobPhase == {"Pulled", "Tagging", "Tagged", "Scanning", "Polled", "Ended", "Acked", "Closing",
             "Stopped", "Requeued", "Resuming"}
HeldJob == [worker : Worker, entry : Entry, delivery : Nat, n : Nat, ok : BOOLEAN,
            fresh : BOOLEAN, phase : JobPhase, copy : Tag]

Fault == faults < MaxFaults /\ faults' = faults + 1
HeldBy(w) == {h \in held : h.worker = w}
IsHeld(e) == \E h \in held : h.entry = e
Replace(h, g) == held' = (held \ {h}) \cup {g}

Init ==
  /\ ranges \in Splits \cup {{InfoOnly}}
  /\ phase = [r \in Request |-> "none"] /\ todo = [r \in Request |-> ranges]
  /\ waiting = {} /\ pending = {} /\ held = {}
  /\ tags = [u \in Uid |-> NoTag] /\ values = [s \in Song |-> 0] /\ info = FALSE
  /\ mortal = {}
  /\ client = "idle"
  /\ taken = [e \in Entry |-> 0] /\ early = {} /\ overtaken = {} /\ unread = {}
  /\ expired = FALSE /\ lost = {} /\ dropped = {}
  /\ faults = 0

----------------------------------------------------------------------------
(* cuscuta-entry: op of /v1/enqueue *)

\* Requests for songs share the token within a second, sooner than a song is
\* polled.
SameToken == ranges = {InfoOnly} \/ (~expired /\ \A s \in Song : values[s] = 0)

Begin(r) ==
  /\ phase[r] = "none" /\ \A q \in Request : q < r => phase[q] # "none"
  /\ SameToken /\ r * Cardinality(ranges) <= MaxEntries
  /\ phase' = [phase EXCEPT ![r] = "writing"]
  /\ UNCHANGED <<ranges, todo, streamVars, held, results, client, history, faults>>

WriteEntry(r, p) ==
  /\ phase[r] = "writing" /\ p \in todo[r]
  /\ todo' = [todo EXCEPT ![r] = @ \ {p}]
  /\ waiting' = waiting \cup {NewEntry(r, p)}
  /\ UNCHANGED <<ranges, phase, pending, held, results, client, history, faults>>

\* HSET of every field, whatever stands there; no EXPIRE.
BatchWrite(r) ==
  tags' = [u \in Uid |->
             IF u \in ranges \X {1} THEN [status |-> "Queueing", reason |-> "none"] ELSE tags[u]]

\* Nobody is left who will write to the tag, since a worker was done with the job.
Overtaken(r, p) ==
  /\ taken[NewEntry(r, p)] > 0
  /\ \A e \in waiting \cup pending \cup {h.entry : h \in held} : UidOf(e) # <<p, 1>>

WriteTags(r) ==
  /\ phase[r] = "writing" /\ todo[r] = {}
  /\ BatchWrite(r)
  /\ phase' = [phase EXCEPT ![r] = "done"]
  /\ overtaken' = overtaken \cup {p \in ranges : Overtaken(r, p)}
  /\ UNCHANGED <<ranges, todo, streamVars, held, values, info, mortal, client,
                 taken, early, unread, expired, lost, dropped, faults>>

RequestFails(r) ==
  /\ phase[r] = "writing" /\ Fault
  /\ phase' = [phase EXCEPT ![r] = "failed"]
  /\ UNCHANGED <<ranges, todo, streamVars, held, results, client, history>>

----------------------------------------------------------------------------
(* pull_jobs *)

\* no_duplicated_jobs: the entries of one job_uid are equal jobs.
FirstOf(fetched, claimed) == IF fetched = {} THEN claimed ELSE fetched

Deliver(fetched) ==
  /\ waiting' = waiting \ fetched
  /\ pending' = pending \cup fetched

Take(w, e) ==
  /\ held' = held \cup {[worker |-> w, entry |-> e, delivery |-> taken[e] + 1, n |-> 0,
                         ok |-> TRUE, fresh |-> TRUE, phase |-> "Pulled", copy |-> NoTag]}
  /\ taken' = [taken EXCEPT ![e] = @ + 1]
  /\ early' = IF phase[e.req] # "done" THEN early \cup {e.part} ELSE early

\* XREADGROUP and XAUTOCLAIM at the start of an iteration: a worker holds jobs
\* of one stream only, and takes those of different uids one after the other. An
\* idle entry that nobody holds lost its worker, or was dropped as a duplicate.
Pull(w, u, fetched, claimed) ==
  /\ fetched \cup claimed # {}
  /\ fetched \subseteq waiting /\ claimed \subseteq pending
  /\ \A e \in fetched \cup claimed : UidOf(e) = u
  /\ \A h \in HeldBy(w) :
       /\ h.entry.part = u[1]
       /\ h.phase = "Scanning" \/ (h.phase = "Pulled" /\ UidOf(h.entry) # u)
  /\ Deliver(fetched)
  /\ \E e \in FirstOf(fetched, claimed) : Take(w, e)
  /\ UNCHANGED <<requestVars, results, client, overtaken, unread, expired, lost, dropped>>

PullIdle(w, u, fetched, claimed) ==
  /\ \A e \in claimed : ~IsHeld(e)
  /\ Pull(w, u, fetched, claimed)
  /\ UNCHANGED faults

\* An iteration took longer than min_idle_time; the holder may be w itself.
PullHeld(w, u, fetched, claimed) ==
  /\ \E e \in claimed : IsHeld(e)
  /\ Fault
  /\ Pull(w, u, fetched, claimed)

----------------------------------------------------------------------------
(* update_job_track_info: HGET, then HSET *)

ReadTag(h, from, to) ==
  /\ h.phase = from
  /\ Replace(h, [h EXCEPT !.phase = to, !.copy = tags[UidOf(h.entry)]])
  /\ UNCHANGED <<requestVars, streamVars, results, client, history, faults>>

\* map_or_else(|_| default_fun(), ..): no connection, or a tag that cannot be parsed,
\* is taken for a tag that is not there.
ReadTagFails(h, from, to) ==
  /\ h.phase = from /\ Fault
  /\ Replace(h, [h EXCEPT !.phase = to, !.copy = NoTag])
  /\ unread' = unread \cup {h.entry.part}
  /\ UNCHANGED <<requestVars, streamVars, results, client,
                 taken, early, overtaken, expired, lost, dropped>>

FetchTag(h, from, to) == ReadTag(h, from, to) \/ ReadTagFails(h, from, to)

\* The hash has no time to live if this is its first field.
SetTag(h, tag) == tags' = [tags EXCEPT ![UidOf(h.entry)] = tag]

\* transform_fun or default_fun of scan_sub_queue_and_pull_job
PulledTag(copy) ==
  IF copy = NoTag THEN [status |-> "Queueing", reason |-> "missing"]
                  ELSE [copy EXCEPT !.status = "Pending"]

TagPulled(h) ==
  /\ h.phase = "Tagging"
  /\ SetTag(h, PulledTag(h.copy))
  /\ Replace(h, [h EXCEPT !.phase = "Tagged", !.copy = NoTag])
  /\ UNCHANGED <<requestVars, streamVars, values, info, mortal, client, history, faults>>

\* Mutant: the job's failure is not added to the others.
CleanedTagBare(ok, copy) ==
  [status |-> IF ok THEN "Success" ELSE "Failed", reason |-> copy.reason]
\* transform_fun or default_fun of clean_jobs: a tag made anew says first that it
\* was missing, also when the job succeeded.
CleanedTag(ok, copy) ==
  IF ok THEN [status |-> "Success", reason |-> IF copy = NoTag THEN "missing" ELSE copy.reason]
  ELSE [status |-> "Failed",
        reason |-> IF copy = NoTag THEN "missing"
                   ELSE IF copy.reason = "none" THEN "real" ELSE copy.reason]

\* The job is dropped.
TagCleaned(h) ==
  /\ h.phase = "Closing"
  /\ SetTag(h, CleanedTag(h.ok, h.copy))
  /\ held' = held \ {h}
  /\ lost' = IF h.ok /\ h.fresh THEN lost \ {h.entry.part} ELSE lost
  /\ UNCHANGED <<requestVars, streamVars, values, info, mortal, client,
                 taken, early, overtaken, unread, expired, dropped, faults>>

----------------------------------------------------------------------------
(* The rest of internal_loop *)

\* push_friend_info: LPUSH and LTRIM
AddFriend(h) ==
  /\ h.phase = "Tagged"
  /\ info' = TRUE
  /\ Replace(h, [h EXCEPT !.phase = "Scanning"])
  /\ UNCHANGED <<requestVars, streamVars, tags, values, mortal, client, history, faults>>

AddFriendFails(h) ==
  /\ h.phase = "Tagged"
  /\ Replace(h, [h EXCEPT !.phase = "Polled", !.ok = FALSE])
  /\ UNCHANGED <<requestVars, streamVars, results, client, history, faults>>

\* The worker's cursor wraps at the end of the range.
SongAt(h) == <<h.entry.part, IF h.n < Songs[h.entry.part] THEN h.n + 1 ELSE 1>>

\* process_job_with_result and write_result_to_redis: LPUSH
Poll(h) ==
  /\ h.phase = "Scanning" /\ \A g \in HeldBy(h.worker) : g.phase \in {"Scanning", "Polled"}
  /\ values' = IF Songs[h.entry.part] = 0 THEN values ELSE [values EXCEPT ![SongAt(h)] = @ + 1]
  /\ Replace(h, [h EXCEPT !.phase = "Polled", !.n = @ + 1])
  /\ UNCHANGED <<requestVars, streamVars, tags, info, mortal, client, history, faults>>

\* Mutants: a job ends one song late, or early.
CompleteLate(h) == h.n > Songs[h.entry.part]
CompleteEarly(h) == h.n + 1 >= Songs[h.entry.part]
Complete(h) == h.n >= Songs[h.entry.part]

\* EXPIRE does nothing to a key that does not exist.
Existing ==
  {k \in {"tags", "values", "info"} :
     \/ k = "tags" /\ \E u \in Uid : tags[u] # NoTag
     \/ k = "values" /\ \E s \in Song : values[s] > 0
     \/ k = "info" /\ info}

\* refresh_redis_ttl, for all jobs the worker holds, failed ones too.
Refresh(w) ==
  /\ HeldBy(w) # {} /\ \A h \in HeldBy(w) : h.phase = "Polled"
  /\ mortal' = Existing
  /\ held' = (held \ HeldBy(w)) \cup
       {[h EXCEPT !.phase = IF h.ok /\ ~Complete(h) THEN "Scanning" ELSE "Ended"] : h \in HeldBy(w)}
  /\ UNCHANGED <<requestVars, streamVars, tags, values, info, client, history, faults>>

\* Mutant: the duplicates of the job are acknowledged with it.
AckAll(h) ==
  /\ h.phase = "Ended" /\ \A g \in HeldBy(h.worker) : g.phase \in {"Scanning", "Ended"}
  /\ pending' = {e \in pending : e.part # h.entry.part}
  /\ Replace(h, [h EXCEPT !.phase = "Acked"])
  /\ UNCHANGED <<requestVars, waiting, results, client, history, faults>>
\* clean_jobs: XACK, then the tag, one job after the other.
Ack(h) ==
  /\ h.phase = "Ended" /\ \A g \in HeldBy(h.worker) : g.phase \in {"Scanning", "Ended"}
  /\ pending' = pending \ {h.entry}
  /\ Replace(h, [h EXCEPT !.phase = "Acked"])
  /\ UNCHANGED <<requestVars, waiting, results, client, history, faults>>

\* Nothing is left from which the job could be taken up again.
Crash(w) ==
  /\ HeldBy(w) # {} /\ Fault
  /\ held' = held \ HeldBy(w)
  /\ dropped' = dropped \cup {h.entry.part : h \in {g \in HeldBy(w) : g.entry \notin pending}}
  /\ UNCHANGED <<requestVars, streamVars, results, client,
                 taken, early, overtaken, unread, expired, lost>>

----------------------------------------------------------------------------
(* resume_state *)

\* worker_loop returns: its token was cancelled, or a poll was refused.
Stop(w) ==
  /\ HeldBy(w) # {} /\ \A h \in HeldBy(w) : h.phase \in {"Scanning", "Polled"}
  /\ faults + Cardinality(HeldBy(w)) <= MaxFaults
  /\ held' = (held \ HeldBy(w)) \cup {[h EXCEPT !.phase = "Stopped"] : h \in HeldBy(w)}
  /\ UNCHANGED <<requestVars, streamVars, results, client, history, faults>>

\* XACK and XADD: a job whose friend was added carries the place where it joined.
ResumeAdd(h, c) ==
  /\ \A g \in HeldBy(h.worker) : g.phase = "Stopped"
  /\ Fault
  /\ c = h.entry.cursor \/ (h.ok /\ c \in 1 .. Songs[h.entry.part])
  /\ pending' = pending \ {h.entry}
  /\ waiting' = waiting \cup {[h.entry EXCEPT !.cursor = c, !.run = faults + 1]}
  /\ Replace(h, [h EXCEPT !.phase = "Requeued"])
  /\ taken' = [taken EXCEPT ![h.entry] = @ + 1]
  /\ UNCHANGED <<requestVars, results, client, marks>>

ResumedTag(copy) ==
  IF copy = NoTag THEN [status |-> "Queueing", reason |-> "requeued"]
                  ELSE [copy EXCEPT !.status = "Success"]

\* The tag of the old job_uid. Nobody may ever write to it again.
TagResumed(h) ==
  /\ h.phase = "Resuming"
  /\ SetTag(h, ResumedTag(h.copy))
  /\ held' = held \ {h}
  /\ lost' = lost \cup {h.entry.part}
  /\ dropped' = IF h.copy = NoTag THEN dropped \cup {h.entry.part} ELSE dropped
  /\ UNCHANGED <<requestVars, streamVars, values, info, mortal, client,
                 taken, early, overtaken, unread, expired, faults>>

----------------------------------------------------------------------------
(* Redis: keys expire.  An iteration is shorter than the time to live, so a *)
(* job that has been through one keeps the keys and its stream alive.       *)

KeepsAlive(h) ==
  \/ h.phase \in {"Ended", "Acked", "Closing"}
  \/ h.phase = "Scanning" /\ h.n > 0
  \/ h.phase \in {"Polled", "Stopped", "Requeued", "Resuming"} /\ h.n > 1

\* One pipe sets all of them, so they expire together.
ExpireKeys ==
  /\ mortal # {} /\ Fault
  /\ \A h \in held : ~KeepsAlive(h)
  /\ \A r \in Request : phase[r] # "writing"
  /\ tags' = IF "tags" \in mortal THEN [u \in Uid |-> NoTag] ELSE tags
  /\ values' = IF "values" \in mortal THEN [s \in Song |-> 0] ELSE values
  /\ info' = (info /\ "info" \notin mortal)
  /\ mortal' = {}
  /\ expired' = TRUE /\ lost' = ranges
  /\ held' = {[h EXCEPT !.fresh = FALSE] : h \in held}
  /\ UNCHANGED <<requestVars, streamVars, client, taken, early, overtaken, unread, dropped>>

\* The stream goes with its consumer group.
ExpireStream(p) ==
  LET gone == {e \in waiting \cup pending : e.part = p}
  IN  /\ gone # {} /\ \A h \in held : h.entry.part = p => ~KeepsAlive(h)
      /\ \A r \in Request : phase[r] # "writing"
      /\ Fault
      /\ waiting' = waiting \ gone /\ pending' = pending \ gone
      /\ dropped' = IF \E e \in gone : ~IsHeld(e) THEN dropped \cup {p} ELSE dropped
      /\ UNCHANGED <<requestVars, held, results, client,
                     taken, early, overtaken, unread, expired, lost>>

----------------------------------------------------------------------------
(* cuscuta-entry: op of /v1/query *)

\* check_evidence; `all` of no tags is true.
Verdict ==
  LET statuses == {tags[u].status : u \in Uid} \ {"None"}
  IN  IF statuses \subseteq {"Success"} THEN "Finished"
      ELSE IF "Failed" \in statuses THEN "JobFailed"
      ELSE "Pending"

Accepted == \E r \in Request : phase[r] = "done"

Reads(from, to) ==
  /\ client = from /\ client' = to
  /\ UNCHANGED <<requestVars, streamVars, held, results, history, faults>>

AskTags == Accepted /\ Verdict = "Finished" /\ Reads("idle", "tags")
AskInfo == Reads("tags", "info")
AskValues == Reads("info", "idle")

----------------------------------------------------------------------------

RequestStep ==
  \E r \in Request : Begin(r) \/ WriteTags(r) \/ RequestFails(r) \/ \E p \in ranges : WriteEntry(r, p)

JobStep(h) ==
  \/ FetchTag(h, "Pulled", "Tagging") \/ TagPulled(h)
  \/ AddFriend(h) \/ AddFriendFails(h) \/ Poll(h)
  \/ Ack(h) \/ FetchTag(h, "Acked", "Closing") \/ TagCleaned(h)
  \/ \E c \in Place : ResumeAdd(h, c)
  \/ FetchTag(h, "Requeued", "Resuming") \/ TagResumed(h)

WorkerStep ==
  \/ \E w \in Worker, u \in ranges \X Place :
       \E fetched \in SUBSET {e \in waiting : UidOf(e) = u},
          claimed \in SUBSET {e \in pending : UidOf(e) = u} :
         PullIdle(w, u, fetched, claimed) \/ PullHeld(w, u, fetched, claimed)
  \/ \E h \in held : JobStep(h)
  \/ \E w \in Worker : Refresh(w) \/ Crash(w) \/ Stop(w)

Next ==
  \/ RequestStep \/ WorkerStep
  \/ ExpireKeys \/ \E p \in ranges : ExpireStream(p)
  \/ AskTags \/ AskInfo \/ AskValues

Spec == Init /\ [][Next]_vars

----------------------------------------------------------------------------
(* Properties *)

TypeOK ==
  /\ ranges \in Splits \cup {{InfoOnly}}
  /\ phase \in [Request -> {"none", "writing", "done", "failed"}]
  /\ todo \in [Request -> SUBSET Range]
  /\ waiting \in SUBSET Entry /\ pending \in SUBSET Entry
  /\ held \in SUBSET HeldJob
  /\ tags \in [Uid -> Tag] /\ values \in [Song -> Nat] /\ info \in BOOLEAN
  /\ mortal \in SUBSET {"tags", "values", "info"}
  /\ client \in {"idle", "tags", "info"}
  /\ taken \in [Entry -> Nat] /\ early \in SUBSET Range /\ overtaken \in SUBSET Range
  /\ unread \in SUBSET Range /\ expired \in BOOLEAN
  /\ lost \in SUBSET Range /\ dropped \in SUBSET Range
  /\ faults \in 0 .. MaxFaults

Listed(p) == \A n \in 1 .. Songs[p] : values[<<p, n>>] > 0

\* A client that is answered Finished gets the friend and the scores of every
\* song, although they are read after the tags, however many jobs of however many
\* requests wrote them: unless they expired, or the job was re-enqueued by a worker
\* that stopped (which tags it Success), and they were not gathered again.
AnswerComplete ==
  [][/\ AskInfo => info \/ lost # {}
     /\ AskValues => \A p \in ranges \ lost : Listed(p)]_vars

\* The token was given twice, or a job was done again or is to be.
Repeated ==
  \/ \E q, r \in Request : q # r /\ phase[q] # "none" /\ phase[r] # "none"
  \/ \E e \in Entry : taken[e] > 1

\* Unless the token was given twice, a job was done again or the keys expired, a
\* Finished verdict is final, and the scores it goes with are listed once each.  That
\* a refused removal turns Success into Failed is JobTracking's CleanRefused.
FinishedIsFinal ==
  [][Accepted /\ Verdict = "Finished" /\ ~Repeated' /\ ~expired' =>
       Verdict' = "Finished" /\ \A s \in Song : s[1] \in ranges => values'[s] = 1]_vars

\* A tag may have been made anew: a worker was before the request with the first one,
\* could not read it, or carried the job to another job_uid, or the tags expired.
Excused(u) == u[1] \in early \cup unread \/ u[2] # 1 \/ expired

\* Of a failed request the client is told why: the code -998 is never needed, and
\* the first failure of the tag is the one of the job, unless it was made anew.
FailureExplained ==
  \A u \in Uid : tags[u].status = "Failed" =>
    /\ tags[u].reason # "none"
    /\ tags[u].reason # "real" => Excused(u)

\* When nothing is left to do, no tag says that there is: every entry was taken, also
\* those dropped as duplicates, and the tag a job ended with is never overwritten with
\* an earlier one.  A request may have been tagged when a worker was done with it, and
\* a job may have left no entry to take it up from: then its range, and no other, has
\* a tag that stays.
QuietMeansAnswered ==
  waiting = {} /\ pending = {} /\ held = {} =>
    \A u \in Uid : tags[u].status \in {"Queueing", "Pending"} => u[1] \in dropped \cup overtaken
=============================================================================
