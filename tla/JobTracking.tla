---------------------------- MODULE JobTracking ----------------------------
(***************************************************************************)
(* The life of one request in redis: cuscuta-entry writes one stream entry *)
(* per range of the song list and then one tracking tag per range; workers *)
(* read the entries through a consumer group, reclaim idle ones, tag them  *)
(* as they go, acknowledge them, and re-enqueue what they hold when they   *)
(* stop; /v1/query derives its verdict from the tags alone.                *)
(*                                                                         *)
(* How a worker scans a job is WorkerScan's subject: here a held job just  *)
(* becomes Pending, Finished or Failed.  The expiry of keys, and the two   *)
(* redis calls of update_job_track_info, which is one step here, are       *)
(* RequestResults'.                                                        *)
(***************************************************************************)
EXTENDS Integers

CONSTANTS
  Range,      \* the ranges of the request, one job each
  Worker,
  Cursor,     \* cursor positions a job can be joined at
  Start,      \* the cursor_start every job is enqueued with
  Hazards,    \* the adverse events the environment may produce
  MaxFaults   \* and how many of them

\* crash: a worker dies; stop: its loop returns and resume_state runs;
\* claim: XAUTOCLAIM takes an entry whose holder is alive but slow; late: a
\* worker is done with a job before cuscuta-entry wrote the tags; tag: a tag
\* cannot be written; read: a tag cannot be read; abort: clean_jobs fails after
\* the tag of a job; refuse: it does so after the game had refused to remove the
\* friend of a finished job; entry: cuscuta-entry fails half-way through a request.
HazardNames == {"crash", "stop", "claim", "late", "tag", "read", "abort", "refuse", "entry"}

ASSUME ConstantsAssumption ==
  /\ Start \in Cursor
  /\ Hazards \subseteq HazardNames
  /\ MaxFaults \in Nat

VARIABLES
  request,  \* "writing" entries and tags, then "done" or "failed"
  written,  \* ranges whose entry was written
  queue,    \* stream entries never delivered
  pel,      \* delivered, not acknowledged; each with its delivery count
  held,     \* jobs the workers hold
  stopping, \* workers in resume_state
  tags,     \* results:index of the request: job_uid to status
  lastId,
  \* history, read by properties only
  done,     \* ranges scanned to the end by some worker
  settled,  \* ranges for which a final status was written
  resumed,  \* ranges re-enqueued by a stopping worker
  dropped,  \* ranges lost between XACK and the next write
  faults

store == <<queue, pel, tags, lastId>>
history == <<done, settled, resumed, dropped>>
vars == <<request, written, store, held, stopping, history, faults>>

\* cursor_start travels in the entry, and job_uid is derived from it again
\* whenever the entry is parsed.
Entry == [id : Nat, range : Range, cursorStart : Cursor]
Uid == Range \X Cursor
UidOf(entry) == <<entry.range, entry.cursorStart>>
TagStatus == {"None", "Queueing", "Pending", "Failed", "Success"}

\* "Received" between XREADGROUP or XAUTOCLAIM and the tag; "Acked..." between
\* XACK and the final tag; "Unqueued" and "Requeued" inside resume_state.
JobPhase == {"Received", "Pulled", "Pending", "Finished", "Failed",
             "AckedFinished", "AckedFailed", "Unqueued", "Requeued"}
HeldJob == [worker : Worker, entry : Entry, delivery : Nat, cursor : Cursor,
            phase : JobPhase]
Delivered == [entry : Entry, delivery : Nat]

HeldBy(w) == {h \in held : h.worker = w}
InPel(entry) == \E d \in pel : d.entry = entry
To(h, phase) == held' = (held \ {h}) \cup {[h EXCEPT !.phase = phase]}

Fault(name) ==
  /\ name \in Hazards /\ faults < MaxFaults
  /\ faults' = faults + 1

----------------------------------------------------------------------------

Init ==
  /\ request = "writing" /\ written = {}
  /\ queue = {} /\ pel = {} /\ held = {} /\ stopping = {}
  /\ tags = [u \in Uid |-> "None"]
  /\ lastId = 0
  /\ done = {} /\ settled = {} /\ resumed = {} /\ dropped = {}
  /\ faults = 0

----------------------------------------------------------------------------
(* cuscuta-entry: op of /v1/enqueue *)

\* XADD
Add(range, cursor) ==
  /\ lastId' = lastId + 1
  /\ queue' = queue \cup {[id |-> lastId + 1, range |-> range, cursorStart |-> cursor]}

WriteEntry(r) ==
  /\ request = "writing" /\ r \notin written
  /\ Add(r, Start)
  /\ written' = written \cup {r}
  /\ UNCHANGED <<request, pel, held, stopping, tags, history, faults>>

\* One pipe for all tags, whatever stands there already.
BatchWriteTags ==
  tags' = [u \in Uid |-> IF u[2] = Start THEN "Queueing" ELSE tags[u]]

\* The client gets its token only after the tags were written.
WriteTags ==
  /\ request = "writing" /\ written = Range
  /\ BatchWriteTags
  /\ request' = "done"
  /\ UNCHANGED <<written, queue, pel, lastId, held, stopping, history, faults>>

RequestFails ==
  /\ request = "writing" /\ request' = "failed"
  /\ Fault("entry")
  /\ UNCHANGED <<written, store, held, stopping, history>>

----------------------------------------------------------------------------
(* A worker pulls jobs *)

Running(w) == w \notin stopping

Receive(w, entry, delivery) ==
  held' = held \cup {[worker |-> w, entry |-> entry, delivery |-> delivery,
                      cursor |-> entry.cursorStart, phase |-> "Received"]}

\* Mutant: XREADGROUP NOACK.
DeliverNoAck(entry) == queue' = queue \ {entry} /\ UNCHANGED pel
Deliver(entry) ==
  /\ queue' = queue \ {entry}
  /\ pel' = pel \cup {[entry |-> entry, delivery |-> 1]}

\* XREADGROUP >
Fetch(w, entry) ==
  /\ Running(w) /\ entry \in queue
  /\ Deliver(entry)
  /\ Receive(w, entry, 1)
  /\ UNCHANGED <<request, written, tags, lastId, stopping, history, faults>>

\* XAUTOCLAIM: the delivery becomes w's.
Reclaim(w, d) ==
  /\ Running(w) /\ d \in pel
  /\ pel' = (pel \ {d}) \cup {[d EXCEPT !.delivery = @ + 1]}
  /\ Receive(w, d.entry, d.delivery + 1)
  /\ UNCHANGED <<request, written, queue, tags, lastId, stopping, history>>

HeldBySomeone(d) == \E h \in held : h.entry = d.entry

\* Mutant: an entry is given a single second chance.
IdleOnce(d) == ~HeldBySomeone(d) /\ request # "writing" /\ d.delivery = 1
\* An entry is idle only long after its request was done.
Idle(d) == ~HeldBySomeone(d) /\ ("late" \in Hazards \/ request # "writing")

\* Nobody holds it.
ReclaimIdle(w, d) ==
  /\ Idle(d)
  /\ Reclaim(w, d)
  /\ UNCHANGED faults

\* Its holder, which may be w itself, just took longer than min_idle_time.
ReclaimHeld(w, d) ==
  /\ HeldBySomeone(d)
  /\ Reclaim(w, d)
  /\ Fault("claim")

\* Mutant: the transformation and the default change places.
SetTagSwapped(uid, status, default) ==
  tags' = [tags EXCEPT ![uid] = IF tags[uid] = "None" THEN status ELSE default]
\* update_job_track_info: map_or_else(|_| default, transform).  A tag that cannot
\* be fetched or parsed is taken for one that is not there: the default is written
\* whatever stands, which is SetTag(uid, default, default).
SetTag(uid, status, default) ==
  tags' = [tags EXCEPT ![uid] = IF tags[uid] = "None" THEN default ELSE status]

Pull(h) ==
  /\ h.phase = "Received"
  /\ To(h, "Pulled")
  /\ UNCHANGED <<request, written, queue, pel, lastId, stopping, history>>

TagPulled(h) ==
  /\ Pull(h)
  /\ SetTag(UidOf(h.entry), "Pending", "Queueing")
  /\ UNCHANGED faults

TagPulledUnread(h) ==
  /\ Pull(h)
  /\ SetTag(UidOf(h.entry), "Queueing", "Queueing")
  /\ Fault("read")

\* The job is not pushed to current_jobs: its entry waits to be reclaimed.
TagPulledFails(h) ==
  /\ h.phase = "Received"
  /\ held' = held \ {h}
  /\ Fault("tag")
  /\ UNCHANGED <<request, written, store, stopping, history>>

----------------------------------------------------------------------------
(* The scan, seen from outside *)

Scanning(h, phase) ==
  /\ Running(h.worker) /\ h.phase = phase
  /\ UNCHANGED <<request, written, store, stopping, settled, resumed, dropped, faults>>

\* The job joins where the worker's cursor stands; job_uid stays.
StartPending(h, c) ==
  /\ Scanning(h, "Pulled")
  /\ held' = (held \ {h}) \cup {[h EXCEPT !.phase = "Pending", !.cursor = c]}
  /\ UNCHANGED done

AddFriendFails(h) ==
  /\ Scanning(h, "Pulled")
  /\ To(h, "Failed")
  /\ UNCHANGED done

Finish(h) ==
  /\ Scanning(h, "Pending")
  /\ To(h, "Finished")
  /\ done' = done \cup {h.entry.range}

----------------------------------------------------------------------------
(* clean_jobs *)

Acknowledge(entry) == pel' = {d \in pel : d.entry # entry}

\* Mutant: a job is acknowledged as soon as it is pulled.
AckableEarly(h) == h.phase \in {"Pulled", "Finished", "Failed"}
Ackable(h) == h.phase \in {"Finished", "Failed"}

Ack(h) ==
  /\ Running(h.worker) /\ Ackable(h)
  /\ "late" \in Hazards \/ request # "writing"
  /\ Acknowledge(h.entry)
  /\ To(h, IF h.phase = "Failed" THEN "AckedFailed" ELSE "AckedFinished")
  /\ UNCHANGED <<request, written, queue, tags, lastId, stopping, history, faults>>

\* Mutant: the failure_info of the job is not looked at.
OutcomeSuccess(h) == "Success"
Outcome(h) == IF h.phase = "AckedFailed" THEN "Failed" ELSE "Success"

\* The default has the same status: a tag that cannot be read makes no difference.
Settle(h) ==
  /\ h.phase \in {"AckedFinished", "AckedFailed"}
  /\ SetTag(UidOf(h.entry), Outcome(h), Outcome(h))
  /\ settled' = settled \cup {h.entry.range}
  /\ UNCHANGED <<request, written, queue, pel, lastId, stopping, done, resumed, dropped>>

Clean(h) ==
  /\ Settle(h)
  /\ held' = held \ {h}
  /\ UNCHANGED faults

\* A later job's xack failed: nothing is dropped, the job is retired again.
CleanAborts(h) ==
  /\ Settle(h)
  /\ To(h, IF h.phase = "AckedFailed" THEN "Failed" ELSE "Finished")
  /\ Fault("abort")

\* The job was done and tagged, but its friend could not be removed: it is kept as
\* a failed one, and retired as such if a later job's xack fails.  (If none does,
\* it is dropped with the others, which is Clean.)
CleanRefused(h) ==
  /\ h.phase = "AckedFinished"
  /\ Settle(h)
  /\ To(h, "Failed")
  /\ Fault("refuse")

\* `continue`: the job is dropped with its tag as it was.
CleanTagFails(h) ==
  /\ h.phase \in {"AckedFinished", "AckedFailed"}
  /\ held' = held \ {h}
  /\ dropped' = dropped \cup {h.entry.range}
  /\ Fault("tag")
  /\ UNCHANGED <<request, written, store, stopping, done, settled, resumed>>

----------------------------------------------------------------------------
(* A worker crashes, or stops and re-enqueues its jobs *)

\* Acknowledged, and not yet written again in any other form.
Unrecorded(h) == h.phase \in {"AckedFinished", "AckedFailed", "Unqueued"}

\* Also resume_state returning early on an error.
Crash(w) ==
  /\ HeldBy(w) # {}
  /\ held' = held \ HeldBy(w)
  /\ stopping' = stopping \ {w}
  /\ dropped' = dropped \cup {h.entry.range : h \in {g \in HeldBy(w) : Unrecorded(g)}}
  /\ Fault("crash")
  /\ UNCHANGED <<request, written, store, done, settled, resumed>>

\* worker_loop returns between iterations, or when polling was refused.
Stop(w) ==
  /\ Running(w) /\ HeldBy(w) # {}
  /\ \A h \in HeldBy(w) : h.phase \in {"Pulled", "Pending", "Finished", "Failed"}
  /\ stopping' = stopping \cup {w}
  /\ Fault("stop")
  /\ UNCHANGED <<request, written, store, held, history>>

ResumeAck(h) ==
  /\ h.worker \in stopping
  /\ \A g \in HeldBy(h.worker) : g.phase \notin {"Unqueued", "Requeued"}
  /\ Acknowledge(h.entry)
  /\ To(h, "Unqueued")
  /\ UNCHANGED <<request, written, queue, tags, lastId, stopping, history, faults>>

\* Mutant: the new entry is never written.
RequeueNothing(h) == UNCHANGED <<queue, lastId>>
\* write_job with the cursor_start the worker put into the job.
Requeue(h) == Add(h.entry.range, h.cursor)

ResumeAdd(h) ==
  /\ h.phase = "Unqueued"
  /\ Requeue(h)
  /\ To(h, "Requeued")
  /\ resumed' = resumed \cup {h.entry.range}
  /\ UNCHANGED <<request, written, pel, tags, stopping, done, settled, dropped, faults>>

Resumed(h) ==
  /\ h.phase = "Requeued"
  /\ held' = held \ {h}
  /\ stopping' = IF HeldBy(h.worker) = {h} THEN stopping \ {h.worker} ELSE stopping
  /\ UNCHANGED <<request, written, queue, pel, lastId, history>>

ResumeTag(h) ==
  /\ Resumed(h)
  /\ SetTag(UidOf(h.entry), "Success", "Queueing")
  /\ UNCHANGED faults

ResumeTagUnread(h) ==
  /\ Resumed(h)
  /\ SetTag(UidOf(h.entry), "Queueing", "Queueing")
  /\ Fault("read")

----------------------------------------------------------------------------

RequestStep == (\E r \in Range : WriteEntry(r)) \/ WriteTags

WorkerStep ==
  \/ \E w \in Worker : \/ \E entry \in queue : Fetch(w, entry)
                       \/ \E d \in pel : ReclaimIdle(w, d)
  \/ \E h \in held :
       \/ TagPulled(h) \/ (\E c \in Cursor : StartPending(h, c)) \/ AddFriendFails(h)
       \/ Finish(h) \/ Ack(h) \/ Clean(h)
       \/ ResumeAck(h) \/ ResumeAdd(h) \/ ResumeTag(h)

FaultStep ==
  \/ RequestFails
  \/ \E w \in Worker : Crash(w) \/ Stop(w) \/ \E d \in pel : ReclaimHeld(w, d)
  \/ \E h \in held : \/ TagPulledFails(h) \/ TagPulledUnread(h)
                     \/ CleanAborts(h) \/ CleanRefused(h) \/ CleanTagFails(h)
                     \/ ResumeTagUnread(h)

Next == RequestStep \/ WorkerStep \/ FaultStep

\* cuscuta-entry and at least one worker keep running.
Spec == Init /\ [][Next]_vars /\ WF_vars(RequestStep) /\ WF_vars(WorkerStep)

----------------------------------------------------------------------------
(* cuscuta-entry: check_evidence of /v1/query *)

Tagged == {u \in Uid : tags[u] # "None"}

Verdict ==
  IF \A u \in Tagged : tags[u] = "Success" THEN "Finished"
  ELSE IF \E u \in Tagged : tags[u] = "Failed" THEN "JobFailed"
  ELSE "Pending"

----------------------------------------------------------------------------
(* Properties *)

TypeOK ==
  /\ request \in {"writing", "done", "failed"}
  /\ written \subseteq Range
  /\ queue \subseteq Entry /\ pel \subseteq Delivered /\ held \subseteq HeldJob
  /\ stopping \subseteq Worker
  /\ tags \in [Uid -> TagStatus]
  /\ lastId \in Nat
  /\ done \subseteq Range /\ settled \subseteq Range
  /\ resumed \subseteq Range /\ dropped \subseteq Range
  /\ faults \in 0 .. MaxFaults

\* A job that was written is never lost from sight: until its final status
\* stands, its entry is in the stream or the consumer group, or a worker is
\* between acknowledging it and its next write, or died exactly there.
WrittenJobsKept ==
  \A r \in written \ (settled \cup dropped) :
    \/ \E entry \in queue : entry.range = r
    \/ \E d \in pel : d.entry.range = r
    \/ \E h \in held : h.entry.range = r

\* A client told "Finished" gets complete results: every range of the request
\* was scanned to its end, or is one a stopping worker had re-enqueued.
VerdictSound ==
  request = "done" /\ Verdict = "Finished" => Range \subseteq done \cup resumed

\* The entry of a job being scanned can be reclaimed should its worker die,
\* unless another worker that had claimed it as well was done with it first.
ScannedIsRecoverable ==
  \A h \in held : h.phase \in {"Received", "Pulled", "Pending"} =>
    \/ InPel(h.entry)
    \/ h.entry.range \in settled \cup resumed \cup dropped
    \/ \E g \in held : g.entry = h.entry /\ g # h

\* As the comment on JobTrackQueueStatus::Success has it: the job is complete.
SuccessMeansDone == \A u \in Uid : tags[u] = "Success" => u[1] \in done

\* Without late tags, stops, re-claims of live jobs and friends that cannot be
\* removed, the tags keep what a client is promised, whatever else fails: the tag
\* of a job that cannot be read or written, a crash, a clean_jobs that is repeated.
Promise == INSTANCE JobStatus
             WITH Job <- Range, status <- [r \in Range |-> tags[<<r, Start>>]]
KeepsPromise == Promise!Spec

\* Every range of an accepted request gets a final status that stands, unless
\* the one worker that had acknowledged it failed before writing it.
AcceptedJobsSettle ==
  \A r \in Range :
    request = "done" ~>
      [](r \in dropped \/ tags[<<r, Start>>] \in {"Success", "Failed"})

\* How far a range is from having left no trace.
Phases == {<<"Received", 5>>, <<"Pulled", 4>>, <<"Pending", 3>>, <<"Finished", 2>>,
           <<"Failed", 2>>, <<"AckedFinished", 1>>, <<"AckedFailed", 1>>}
Standings(r) ==
  {n \in 1 .. 8 :
     \/ n = 8 /\ r \notin written
     \/ n = 7 /\ \E entry \in queue : entry.range = r
     \/ n = 6 /\ \E d \in pel : d.entry.range = r /\ ~HeldBySomeone(d)
     \/ \E h \in held : h.entry.range = r /\ <<h.phase, n>> \in Phases}

\* Without faults each step brings some range nearer to its final status and none
\* farther from it, whoever crashed with it before and how often it was claimed:
\* no range is handed round for ever.
RangesAdvance ==
  [][faults' = faults =>
       /\ \A r \in Range : \A n \in Standings(r)' : \E m \in Standings(r) : n <= m
       /\ request' = request =>
            \E r \in Range : \E m \in Standings(r) : \A n \in Standings(r)' : n < m]_vars

\* Once no trace of a range is left, its final status stands, or the one worker
\* that had acknowledged it failed before writing it.
TracelessIsSettled ==
  \A r \in Range :
    request = "done" /\ Standings(r) = {} =>
      r \in dropped \/ tags[<<r, Start>>] \in {"Success", "Failed"}
=============================================================================
