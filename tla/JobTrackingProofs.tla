------------------------- MODULE JobTrackingProofs -------------------------
(***************************************************************************)
(* Proofs about JobTracking, for any request, any number of workers and    *)
(* any sequence of the adverse events; the last four theorems leave out    *)
(* those events, by name, under which the code does not keep its promise.  *)
(***************************************************************************)
EXTENDS JobTracking, TLAPS

----------------------------------------------------------------------------
(* Types *)

LEMMA TypeInit == Init => TypeOK
  BY ConstantsAssumption DEF Init, TypeOK, TagStatus

\* A held job that changes nothing but its phase or its cursor is a held job.
LEMMA ToType ==
  ASSUME held \subseteq HeldJob, NEW h \in held, NEW p \in JobPhase, To(h, p)
  PROVE  held' \subseteq HeldJob
  BY DEF To, HeldJob

LEMMA SetTagType ==
  ASSUME tags \in [Uid -> TagStatus], NEW u \in Uid,
         NEW s \in TagStatus, NEW d \in TagStatus, SetTag(u, s, d)
  PROVE  tags' \in [Uid -> TagStatus]
  BY DEF SetTag

LEMMA UidType ==
  ASSUME NEW h \in HeldJob
  PROVE  /\ h.entry \in Entry /\ h.entry.range \in Range /\ h.worker \in Worker
         /\ h.cursor \in Cursor /\ UidOf(h.entry) \in Uid
  BY DEF HeldJob, Entry, UidOf, Uid

LEMMA TypeNext == TypeOK /\ [Next]_vars => TypeOK'
<1> SUFFICES ASSUME TypeOK, [Next]_vars PROVE TypeOK'
  OBVIOUS
<1> USE ConstantsAssumption DEF TypeOK
<1>1. ASSUME NEW r \in Range, NEW c \in Cursor, Add(r, c)
      PROVE queue' \subseteq Entry /\ lastId' \in Nat
  BY <1>1 DEF Add, Entry
<1>2. ASSUME NEW r \in Range, WriteEntry(r) PROVE TypeOK'
  BY <1>1, <1>2 DEF WriteEntry, history
<1>3. ASSUME WriteTags PROVE TypeOK'
  BY <1>3 DEF WriteTags, BatchWriteTags, history, TagStatus
<1>4. ASSUME RequestFails PROVE TypeOK'
  BY <1>4 DEF RequestFails, Fault, store, history
<1>5. ASSUME NEW w \in Worker, NEW entry \in Entry, NEW n \in Nat, Receive(w, entry, n)
      PROVE held' \subseteq HeldJob
  BY <1>5 DEF Receive, HeldJob, Entry, JobPhase
<1>6. ASSUME NEW w \in Worker, NEW entry \in queue, Fetch(w, entry) PROVE TypeOK'
  <2>1. held' \subseteq HeldJob
    BY <1>5, <1>6 DEF Fetch
  <2>2. pel' \subseteq Delivered /\ queue' \subseteq Entry
    BY <1>6 DEF Fetch, Deliver, Delivered
  <2>3. QED
    BY <1>6, <2>1, <2>2 DEF Fetch, history
<1>7. ASSUME NEW w \in Worker, NEW d \in pel, ReclaimIdle(w, d) \/ ReclaimHeld(w, d)
      PROVE TypeOK'
  <2>1. d \in Delivered /\ Reclaim(w, d)
    BY <1>7 DEF ReclaimIdle, ReclaimHeld
  <2>2. held' \subseteq HeldJob
    BY <1>5, <2>1 DEF Reclaim, Delivered
  <2>3. pel' \subseteq Delivered
    BY <2>1 DEF Reclaim, Delivered
  <2>4. QED
    BY <1>7, <2>1, <2>2, <2>3 DEF ReclaimIdle, ReclaimHeld, Reclaim, Fault, history
<1>8. ASSUME NEW h \in held, TagPulled(h) \/ TagPulledUnread(h) PROVE TypeOK'
  <2>1. held' \subseteq HeldJob
    BY <1>8, ToType DEF TagPulled, TagPulledUnread, Pull, JobPhase
  <2>2. tags' \in [Uid -> TagStatus]
    BY <1>8, UidType, SetTagType DEF TagPulled, TagPulledUnread, TagStatus
  <2>3. QED
    BY <1>8, <2>1, <2>2 DEF TagPulled, TagPulledUnread, Pull, Fault, history
<1>9. ASSUME NEW h \in held, TagPulledFails(h) PROVE TypeOK'
  BY <1>9 DEF TagPulledFails, Fault, store, history
<1>10. ASSUME NEW h \in held, NEW c \in Cursor, StartPending(h, c) PROVE TypeOK'
  <2>1. held' \subseteq HeldJob
    BY <1>10 DEF StartPending, HeldJob, JobPhase
  <2>2. QED
    BY <1>10, <2>1 DEF StartPending, Scanning, store
<1>11. ASSUME NEW h \in held, AddFriendFails(h) \/ Finish(h) PROVE TypeOK'
  <2>1. held' \subseteq HeldJob
    BY <1>11, ToType DEF AddFriendFails, Finish, JobPhase
  <2>2. done' \subseteq Range
    BY <1>11, UidType DEF AddFriendFails, Finish
  <2>3. QED
    BY <1>11, <2>1, <2>2 DEF AddFriendFails, Finish, Scanning, store
<1>12. ASSUME NEW h \in held, Ack(h) \/ ResumeAck(h) PROVE TypeOK'
  <2>1. held' \subseteq HeldJob
    BY <1>12, ToType DEF Ack, ResumeAck, JobPhase
  <2>2. QED
    BY <1>12, <2>1 DEF Ack, ResumeAck, Acknowledge, history
<1>13. ASSUME NEW h \in held, Clean(h) \/ CleanAborts(h) \/ CleanRefused(h) PROVE TypeOK'
  <2>1. held' \subseteq HeldJob
    BY <1>13, ToType DEF Clean, CleanAborts, CleanRefused, JobPhase
  <2>2. tags' \in [Uid -> TagStatus] /\ settled' \subseteq Range
    BY <1>13, UidType, SetTagType
    DEF Clean, CleanAborts, CleanRefused, Settle, Outcome, TagStatus
  <2>3. QED
    BY <1>13, <2>1, <2>2 DEF Clean, CleanAborts, CleanRefused, Settle, Fault
<1>14. ASSUME NEW h \in held, CleanTagFails(h) PROVE TypeOK'
  BY <1>14, UidType DEF CleanTagFails, Fault, store
<1>15. ASSUME NEW w \in Worker, Crash(w) PROVE TypeOK'
  <2>1. {h.entry.range : h \in {g \in HeldBy(w) : Unrecorded(g)}} \subseteq Range
    BY UidType DEF HeldBy
  <2>2. QED
    BY <1>15, <2>1 DEF Crash, Fault, store
<1>16. ASSUME NEW w \in Worker, Stop(w) PROVE TypeOK'
  BY <1>16 DEF Stop, Fault, store, history
<1>17. ASSUME NEW h \in held, ResumeAdd(h) PROVE TypeOK'
  <2>1. held' \subseteq HeldJob /\ resumed' \subseteq Range
    BY <1>17, ToType, UidType DEF ResumeAdd, JobPhase
  <2>2. queue' \subseteq Entry /\ lastId' \in Nat
    BY <1>1, <1>17, UidType DEF ResumeAdd, Requeue
  <2>3. QED
    BY <1>17, <2>1, <2>2 DEF ResumeAdd
<1>18. ASSUME NEW h \in held, ResumeTag(h) \/ ResumeTagUnread(h) PROVE TypeOK'
  <2>1. tags' \in [Uid -> TagStatus]
    BY <1>18, UidType, SetTagType DEF ResumeTag, ResumeTagUnread, TagStatus
  <2>2. QED
    BY <1>18, <2>1 DEF ResumeTag, ResumeTagUnread, Resumed, Fault, history
<1>19. CASE UNCHANGED vars
  BY <1>19 DEF vars, store, history
<1>20. QED
  BY <1>2, <1>3, <1>4, <1>6, <1>7, <1>8, <1>9, <1>10, <1>11, <1>12, <1>13, <1>14,
     <1>15, <1>16, <1>17, <1>18, <1>19
  DEF Next, RequestStep, WorkerStep, FaultStep

\* Entries, deliveries, held jobs and tags keep their shape whatever happens.
THEOREM TypeCorrect == Spec => []TypeOK
  BY TypeInit, TypeNext, PTL DEF Spec

----------------------------------------------------------------------------
(* No written job is lost from sight *)

\* What WrittenJobsKept leaves to a held job is left to one whose worker has
\* acknowledged it: any other held job still has its entry.
Kept(r) ==
  \/ \E entry \in queue : entry.range = r
  \/ \E d \in pel : d.entry.range = r
  \/ \E h \in held : h.entry.range = r /\ Unrecorded(h)
  \/ r \in settled \cup dropped

KeptInv == \A r \in written : Kept(r)

LEMMA KeptInit == Init => KeptInv
  BY DEF Init, KeptInv

\* A step that takes nothing away keeps what was kept.
LEMMA KeptFrame ==
  ASSUME KeptInv, written' = written, queue \subseteq queue',
         \A d \in pel : \E e \in pel' : e.entry = d.entry,
         \A h \in held : Unrecorded(h) => h \in held' \/ h.entry.range \in settled' \cup dropped',
         settled \subseteq settled', dropped \subseteq dropped'
  PROVE  KeptInv'
  BY DEF KeptInv, Kept, Unrecorded

\* Acknowledging moves the trace of a job from the consumer group to the worker.
LEMMA KeptAck ==
  ASSUME TypeOK, KeptInv, NEW h \in held, NEW p \in {"AckedFinished", "AckedFailed", "Unqueued"},
         Acknowledge(h.entry), To(h, p),
         UNCHANGED <<written, queue, settled, dropped>>
  PROVE  KeptInv'
<1>1. SUFFICES ASSUME NEW r \in written PROVE Kept(r)'
  BY DEF KeptInv
<1>2. PICK g : g = [h EXCEPT !.phase = p]
  OBVIOUS
<1>3. g \in held' /\ g.entry = h.entry /\ Unrecorded(g)
  BY <1>2 DEF To, TypeOK, HeldJob, Unrecorded
<1>4. CASE r = h.entry.range
  BY <1>3, <1>4 DEF Kept, Unrecorded
<1>5. CASE r # h.entry.range
  BY <1>5 DEF Kept, KeptInv, Acknowledge, To, Unrecorded
<1>6. QED
  BY <1>4, <1>5

LEMMA KeptNext == TypeOK /\ KeptInv /\ [Next]_vars => KeptInv'
<1> SUFFICES ASSUME TypeOK, KeptInv, [Next]_vars PROVE KeptInv'
  OBVIOUS
<1>1. ASSUME NEW r \in Range, WriteEntry(r) PROVE KeptInv'
  <2>1. PICK e : e = [id |-> lastId + 1, range |-> r, cursorStart |-> Start]
    OBVIOUS
  <2>2. /\ queue' = queue \cup {e} /\ e.range = r /\ written' = written \cup {r}
        /\ UNCHANGED <<pel, held, settled, dropped>>
    BY <1>1, <2>1 DEF WriteEntry, Add, history
  <2>3. QED
    BY <2>2 DEF KeptInv, Kept, Unrecorded
<1>2. ASSUME WriteTags \/ RequestFails PROVE KeptInv'
  BY <1>2, KeptFrame DEF WriteTags, RequestFails, store, history
<1>3. ASSUME NEW w \in Worker, NEW entry \in queue, Fetch(w, entry) PROVE KeptInv'
  <2>1. /\ queue' = queue \ {entry} /\ pel' = pel \cup {[entry |-> entry, delivery |-> 1]}
        /\ held \subseteq held' /\ UNCHANGED <<written, settled, dropped>>
    BY <1>3 DEF Fetch, Deliver, Receive, history
  <2>2. \E d \in pel' : d.entry = entry
    <3>1. PICK d : d = [entry |-> entry, delivery |-> 1]
      OBVIOUS
    <3>2. d.entry = entry /\ d \in pel'
      BY <2>1, <3>1
    <3>3. QED
      BY <3>2
  <2>3. QED
    BY <2>1, <2>2 DEF KeptInv, Kept, Unrecorded
<1>4. ASSUME NEW w \in Worker, NEW d \in pel, ReclaimIdle(w, d) \/ ReclaimHeld(w, d)
      PROVE KeptInv'
  <2>1. /\ pel' = (pel \ {d}) \cup {[d EXCEPT !.delivery = @ + 1]}
        /\ held \subseteq held' /\ UNCHANGED <<written, queue, settled, dropped>>
    BY <1>4 DEF ReclaimIdle, ReclaimHeld, Reclaim, Receive, history
  <2>2. \A e \in pel : \E f \in pel' : f.entry = e.entry
    <3>1. PICK f : f = [d EXCEPT !.delivery = @ + 1]
      OBVIOUS
    <3>2. f.entry = d.entry /\ f \in pel'
      BY <2>1, <3>1 DEF TypeOK, Delivered
    <3>3. QED
      BY <2>1, <3>2
  <2>3. QED
    BY <2>1, <2>2, KeptFrame
<1>5. ASSUME NEW h \in held, \/ TagPulled(h) \/ TagPulledUnread(h) \/ TagPulledFails(h)
                            \/ AddFriendFails(h) \/ Finish(h)
                            \/ \E c \in Cursor : StartPending(h, c)
      PROVE KeptInv'
  BY <1>5, KeptFrame
  DEF TagPulled, TagPulledUnread, Pull, TagPulledFails, AddFriendFails, Finish, StartPending, Scanning, To,
      Unrecorded, store, history
<1>6. ASSUME NEW h \in held, Ack(h) PROVE KeptInv'
  BY <1>6, KeptAck DEF Ack, history
<1>7. ASSUME NEW h \in held, ResumeAck(h) PROVE KeptInv'
  BY <1>7, KeptAck DEF ResumeAck, history
<1>8. ASSUME NEW h \in held, \/ Clean(h) \/ CleanAborts(h) \/ CleanRefused(h)
                            \/ CleanTagFails(h)
      PROVE KeptInv'
  BY <1>8, KeptFrame DEF Clean, CleanAborts, CleanRefused, CleanTagFails, Settle, To, store
<1>9. ASSUME NEW w \in Worker, Crash(w) PROVE KeptInv'
  BY <1>9, KeptFrame DEF Crash, store
<1>10. ASSUME NEW w \in Worker, Stop(w) PROVE KeptInv'
  BY <1>10, KeptFrame DEF Stop, store, history
<1>11. ASSUME NEW h \in held, ResumeAdd(h) PROVE KeptInv'
  <2>1. PICK e : e = [id |-> lastId + 1, range |-> h.entry.range, cursorStart |-> h.cursor]
    OBVIOUS
  <2>2. /\ queue' = queue \cup {e} /\ e.range = h.entry.range
        /\ UNCHANGED <<written, pel, settled, dropped>>
        /\ \A g \in held : g # h => g \in held'
    BY <1>11, <2>1 DEF ResumeAdd, Requeue, Add, To
  <2>3. QED
    BY <2>2 DEF KeptInv, Kept, Unrecorded
<1>12. ASSUME NEW h \in held, ResumeTag(h) \/ ResumeTagUnread(h) PROVE KeptInv'
  BY <1>12, KeptFrame DEF ResumeTag, ResumeTagUnread, Resumed, Unrecorded, history
<1>13. CASE UNCHANGED vars
  BY <1>13, KeptFrame DEF vars, store, history
<1>14. QED
  BY <1>1, <1>2, <1>3, <1>4, <1>5, <1>6, <1>7, <1>8, <1>9, <1>10, <1>11, <1>12, <1>13
  DEF Next, RequestStep, WorkerStep, FaultStep

\* Whatever crashes, stops, slow holders and failed writes do, a written job
\* stays in the stream, in the consumer group or with the worker that
\* acknowledged it until its final status stands or that worker fails.
THEOREM WrittenJobsStayKept == Spec => []WrittenJobsKept
<1>1. KeptInv => WrittenJobsKept
  BY DEF KeptInv, Kept, WrittenJobsKept
<1>2. QED
  BY <1>1, KeptInit, KeptNext, TypeCorrect, PTL DEF Spec

----------------------------------------------------------------------------
(* What a Finished verdict is worth *)

\* Success is written for ranges that were scanned or re-enqueued, the jobs
\* about to be tagged are such, and an accepted request has all its tags.
VerdictInv ==
  /\ \A u \in Uid : tags[u] = "Success" => u[1] \in done \cup resumed
  /\ \A h \in held : h.phase \in {"Finished", "AckedFinished"} => h.entry.range \in done
  /\ \A h \in held : h.phase = "Requeued" => h.entry.range \in resumed
  /\ request = "done" => \A r \in Range : tags[<<r, Start>>] # "None"

LEMMA VerdictInit == Init => VerdictInv
  BY DEF Init, VerdictInv

\* update_job_track_info never deletes a tag, and writes Success only if told to.
LEMMA SetTagEffect ==
  ASSUME tags \in [Uid -> TagStatus], NEW u \in Uid, NEW s \in TagStatus \ {"None"},
         NEW d \in TagStatus \ {"None"}, SetTag(u, s, d)
  PROVE  /\ \A v \in Uid : tags[v] # "None" => tags'[v] # "None"
         /\ \A v \in Uid : tags'[v] = "Success" =>
              tags[v] = "Success" \/ (v = u /\ "Success" \in {s, d})
  BY DEF SetTag

LEMMA VerdictNext == TypeOK /\ VerdictInv /\ [Next]_vars => VerdictInv'
<1> SUFFICES ASSUME TypeOK, VerdictInv, [Next]_vars PROVE VerdictInv'
  OBVIOUS
<1> USE ConstantsAssumption DEF VerdictInv
<1>1. ASSUME (\E r \in Range : WriteEntry(r)) \/ RequestFails PROVE VerdictInv'
  BY <1>1 DEF WriteEntry, Add, RequestFails, store, history
<1>2. ASSUME WriteTags PROVE VerdictInv'
  BY <1>2 DEF WriteTags, BatchWriteTags, history, Uid
<1>3. ASSUME NEW w \in Worker,
             \/ \E entry \in queue : Fetch(w, entry)
             \/ \E d \in pel : ReclaimIdle(w, d) \/ ReclaimHeld(w, d)
      PROVE VerdictInv'
  BY <1>3 DEF Fetch, ReclaimIdle, ReclaimHeld, Reclaim, Receive, history
<1>4. ASSUME NEW h \in held, TagPulled(h) \/ TagPulledUnread(h) PROVE VerdictInv'
  <2>1. UidOf(h.entry) \in Uid /\ h \in HeldJob
    BY UidType DEF TypeOK
  <2>2. /\ \A v \in Uid : tags[v] # "None" => tags'[v] # "None"
        /\ \A v \in Uid : tags'[v] = "Success" => tags[v] = "Success"
    BY <1>4, <2>1, SetTagEffect DEF TagPulled, TagPulledUnread, TypeOK, TagStatus
  <2>3. QED
    BY <1>4, <2>1, <2>2 DEF TagPulled, TagPulledUnread, Pull, To, history, HeldJob, Uid
<1>5. ASSUME NEW h \in held, NEW c \in Cursor, StartPending(h, c) PROVE VerdictInv'
  <2>1. h \in HeldJob
    BY DEF TypeOK
  <2>2. QED
    BY <1>5, <2>1 DEF StartPending, Scanning, store, HeldJob
<1>6. ASSUME NEW h \in held, AddFriendFails(h) \/ Finish(h) PROVE VerdictInv'
  <2>1. h \in HeldJob
    BY DEF TypeOK
  <2>2. QED
    BY <1>6, <2>1 DEF AddFriendFails, Finish, Scanning, To, store, HeldJob
<1>7. ASSUME NEW h \in held, Ack(h) \/ ResumeAck(h) PROVE VerdictInv'
  <2>1. h \in HeldJob
    BY DEF TypeOK
  <2>2. QED
    BY <1>7, <2>1 DEF Ack, Ackable, ResumeAck, To, history, HeldJob
<1>8. ASSUME NEW h \in held, Clean(h) \/ CleanAborts(h) \/ CleanRefused(h) PROVE VerdictInv'
  <2>1. UidOf(h.entry) \in Uid /\ h \in HeldJob /\ UidOf(h.entry)[1] = h.entry.range
    BY UidType DEF TypeOK, UidOf
  <2>2. /\ Settle(h) /\ UNCHANGED <<request, done, resumed>>
        /\ \/ held' = held \ {h} \/ To(h, "Failed")
           \/ h.phase # "AckedFailed" /\ To(h, "Finished")
    BY <1>8 DEF Clean, CleanAborts, CleanRefused, Settle
  <2>3. /\ \A v \in Uid : tags[v] # "None" => tags'[v] # "None"
        /\ \A v \in Uid : tags'[v] = "Success" =>
             tags[v] = "Success" \/ (v = UidOf(h.entry) /\ h.phase # "AckedFailed")
    BY <2>1, <2>2, SetTagEffect DEF Settle, Outcome, TypeOK, TagStatus
  <2>4. h.phase # "AckedFailed" => h.entry.range \in done
    BY <2>2 DEF Settle
  <2>5. \A u \in Uid : tags'[u] = "Success" => u[1] \in done \cup resumed
    BY <2>1, <2>3, <2>4
  <2>6. QED
    BY <2>1, <2>2, <2>3, <2>4, <2>5 DEF To, HeldJob, Uid
<1>9. ASSUME NEW h \in held, TagPulledFails(h) \/ CleanTagFails(h) PROVE VerdictInv'
  BY <1>9 DEF TagPulledFails, CleanTagFails, store, history
<1>10. ASSUME NEW w \in Worker, Crash(w) \/ Stop(w) PROVE VerdictInv'
  BY <1>10 DEF Crash, Stop, store, history
<1>11. ASSUME NEW h \in held, ResumeAdd(h) PROVE VerdictInv'
  <2>1. h \in HeldJob
    BY DEF TypeOK
  <2>2. QED
    BY <1>11, <2>1 DEF ResumeAdd, To, HeldJob
<1>12. ASSUME NEW h \in held, ResumeTag(h) \/ ResumeTagUnread(h) PROVE VerdictInv'
  <2>1. UidOf(h.entry) \in Uid /\ UidOf(h.entry)[1] = h.entry.range
    BY UidType DEF TypeOK, UidOf
  <2>2. /\ \A v \in Uid : tags[v] # "None" => tags'[v] # "None"
        /\ \A v \in Uid : tags'[v] = "Success" => tags[v] = "Success" \/ v = UidOf(h.entry)
    BY <1>12, <2>1, SetTagEffect DEF ResumeTag, ResumeTagUnread, TypeOK, TagStatus
  <2>3. h.entry.range \in resumed
    BY <1>12 DEF ResumeTag, ResumeTagUnread, Resumed
  <2>4. QED
    BY <1>12, <2>1, <2>2, <2>3 DEF ResumeTag, ResumeTagUnread, Resumed, history, Uid
<1>13. CASE UNCHANGED vars
  BY <1>13 DEF vars, store, history
<1>14. QED
  BY <1>1, <1>2, <1>3, <1>4, <1>5, <1>6, <1>7, <1>8, <1>9, <1>10, <1>11, <1>12, <1>13
  DEF Next, RequestStep, WorkerStep, FaultStep

\* A client with a token who is told "Finished" has the results of every range
\* but those a stopping worker had put back into the stream.
THEOREM FinishedVerdictIsSound == Spec => []VerdictSound
<1>1. VerdictInv => VerdictSound
  <2>1. SUFFICES ASSUME VerdictInv, request = "done", Verdict = "Finished",
                        NEW r \in Range
                 PROVE r \in done \cup resumed
    BY DEF VerdictSound
  <2>2. <<r, Start>> \in Uid /\ tags[<<r, Start>>] # "None"
    BY <2>1, ConstantsAssumption DEF VerdictInv, Uid
  <2>3. tags[<<r, Start>>] = "Success"
    BY <2>1, <2>2 DEF Verdict, Tagged
  <2>4. QED
    BY <2>1, <2>2, <2>3 DEF VerdictInv
<1>2. QED
  BY <1>1, VerdictInit, VerdictNext, TypeCorrect, PTL DEF Spec
----------------------------------------------------------------------------
(* A job being scanned can be recovered *)

\* What ScannedIsRecoverable leaves to another holder is left to one that has
\* acknowledged the entry: as long as nobody has, the entry is there.
Recoverable(entry) ==
  \/ InPel(entry)
  \/ entry.range \in settled \cup resumed \cup dropped
  \/ \E g \in held : g.entry = entry /\ Unrecorded(g)

Scanned(h) == h.phase \in {"Received", "Pulled", "Pending"}

RecoverInv == \A h \in held : Scanned(h) => Recoverable(h.entry)

\* A step that acknowledges nothing keeps every trace of an entry.
LEMMA RecoverFrame ==
  ASSUME RecoverInv,
         \A d \in pel : \E e \in pel' : e.entry = d.entry,
         \A g \in held : Unrecorded(g) =>
           g \in held' \/ g.entry.range \in settled' \cup resumed' \cup dropped',
         settled \subseteq settled', resumed \subseteq resumed', dropped \subseteq dropped',
         \A h \in held' : Scanned(h) =>
           InPel(h.entry)' \/ \E k \in held : Scanned(k) /\ k.entry = h.entry
  PROVE  RecoverInv'
<1>1. ASSUME NEW k \in held, Scanned(k) PROVE Recoverable(k.entry)'
  <2>1. Recoverable(k.entry)
    BY <1>1 DEF RecoverInv
  <2>2. CASE InPel(k.entry)
    BY <2>2 DEF InPel, Recoverable
  <2>3. CASE k.entry.range \in settled \cup resumed \cup dropped
    BY <2>3 DEF Recoverable
  <2>4. CASE \E g \in held : g.entry = k.entry /\ Unrecorded(g)
    BY <2>4 DEF Recoverable, Unrecorded
  <2>5. QED
    BY <2>1, <2>2, <2>3, <2>4 DEF Recoverable
<1>2. SUFFICES ASSUME NEW h \in held', Scanned(h) PROVE Recoverable(h.entry)'
  BY DEF RecoverInv, Scanned
<1>3. CASE InPel(h.entry)'
  BY <1>3 DEF Recoverable
<1>4. CASE \E k \in held : Scanned(k) /\ k.entry = h.entry
  BY <1>1, <1>4
<1>5. QED
  BY <1>2, <1>3, <1>4

\* Whoever acknowledges an entry is the trace that is left of it.
LEMMA RecoverAck ==
  ASSUME TypeOK, RecoverInv, NEW h \in held,
         NEW p \in {"AckedFinished", "AckedFailed", "Unqueued"},
         Acknowledge(h.entry), To(h, p), UNCHANGED <<settled, resumed, dropped>>
  PROVE  RecoverInv'
<1>1. SUFFICES ASSUME NEW k \in held', Scanned(k) PROVE Recoverable(k.entry)'
  BY DEF RecoverInv, Scanned
<1>2. PICK g : g = [h EXCEPT !.phase = p]
  OBVIOUS
<1>3. g \in held' /\ g.entry = h.entry /\ Unrecorded(g) /\ ~Scanned(g)
  BY <1>2 DEF To, TypeOK, HeldJob, Unrecorded, Scanned
<1>4. CASE k.entry = h.entry
  BY <1>3, <1>4 DEF Recoverable, Unrecorded
<1>5. CASE k.entry # h.entry
  <2>1. k \in held /\ Recoverable(k.entry)
    BY <1>1, <1>2, <1>3 DEF To, RecoverInv
  <2>2. \A e \in held : e.entry = k.entry => e \in held'
    BY <1>5 DEF To
  <2>3. QED
    BY <1>5, <2>1, <2>2 DEF Recoverable, InPel, Acknowledge, Unrecorded
<1>6. QED
  BY <1>4, <1>5

LEMMA RecoverNext == TypeOK /\ RecoverInv /\ [Next]_vars => RecoverInv'
<1> SUFFICES ASSUME TypeOK, RecoverInv, [Next]_vars PROVE RecoverInv'
  OBVIOUS
<1>1. ASSUME \/ \E r \in Range : WriteEntry(r)
             \/ WriteTags \/ RequestFails \/ \E w \in Worker : Stop(w)
      PROVE  RecoverInv'
  BY <1>1, RecoverFrame DEF WriteEntry, WriteTags, RequestFails, Stop, store, history
<1>2. ASSUME NEW w \in Worker, NEW entry \in queue, Fetch(w, entry) PROVE RecoverInv'
  <2>1. PICK d : d = [entry |-> entry, delivery |-> 1]
    OBVIOUS
  <2>2. d.entry = entry /\ pel' = pel \cup {d}
    BY <1>2, <2>1 DEF Fetch, Deliver
  <2>3. \A h \in held' : h \in held \/ h.entry = entry
    BY <1>2 DEF Fetch, Receive
  <2>4. held \subseteq held' /\ UNCHANGED <<settled, resumed, dropped>>
    BY <1>2 DEF Fetch, Receive, history
  <2>5. QED
    BY <2>2, <2>3, <2>4, RecoverFrame DEF InPel
<1>3. ASSUME NEW w \in Worker, NEW d \in pel, ReclaimIdle(w, d) \/ ReclaimHeld(w, d)
      PROVE  RecoverInv'
  <2>1. PICK f : f = [d EXCEPT !.delivery = @ + 1]
    OBVIOUS
  <2>2. f.entry = d.entry /\ pel' = (pel \ {d}) \cup {f}
    BY <1>3, <2>1 DEF ReclaimIdle, ReclaimHeld, Reclaim, TypeOK, Delivered
  <2>3. \A h \in held' : h \in held \/ h.entry = d.entry
    BY <1>3 DEF ReclaimIdle, ReclaimHeld, Reclaim, Receive
  <2>4. held \subseteq held' /\ UNCHANGED <<settled, resumed, dropped>>
    BY <1>3 DEF ReclaimIdle, ReclaimHeld, Reclaim, Receive, history
  <2>5. QED
    BY <2>2, <2>3, <2>4, RecoverFrame DEF InPel
<1>4. ASSUME NEW h \in held, \/ TagPulled(h) \/ TagPulledUnread(h) \/ TagPulledFails(h)
                            \/ AddFriendFails(h) \/ Finish(h)
                            \/ \E c \in Cursor : StartPending(h, c)
      PROVE  RecoverInv'
  <2>1. /\ h \in HeldJob /\ Scanned(h) /\ ~Unrecorded(h)
        /\ UNCHANGED <<pel, settled, resumed, dropped>>
    BY <1>4 DEF TagPulled, TagPulledUnread, Pull, TagPulledFails, AddFriendFails, Finish,
                StartPending, Scanning, Scanned, Unrecorded, store, history, TypeOK
  <2>2. \A k \in held' : k \in held \/ k.entry = h.entry
    BY <1>4, <2>1 DEF TagPulled, TagPulledUnread, Pull, TagPulledFails, AddFriendFails, Finish,
                      StartPending, To, HeldJob
  <2>3. \A k \in held : k # h => k \in held'
    BY <1>4 DEF TagPulled, TagPulledUnread, Pull, TagPulledFails, AddFriendFails, Finish,
                StartPending, To
  <2>4. QED
    BY <2>1, <2>2, <2>3, RecoverFrame DEF Scanned, Unrecorded
<1>5. ASSUME NEW h \in held, Ack(h) PROVE RecoverInv'
  BY <1>5, RecoverAck DEF Ack, history
<1>6. ASSUME NEW h \in held, ResumeAck(h) PROVE RecoverInv'
  BY <1>6, RecoverAck DEF ResumeAck, history
<1>7. ASSUME NEW h \in held, \/ Clean(h) \/ CleanAborts(h) \/ CleanRefused(h) \/ CleanTagFails(h)
                            \/ ResumeAdd(h) \/ ResumeTag(h) \/ ResumeTagUnread(h)
      PROVE  RecoverInv'
  <2>1. h \in HeldJob /\ pel' = pel
    BY <1>7 DEF Clean, CleanAborts, CleanRefused, CleanTagFails, Settle, ResumeAdd, ResumeTag,
                ResumeTagUnread, Resumed, store, TypeOK
  <2>2. /\ settled \subseteq settled' /\ resumed \subseteq resumed' /\ dropped \subseteq dropped'
        /\ Unrecorded(h) => h.entry.range \in settled' \cup resumed' \cup dropped'
    BY <1>7 DEF Clean, CleanAborts, CleanRefused, CleanTagFails, Settle, ResumeAdd, ResumeTag,
                ResumeTagUnread, Resumed, Unrecorded, history
  <2>3. \A k \in held : k # h => k \in held'
    BY <1>7 DEF Clean, CleanAborts, CleanRefused, CleanTagFails, ResumeAdd, ResumeTag,
                ResumeTagUnread, Resumed, To
  <2>4. \A k \in held' : Scanned(k) => k \in held
    BY <1>7, <2>1 DEF Clean, CleanAborts, CleanRefused, CleanTagFails, ResumeAdd, ResumeTag,
                      ResumeTagUnread, Resumed, To, Scanned, HeldJob
  <2>5. QED
    BY <2>1, <2>2, <2>3, <2>4, RecoverFrame DEF Scanned, Unrecorded
<1>8. ASSUME NEW w \in Worker, Crash(w) PROVE RecoverInv'
  <2>1. /\ held' \subseteq held /\ UNCHANGED <<pel, settled, resumed>> /\ dropped \subseteq dropped'
        /\ \A g \in held : Unrecorded(g) => g \in held' \/ g.entry.range \in dropped'
    BY <1>8 DEF Crash, store
  <2>2. QED
    BY <2>1, RecoverFrame DEF Scanned, Unrecorded
<1>9. CASE UNCHANGED vars
  BY <1>9, RecoverFrame DEF vars, store, history
<1>10. QED
  BY <1>1, <1>2, <1>3, <1>4, <1>5, <1>6, <1>7, <1>8, <1>9
  DEF Next, RequestStep, WorkerStep, FaultStep

\* A worker that dies while it scans leaves an entry to be claimed, unless another
\* that had the job as well acknowledged it, and then that one knows of it.
THEOREM ScannedJobsCanBeRecovered == Spec => []ScannedIsRecoverable
<1>1. Init => RecoverInv
  BY DEF Init, RecoverInv
<1>2. RecoverInv => ScannedIsRecoverable
  BY DEF RecoverInv, Recoverable, Scanned, Unrecorded, ScannedIsRecoverable
<1>3. QED
  BY <1>1, <1>2, RecoverNext, TypeCorrect, PTL DEF Spec
----------------------------------------------------------------------------
(* The tags keep what a client is promised *)

\* No worker stops, no entry is claimed from a live one, no job is done, or found
\* idle, before the tags of its request are written, and no job that was tagged
\* Success becomes a failed one because its friend could not be removed.
Orderly == Hazards \cap {"stop", "claim", "late", "refuse"} = {}

Traces == queue \cup {d.entry : d \in pel} \cup {h.entry : h \in held}
Acked(h) == h.phase \in {"AckedFinished", "AckedFailed"}

\* Then a range leaves one trace only: one entry, which waits in the stream, or
\* was delivered and is held by one worker, or waits to be claimed.
TraceInv ==
  /\ stopping = {}
  /\ \A h \in held : h.phase \notin {"Unqueued", "Requeued"}
  /\ \A e \in Traces : e.cursorStart = Start /\ e.range \in written
  /\ \A e, f \in Traces : e.range = f.range => e = f
  /\ \A d \in pel : d.entry \notin queue
  /\ \A h \in held : h.entry \notin queue
  /\ \A h, g \in held : h.entry = g.entry => h = g
  /\ \A h \in held : Acked(h) => ~InPel(h.entry)

Tag(r) == tags[<<r, Start>>]

\* A final tag goes with an acknowledged entry, and the worker that wrote it, if
\* it has the job still, will write nothing else.
TagInv ==
  /\ \A r \in Range \ written : Tag(r) = "None"
  /\ request = "writing" => /\ \A r \in Range : Tag(r) \in {"None", "Queueing"}
                            /\ \A e \in queue : Tag(e.range) = "None"
  /\ \A h \in held :
       /\ h.phase = "Received" /\ request = "writing" => Tag(h.entry.range) = "None"
       /\ h.phase # "Received" => Tag(h.entry.range) # "None"
       /\ Tag(h.entry.range) = "Success" => h.phase \in {"Finished", "AckedFinished"}
       /\ Tag(h.entry.range) = "Failed" => h.phase \in {"Failed", "AckedFailed"}
       /\ Acked(h) => request # "writing"
  /\ \A e \in queue : Tag(e.range) \notin {"Success", "Failed"}
  /\ \A d \in pel : Tag(d.entry.range) \notin {"Success", "Failed"}

PromiseInv == TraceInv /\ TagInv

LEMMA OnlyOrderly ==
  ASSUME Orderly, TraceInv, [Next]_vars
  PROVE  \/ (\E r \in Range : WriteEntry(r)) \/ WriteTags \/ RequestFails
         \/ \E w \in Worker : \/ \E entry \in queue : Fetch(w, entry)
                              \/ \E d \in pel : ReclaimIdle(w, d)
                              \/ Crash(w)
         \/ \E h \in held :
              \/ TagPulled(h) \/ (\E c \in Cursor : StartPending(h, c)) \/ AddFriendFails(h)
              \/ Finish(h) \/ Ack(h) \/ Clean(h)
              \/ TagPulledUnread(h) \/ TagPulledFails(h) \/ CleanAborts(h) \/ CleanTagFails(h)
         \/ UNCHANGED vars
<1>1. \A w \in Worker : ~Stop(w) /\ \A d \in pel : ~ReclaimHeld(w, d)
  BY DEF Orderly, Stop, ReclaimHeld, Fault
<1>2. \A h \in held : /\ ~ResumeAck(h) /\ ~ResumeAdd(h) /\ ~ResumeTag(h) /\ ~ResumeTagUnread(h)
                      /\ ~CleanRefused(h)
  BY DEF TraceInv, ResumeAck, ResumeAdd, ResumeTag, ResumeTagUnread, Resumed,
         Orderly, CleanRefused, Fault
<1>3. QED
  BY <1>1, <1>2 DEF Next, RequestStep, WorkerStep, FaultStep

\* What a step does to one held job, which keeps its entry.
LEMMA TraceOfJob ==
  ASSUME TraceInv, NEW h \in held, NEW g, g.entry = h.entry,
         g.phase \notin {"Unqueued", "Requeued"},
         held' \subseteq (held \ {h}) \cup {g},
         UNCHANGED <<queue, written, stopping>>, pel' \subseteq pel,
         Acked(g) => Acked(h) \/ ~InPel(h.entry)'
  PROVE  TraceInv'
<1> USE DEF TraceInv
<1>1. \A k \in held' : k \in held \/ k = g
  OBVIOUS
<1>2. Traces' \subseteq Traces
  BY <1>1 DEF Traces
<1>3. \A k \in held' : k.entry \notin queue' /\ k.phase \notin {"Unqueued", "Requeued"}
  BY <1>1
<1>4. \A j, k \in held' : j.entry = k.entry => j = k
  BY <1>1
<1>5. \A k \in held' : Acked(k) => ~InPel(k.entry)'
  <2>1. \A e : InPel(e)' => InPel(e)
    BY DEF InPel
  <2>2. QED
    BY <1>1, <2>1
<1>6. QED
  BY <1>2, <1>3, <1>4, <1>5 DEF Acked

LEMMA ToKeepsEntry ==
  ASSUME TypeOK, NEW h \in held, NEW p \in JobPhase, To(h, p)
  PROVE  \E g : g.entry = h.entry /\ g.phase = p /\ held' = (held \ {h}) \cup {g}
<1>1. PICK g : g = [h EXCEPT !.phase = p]
  OBVIOUS
<1>2. g.entry = h.entry /\ g.phase = p
  BY <1>1 DEF TypeOK, HeldJob
<1>3. QED
  BY <1>1, <1>2 DEF To

LEMMA TraceNext == Orderly /\ TypeOK /\ TraceInv /\ [Next]_vars => TraceInv'
<1> SUFFICES ASSUME Orderly, TypeOK, TraceInv, [Next]_vars PROVE TraceInv'
  OBVIOUS
<1>1. ASSUME NEW r \in Range, WriteEntry(r) PROVE TraceInv'
  <2>1. PICK e : e = [id |-> lastId + 1, range |-> r, cursorStart |-> Start]
    OBVIOUS
  <2>2. e.range = r /\ e.cursorStart = Start
    BY <2>1
  <2>3. queue' = queue \cup {e} /\ written' = written \cup {r} /\ r \notin written
    BY <1>1, <2>1 DEF WriteEntry, Add
  <2>4. UNCHANGED <<pel, held, stopping>>
    BY <1>1 DEF WriteEntry
  <2>5. Traces' = Traces \cup {e} /\ \A f \in Traces : f.range # r /\ f # e
    BY <2>2, <2>3, <2>4 DEF Traces, TraceInv
  <2>6. \A d \in pel : d.entry # e
    BY <2>5 DEF Traces
  <2>7. \A h \in held : h.entry # e
    BY <2>5 DEF Traces
  <2>8. \A k, f \in Traces' : k.range = f.range => k = f
    BY <2>2, <2>5 DEF TraceInv
  <2>9. \A k \in Traces' : k.cursorStart = Start /\ k.range \in written'
    BY <2>2, <2>3, <2>5 DEF TraceInv
  <2>10. QED
    BY <2>3, <2>4, <2>6, <2>7, <2>8, <2>9 DEF TraceInv, InPel, Acked
<1>2. ASSUME WriteTags \/ RequestFails \/ UNCHANGED vars PROVE TraceInv'
  <2>1. UNCHANGED <<queue, pel, held, stopping, written>>
    BY <1>2 DEF WriteTags, RequestFails, vars, store
  <2>2. QED
    BY <2>1 DEF TraceInv, Traces, InPel, Acked
<1>3. ASSUME NEW w \in Worker, NEW entry \in queue, Fetch(w, entry) PROVE TraceInv'
  <2>1. PICK d : d = [entry |-> entry, delivery |-> 1]
    OBVIOUS
  <2>2. PICK h : h = [worker |-> w, entry |-> entry, delivery |-> 1,
                      cursor |-> entry.cursorStart, phase |-> "Received"]
    OBVIOUS
  <2>3. d.entry = entry /\ h.entry = entry /\ h.phase = "Received"
    BY <2>1, <2>2
  <2>4. /\ queue' = queue \ {entry} /\ pel' = pel \cup {d} /\ held' = held \cup {h}
        /\ UNCHANGED <<stopping, written>>
    BY <1>3, <2>1, <2>2 DEF Fetch, Deliver, Receive
  <2>5. Traces' \subseteq Traces
    BY <2>3, <2>4 DEF Traces
  <2>6. (\A c \in pel : c.entry # entry) /\ \A k \in held : k.entry # entry
    BY DEF TraceInv
  <2>7. \A k \in held : Acked(k) => ~InPel(k.entry)'
    BY <2>3, <2>4, <2>6 DEF TraceInv, InPel
  <2>8. QED
    BY <2>3, <2>4, <2>5, <2>6, <2>7 DEF TraceInv, Acked
<1>4. ASSUME NEW w \in Worker, NEW d \in pel, ReclaimIdle(w, d) PROVE TraceInv'
  <2>1. PICK f : f = [d EXCEPT !.delivery = @ + 1]
    OBVIOUS
  <2>2. PICK h : h = [worker |-> w, entry |-> d.entry, delivery |-> d.delivery + 1,
                      cursor |-> d.entry.cursorStart, phase |-> "Received"]
    OBVIOUS
  <2>3. f.entry = d.entry /\ h.entry = d.entry /\ h.phase = "Received"
    BY <2>1, <2>2 DEF TypeOK, Delivered
  <2>4. /\ pel' = (pel \ {d}) \cup {f} /\ held' = held \cup {h}
        /\ UNCHANGED <<queue, stopping, written>>
    BY <1>4, <2>1, <2>2 DEF ReclaimIdle, Reclaim, Receive
  <2>5. Traces' \subseteq Traces
    BY <2>3, <2>4 DEF Traces
  <2>6. d.entry \notin queue /\ \A k \in held : k.entry # d.entry
    BY <1>4 DEF TraceInv, ReclaimIdle, Idle, HeldBySomeone
  <2>7. \A k \in held : Acked(k) => ~InPel(k.entry)'
    BY <2>3, <2>4, <2>6 DEF TraceInv, InPel
  <2>8. \A c \in pel' : c.entry \notin queue'
    BY <2>3, <2>4, <2>6 DEF TraceInv
  <2>9. QED
    BY <2>3, <2>4, <2>5, <2>6, <2>7, <2>8 DEF TraceInv, Acked
<1>5. ASSUME NEW h \in held, \/ TagPulled(h) \/ TagPulledUnread(h) \/ AddFriendFails(h)
                            \/ Finish(h) \/ \E c \in Cursor : StartPending(h, c)
      PROVE  TraceInv'
  <2>1. UNCHANGED <<queue, pel, stopping, written>>
    BY <1>5 DEF TagPulled, TagPulledUnread, Pull, AddFriendFails, Finish, StartPending, Scanning, store
  <2>2. PICK g : /\ g.entry = h.entry /\ g.phase \in {"Pulled", "Failed", "Finished", "Pending"}
                 /\ held' = (held \ {h}) \cup {g}
    <3>1. h \in HeldJob
      BY DEF TypeOK
    <3>2. QED
      BY <1>5, <3>1 DEF TagPulled, TagPulledUnread, Pull, AddFriendFails, Finish, StartPending,
                        To, HeldJob
  <2>3. QED
    BY <2>1, <2>2, TraceOfJob DEF Acked
<1>6. ASSUME NEW h \in held, Ack(h) PROVE TraceInv'
  <2>1. PICK g : /\ g.entry = h.entry /\ g.phase \in {"AckedFailed", "AckedFinished"}
                 /\ held' = (held \ {h}) \cup {g}
    <3>1. PICK p \in {"AckedFailed", "AckedFinished"} : To(h, p)
      BY <1>6 DEF Ack
    <3>2. p \in JobPhase
      BY <3>1 DEF JobPhase
    <3>3. QED
      BY <3>1, <3>2, ToKeepsEntry
  <2>2. pel' \subseteq pel /\ ~InPel(h.entry)' /\ UNCHANGED <<queue, stopping, written>>
    BY <1>6 DEF Ack, Acknowledge, InPel
  <2>3. QED
    BY <2>1, <2>2, TraceOfJob
<1>7. ASSUME NEW h \in held, CleanAborts(h) PROVE TraceInv'
  <2>1. PICK g : /\ g.entry = h.entry /\ g.phase \in {"Failed", "Finished"}
                 /\ held' = (held \ {h}) \cup {g}
    <3>1. PICK p \in {"Failed", "Finished"} : To(h, p)
      BY <1>7 DEF CleanAborts
    <3>2. p \in JobPhase
      BY <3>1 DEF JobPhase
    <3>3. QED
      BY <3>1, <3>2, ToKeepsEntry
  <2>2. UNCHANGED <<queue, pel, stopping, written>>
    BY <1>7 DEF CleanAborts, Settle
  <2>3. QED
    BY <2>1, <2>2, TraceOfJob DEF Acked
<1>8. ASSUME held' \subseteq held, stopping' \subseteq stopping,
             UNCHANGED <<queue, pel, written>>
      PROVE  TraceInv'
  <2>1. Traces' \subseteq Traces
    BY <1>8 DEF Traces
  <2>2. QED
    BY <1>8, <2>1 DEF TraceInv, InPel, Acked
<1>9. ASSUME \/ \E h \in held : TagPulledFails(h) \/ Clean(h) \/ CleanTagFails(h)
             \/ \E w \in Worker : Crash(w)
      PROVE  TraceInv'
  BY <1>8, <1>9 DEF TagPulledFails, Clean, Settle, CleanTagFails, Crash, store
<1>10. QED
  BY <1>1, <1>2, <1>3, <1>4, <1>5, <1>6, <1>7, <1>9, OnlyOrderly

\* A held job is the only one of its range.
LEMMA OwnRange ==
  ASSUME TypeOK, TraceInv, NEW h \in held
  PROVE  /\ h.entry.range \in Range /\ UidOf(h.entry) = <<h.entry.range, Start>>
         /\ \A k \in held : k # h => k.entry.range # h.entry.range
         /\ \A e \in queue : e.range # h.entry.range
         /\ \A d \in pel : d.entry.range = h.entry.range => ~Acked(h)
<1>1. h.entry \in Traces
  BY DEF Traces
<1>2. h.entry.range \in Range /\ UidOf(h.entry) = <<h.entry.range, Start>>
  BY <1>1 DEF TypeOK, HeldJob, Entry, TraceInv, UidOf
<1>3. \A k \in held : k.entry.range = h.entry.range => k = h
  <2>1. \A k \in held : k.entry \in Traces
    BY DEF Traces
  <2>2. QED
    BY <1>1, <2>1 DEF TraceInv
<1>4. \A e \in queue : e.range = h.entry.range => e = h.entry
  BY <1>1 DEF TraceInv, Traces
<1>5. \A d \in pel : d.entry.range = h.entry.range => d.entry = h.entry
  <2>1. \A d \in pel : d.entry \in Traces
    BY DEF Traces
  <2>2. QED
    BY <1>1, <2>1 DEF TraceInv
<1>6. QED
  BY <1>2, <1>3, <1>4, <1>5 DEF TraceInv, InPel

LEMMA SetTagOfJob ==
  ASSUME TypeOK, TraceInv, NEW h \in held, NEW s, NEW default, SetTag(UidOf(h.entry), s, default)
  PROVE  /\ Tag(h.entry.range)' = IF Tag(h.entry.range) = "None" THEN default ELSE s
         /\ \A r \in Range : r # h.entry.range => Tag(r)' = Tag(r)
<1>1. UidOf(h.entry) = <<h.entry.range, Start>> /\ h.entry.range \in Range
  BY OwnRange
<1>2. \A r \in Range : <<r, Start>> \in Uid
  BY ConstantsAssumption DEF Uid
<1>3. QED
  BY <1>1, <1>2 DEF SetTag, Tag, TypeOK

LEMMA TracesAreWritten ==
  ASSUME TypeOK
  PROVE  /\ \A e \in queue : e.range \in Range
         /\ \A d \in pel : d.entry \in Entry /\ d.entry.range \in Range
         /\ \A h \in held : h.entry.range \in Range
  BY DEF TypeOK, Delivered, HeldJob, Entry

\* What a step that sets no tag does to one held job.
LEMMA TagOfJob ==
  ASSUME TypeOK, TagInv, NEW h \in held, NEW g, g.entry = h.entry,
         held' \subseteq (held \ {h}) \cup {g}, pel' \subseteq pel,
         UNCHANGED <<tags, queue, written, request>>,
         h.phase # "Received", g.phase # "Received", Acked(g) => request # "writing",
         Tag(h.entry.range) = "Success" => g.phase \in {"Finished", "AckedFinished"},
         Tag(h.entry.range) = "Failed" => g.phase \in {"Failed", "AckedFailed"}
  PROVE  TagInv'
<1>1. \A r : Tag(r)' = Tag(r)
  BY DEF Tag
<1>2. \A k \in held' : k \in held \/ k = g
  OBVIOUS
<1>3. QED
  BY <1>1, <1>2 DEF TagInv, Acked

\* What a worker does to the tag of its job; a final one leaves nothing to claim.
LEMMA TagSetOfJob ==
  ASSUME TypeOK, TraceInv, TagInv, NEW h \in held, NEW g, g.entry = h.entry,
         held' \subseteq (held \ {h}) \cup {g},
         UNCHANGED <<queue, pel, written, request>>,
         NEW s, NEW default, SetTag(UidOf(h.entry), s, default),
         g.phase \in {"Pulled", "Finished", "Failed"}, Tag(h.entry.range)' # "None",
         request = "writing" => Tag(h.entry.range)' = "Queueing",
         Tag(h.entry.range)' \in {"Success", "Failed"} => Acked(h),
         Tag(h.entry.range)' = "Success" => g.phase = "Finished",
         Tag(h.entry.range)' = "Failed" => g.phase = "Failed"
  PROVE  TagInv'
<1> DEFINE own == h.entry.range
<1>1. own \in Range /\ own \in written /\ \A r \in Range : r # own => Tag(r)' = Tag(r)
  <2>1. h.entry \in Traces
    BY DEF Traces
  <2>2. QED
    BY <2>1, OwnRange, SetTagOfJob DEF TraceInv
<1>2. \A k \in held' : k = g \/ (k \in held /\ k.entry.range # own)
  BY OwnRange
<1>3. \A e \in queue : Tag(e.range)' = Tag(e.range)
  BY <1>1, OwnRange, TracesAreWritten
<1>4. \A d \in pel : Tag(d.entry.range)' = Tag(d.entry.range) \/ (d.entry.range = own /\ ~Acked(h))
  BY <1>1, OwnRange, TracesAreWritten
<1>5. \A k \in held' : k = g \/ (k \in held /\ Tag(k.entry.range)' = Tag(k.entry.range))
  BY <1>1, <1>2, TracesAreWritten
<1>6. \A r \in Range \ written' : Tag(r)' = "None"
  BY <1>1 DEF TagInv
<1>7. \A d \in pel' : Tag(d.entry.range)' \notin {"Success", "Failed"}
  BY <1>4 DEF TagInv
<1>8. request' = "writing" => \A r \in Range : Tag(r)' \in {"None", "Queueing"}
  BY <1>1 DEF TagInv
<1>9. \A e \in queue' : /\ request' = "writing" => Tag(e.range)' = "None"
                        /\ Tag(e.range)' \notin {"Success", "Failed"}
  BY <1>3 DEF TagInv
<1>10. \A k \in held' :
         /\ k.phase = "Received" /\ request' = "writing" => Tag(k.entry.range)' = "None"
         /\ k.phase # "Received" => Tag(k.entry.range)' # "None"
         /\ Tag(k.entry.range)' = "Success" => k.phase \in {"Finished", "AckedFinished"}
         /\ Tag(k.entry.range)' = "Failed" => k.phase \in {"Failed", "AckedFailed"}
         /\ Acked(k) => request' # "writing"
  BY <1>5 DEF TagInv, Acked
<1>11. QED
  BY <1>6, <1>7, <1>8, <1>9, <1>10 DEF TagInv, Acked

LEMMA TagNext == Orderly /\ TypeOK /\ TraceInv /\ TagInv /\ [Next]_vars => TagInv'
<1> SUFFICES ASSUME Orderly, TypeOK, TraceInv, TagInv, [Next]_vars PROVE TagInv'
  OBVIOUS
<1>1. ASSUME NEW r \in Range, WriteEntry(r) PROVE TagInv'
  <2>1. PICK e : e.range = r /\ queue' = queue \cup {e}
    <3>1. PICK e : e = [id |-> lastId + 1, range |-> r, cursorStart |-> Start]
      OBVIOUS
    <3>2. e.range = r
      BY <3>1
    <3>3. QED
      BY <1>1, <3>1, <3>2 DEF WriteEntry, Add
  <2>2. /\ UNCHANGED <<tags, pel, held, request>> /\ written' = written \cup {r}
        /\ r \notin written /\ request = "writing"
    BY <1>1 DEF WriteEntry
  <2>3. \A q : Tag(q)' = Tag(q)
    BY <2>2 DEF Tag
  <2>4. Tag(r) = "None"
    BY <2>2 DEF TagInv
  <2>5. QED
    BY <2>1, <2>2, <2>3, <2>4 DEF TagInv, Acked
<1>2. ASSUME WriteTags PROVE TagInv'
  <2>1. \A r \in Range : Tag(r)' = "Queueing"
    BY <1>2, ConstantsAssumption DEF WriteTags, BatchWriteTags, Tag, Uid
  <2>2. /\ UNCHANGED <<queue, pel, held, written>> /\ request' = "done" /\ written = Range
    BY <1>2 DEF WriteTags
  <2>3. QED
    BY <2>1, <2>2, TracesAreWritten DEF TagInv, Acked
<1>3. ASSUME RequestFails \/ UNCHANGED vars PROVE TagInv'
  <2>1. UNCHANGED <<queue, pel, held, written, tags>> /\ request' \in {request, "failed"}
    BY <1>3 DEF RequestFails, vars, store
  <2>2. \A r : Tag(r)' = Tag(r)
    BY <2>1 DEF Tag
  <2>3. QED
    BY <2>1, <2>2 DEF TagInv, Acked
<1>4. ASSUME NEW w \in Worker, NEW entry \in queue, Fetch(w, entry) PROVE TagInv'
  <2>1. PICK d : d = [entry |-> entry, delivery |-> 1]
    OBVIOUS
  <2>2. PICK h : h = [worker |-> w, entry |-> entry, delivery |-> 1,
                      cursor |-> entry.cursorStart, phase |-> "Received"]
    OBVIOUS
  <2>3. d.entry = entry /\ h.entry = entry /\ h.phase = "Received"
    BY <2>1, <2>2
  <2>4. /\ queue' = queue \ {entry} /\ pel' = pel \cup {d} /\ held' = held \cup {h}
        /\ UNCHANGED <<tags, written, request>>
    BY <1>4, <2>1, <2>2 DEF Fetch, Deliver, Receive
  <2>5. \A r : Tag(r)' = Tag(r)
    BY <2>4 DEF Tag
  <2>6. /\ Tag(entry.range) \notin {"Success", "Failed"}
        /\ request = "writing" => Tag(entry.range) = "None"
    BY DEF TagInv
  <2>7. QED
    BY <2>3, <2>4, <2>5, <2>6 DEF TagInv, Acked
<1>5. ASSUME NEW w \in Worker, NEW d \in pel, ReclaimIdle(w, d) PROVE TagInv'
  <2>1. PICK f : f = [d EXCEPT !.delivery = @ + 1]
    OBVIOUS
  <2>2. PICK h : h = [worker |-> w, entry |-> d.entry, delivery |-> d.delivery + 1,
                      cursor |-> d.entry.cursorStart, phase |-> "Received"]
    OBVIOUS
  <2>3. f.entry = d.entry /\ h.entry = d.entry /\ h.phase = "Received"
    BY <2>1, <2>2 DEF TypeOK, Delivered
  <2>4. /\ pel' = (pel \ {d}) \cup {f} /\ held' = held \cup {h}
        /\ UNCHANGED <<queue, tags, written, request>>
    BY <1>5, <2>1, <2>2 DEF ReclaimIdle, Reclaim, Receive
  <2>5. \A r : Tag(r)' = Tag(r)
    BY <2>4 DEF Tag
  <2>6. Tag(d.entry.range) \notin {"Success", "Failed"} /\ request # "writing"
    BY <1>5 DEF TagInv, ReclaimIdle, Idle, Orderly
  <2>7. QED
    BY <2>3, <2>4, <2>5, <2>6 DEF TagInv, Acked
<1>6. ASSUME held' \subseteq held, UNCHANGED <<queue, pel, tags, written, request>>
      PROVE  TagInv'
  <2>1. \A r : Tag(r)' = Tag(r)
    BY <1>6 DEF Tag
  <2>2. QED
    BY <1>6, <2>1 DEF TagInv, Acked
<1>7. ASSUME \/ \E h \in held : TagPulledFails(h) \/ CleanTagFails(h)
             \/ \E w \in Worker : Crash(w)
      PROVE  TagInv'
  BY <1>6, <1>7 DEF TagPulledFails, CleanTagFails, Crash, store
<1>8. ASSUME NEW h \in held, TagPulled(h) \/ TagPulledUnread(h) PROVE TagInv'
  <2>1. PICK g : g.entry = h.entry /\ g.phase = "Pulled" /\ held' = (held \ {h}) \cup {g}
    BY <1>8, ToKeepsEntry DEF TagPulled, TagPulledUnread, Pull, JobPhase
  <2>2. PICK s \in {"Pending", "Queueing"} : SetTag(UidOf(h.entry), s, "Queueing")
    BY <1>8 DEF TagPulled, TagPulledUnread
  <2>3. /\ Tag(h.entry.range)' \in {"Pending", "Queueing"}
        /\ request = "writing" => Tag(h.entry.range)' = "Queueing"
        /\ UNCHANGED <<queue, pel, written, request>>
    BY <1>8, <2>2, SetTagOfJob DEF TagPulled, TagPulledUnread, Pull, TagInv
  <2>4. QED
    BY <2>1, <2>2, <2>3, TagSetOfJob
<1>9. ASSUME NEW h \in held, NEW c \in Cursor, StartPending(h, c) PROVE TagInv'
  <2>1. PICK g : g = [h EXCEPT !.phase = "Pending", !.cursor = c]
    OBVIOUS
  <2>2. g.entry = h.entry /\ g.phase = "Pending"
    BY <2>1 DEF TypeOK, HeldJob
  <2>3. /\ held' = (held \ {h}) \cup {g} /\ UNCHANGED <<queue, pel, tags, written, request>>
        /\ h.phase = "Pulled"
    BY <1>9, <2>1 DEF StartPending, Scanning, store
  <2>4. Tag(h.entry.range) \notin {"Success", "Failed"}
    BY <2>3 DEF TagInv
  <2>5. QED
    BY <2>2, <2>3, <2>4, TagOfJob DEF Acked
<1>10. ASSUME NEW h \in held, AddFriendFails(h) \/ Finish(h) PROVE TagInv'
  <2>1. PICK p \in {"Failed", "Finished"} : To(h, p)
    BY <1>10 DEF AddFriendFails, Finish
  <2>2. PICK g : g.entry = h.entry /\ g.phase = p /\ held' = (held \ {h}) \cup {g}
    BY <2>1, ToKeepsEntry DEF JobPhase
  <2>3. h.phase \in {"Pulled", "Pending"} /\ UNCHANGED <<queue, pel, tags, written, request>>
    BY <1>10 DEF AddFriendFails, Finish, Scanning, store
  <2>4. Tag(h.entry.range) \notin {"Success", "Failed"}
    BY <2>3 DEF TagInv
  <2>5. QED
    BY <2>2, <2>3, <2>4, TagOfJob DEF Acked
<1>11. ASSUME NEW h \in held, Ack(h) PROVE TagInv'
  <2>1. PICK p \in {"AckedFailed", "AckedFinished"} :
          To(h, p) /\ (p = "AckedFailed" <=> h.phase = "Failed")
    BY <1>11 DEF Ack
  <2>2. PICK g : g.entry = h.entry /\ g.phase = p /\ held' = (held \ {h}) \cup {g}
    BY <2>1, ToKeepsEntry DEF JobPhase
  <2>3. /\ h.phase \in {"Finished", "Failed"} /\ pel' \subseteq pel /\ request # "writing"
        /\ UNCHANGED <<queue, tags, written, request>>
    BY <1>11 DEF Ack, Ackable, Acknowledge, Orderly
  <2>4. /\ Tag(h.entry.range) = "Success" => h.phase = "Finished"
        /\ Tag(h.entry.range) = "Failed" => h.phase = "Failed"
    BY <2>3 DEF TagInv
  <2>5. QED
    BY <2>1, <2>2, <2>3, <2>4, TagOfJob
<1>12. ASSUME NEW h \in held, Clean(h) \/ CleanAborts(h) PROVE TagInv'
  <2>1. /\ Acked(h) /\ SetTag(UidOf(h.entry), Outcome(h), Outcome(h))
        /\ UNCHANGED <<queue, pel, written, request>>
    BY <1>12 DEF Clean, CleanAborts, Settle, Acked
  <2>2. Tag(h.entry.range)' = Outcome(h)
    BY <2>1, SetTagOfJob
  <2>3. request # "writing"
    BY <2>1 DEF TagInv
  <2>4. PICK p \in {"Failed", "Finished"} :
          /\ p = "Failed" <=> h.phase = "AckedFailed"
          /\ held' = held \ {h} \/ To(h, p)
    BY <1>12 DEF Clean, CleanAborts
  <2>5. PICK g : /\ g.entry = h.entry /\ g.phase = p /\ held' \subseteq (held \ {h}) \cup {g}
    <3>1. PICK g : g = [h EXCEPT !.phase = p]
      OBVIOUS
    <3>2. g.entry = h.entry /\ g.phase = p
      BY <3>1 DEF TypeOK, HeldJob
    <3>3. QED
      BY <2>4, <3>1, <3>2 DEF To
  <2>6. Outcome(h) = IF p = "Failed" THEN "Failed" ELSE "Success"
    BY <2>4 DEF Outcome
  <2>7. QED
    BY <2>1, <2>2, <2>3, <2>4, <2>5, <2>6, TagSetOfJob
<1>13. QED
  BY <1>1, <1>2, <1>3, <1>4, <1>5, <1>7, <1>8, <1>9, <1>10, <1>11, <1>12, OnlyOrderly

LEMMA PromiseInvCorrect == ASSUME Orderly PROVE Spec => []PromiseInv
<1>1. Init => PromiseInv
  <2>1. ASSUME Init PROVE TraceInv
    BY <2>1 DEF Init, TraceInv, Traces
  <2>2. ASSUME Init PROVE TagInv
    BY <2>2, ConstantsAssumption DEF Init, TagInv, Tag, Uid
  <2>3. QED
    BY <2>1, <2>2 DEF PromiseInv
<1>2. TypeOK /\ PromiseInv /\ [Next]_vars => PromiseInv'
  BY TraceNext, TagNext DEF PromiseInv
<1>3. QED
  BY <1>1, <1>2, TypeCorrect, PTL DEF Spec

StatusOf == [r \in Range |-> tags[<<r, Start>>]]

\* One tag set is one job that is queued, begins or ends, or nothing new.
LEMMA OneTagStep ==
  ASSUME TypeOK, TraceInv, NEW h \in held, NEW s, NEW default,
         SetTag(UidOf(h.entry), s, default),
         LET now == IF Tag(h.entry.range) = "None" THEN default ELSE s IN
         \/ now = Tag(h.entry.range)
         \/ Tag(h.entry.range) = "None" /\ now = "Queueing"
         \/ Tag(h.entry.range) = "Queueing" /\ now = "Pending"
         \/ Tag(h.entry.range) = "Pending" /\ now = "Queueing"
         \/ Tag(h.entry.range) \in {"Queueing", "Pending"} /\ now \in {"Success", "Failed"}
  PROVE  [Promise!Next]_StatusOf
<1> DEFINE own == h.entry.range
           now == IF Tag(own) = "None" THEN default ELSE s
<1>1. own \in Range /\ \A r \in Range : Tag(r)' = IF r = own THEN now ELSE Tag(r)
  BY SetTagOfJob, OwnRange
<1>2. StatusOf' = [StatusOf EXCEPT ![own] = now]
  BY <1>1 DEF StatusOf, Tag
<1>3. StatusOf[own] = Tag(own) /\ own \in Range
  BY <1>1 DEF StatusOf, Tag
<1>4. CASE now = Tag(own)
  BY <1>2, <1>3, <1>4 DEF StatusOf
<1>5. CASE Tag(own) = "None" /\ now = "Queueing"
  <2>1. Promise!Enqueue({own})
    BY <1>2, <1>3, <1>5 DEF Promise!Enqueue, StatusOf
  <2>2. QED
    BY <1>3, <2>1 DEF Promise!Next
<1>6. CASE Tag(own) = "Queueing" /\ now = "Pending"
  <2>1. Promise!Begin(own)
    BY <1>2, <1>3, <1>6 DEF Promise!Begin, StatusOf
  <2>2. QED
    BY <1>3, <2>1 DEF Promise!Next
<1>7. CASE Tag(own) = "Pending" /\ now = "Queueing"
  <2>1. Promise!Again(own)
    BY <1>2, <1>3, <1>7 DEF Promise!Again, StatusOf
  <2>2. QED
    BY <1>3, <2>1 DEF Promise!Next
<1>8. CASE Tag(own) \in {"Queueing", "Pending"} /\ now \in {"Success", "Failed"}
  <2>1. PICK outcome \in Promise!Final : outcome = now
    BY <1>8 DEF Promise!Final
  <2>2. Promise!End(own, outcome)
    BY <1>2, <1>3, <1>8, <2>1 DEF Promise!End, StatusOf
  <2>3. QED
    BY <1>3, <2>2 DEF Promise!Next
<1>9. QED
  BY <1>4, <1>5, <1>6, <1>7, <1>8

LEMMA PromiseStep == Orderly /\ TypeOK /\ PromiseInv /\ [Next]_vars => [Promise!Next]_StatusOf
<1> SUFFICES ASSUME Orderly, TypeOK, TraceInv, TagInv, [Next]_vars
             PROVE  [Promise!Next]_StatusOf
  BY DEF PromiseInv
<1>1. ASSUME tags' = tags PROVE [Promise!Next]_StatusOf
  BY <1>1 DEF StatusOf
<1>2. ASSUME WriteTags PROVE [Promise!Next]_StatusOf
  <2>0. PICK new \in SUBSET Range : new = {r \in Range : Tag(r) = "None"}
    OBVIOUS
  <2>1. \A r \in Range : Tag(r) \in {"None", "Queueing"}
    BY <1>2 DEF WriteTags, TagInv
  <2>2. \A r \in Range : Tag(r)' = "Queueing"
    BY <1>2, ConstantsAssumption DEF WriteTags, BatchWriteTags, Tag, Uid
  <2>3. Promise!Enqueue(new)
    BY <2>0, <2>1, <2>2 DEF Promise!Enqueue, StatusOf, Tag
  <2>4. QED
    BY <2>3 DEF Promise!Next
<1>3. ASSUME NEW h \in held, TagPulled(h) \/ TagPulledUnread(h) PROVE [Promise!Next]_StatusOf
  <2>1. Tag(h.entry.range) \in {"None", "Queueing", "Pending"}
    <3>1. Tag(h.entry.range) \in TagStatus
      BY OwnRange, ConstantsAssumption DEF TypeOK, Tag, Uid
    <3>2. Tag(h.entry.range) \notin {"Success", "Failed"}
      BY <1>3 DEF TagPulled, TagPulledUnread, Pull, TagInv
    <3>3. QED
      BY <3>1, <3>2 DEF TagStatus
  <2>2. PICK s \in {"Pending", "Queueing"} : SetTag(UidOf(h.entry), s, "Queueing")
    BY <1>3 DEF TagPulled, TagPulledUnread
  <2>3. QED
    BY <2>1, <2>2, OneTagStep
<1>4. ASSUME NEW h \in held, Clean(h) \/ CleanAborts(h) PROVE [Promise!Next]_StatusOf
  <2>1. SetTag(UidOf(h.entry), Outcome(h), Outcome(h)) /\ h.phase \in {"AckedFinished", "AckedFailed"}
    BY <1>4 DEF Clean, CleanAborts, Settle
  <2>2. Tag(h.entry.range) \in {"Queueing", "Pending", Outcome(h)}
    <3>1. Tag(h.entry.range) \in TagStatus
      BY OwnRange, ConstantsAssumption DEF TypeOK, Tag, Uid
    <3>2. Tag(h.entry.range) # "None"
      BY <2>1 DEF TagInv
    <3>3. /\ Tag(h.entry.range) = "Success" => h.phase = "AckedFinished"
          /\ Tag(h.entry.range) = "Failed" => h.phase = "AckedFailed"
      BY <2>1 DEF TagInv
    <3>4. QED
      BY <3>1, <3>2, <3>3 DEF TagStatus, Outcome
  <2>3. Outcome(h) \in {"Success", "Failed"}
    BY DEF Outcome
  <2>4. QED
    BY <2>1, <2>2, <2>3, OneTagStep
<1>5. ASSUME \/ \E r \in Range : WriteEntry(r)
             \/ RequestFails \/ UNCHANGED vars
             \/ \E w \in Worker : \/ \E entry \in queue : Fetch(w, entry)
                                  \/ \E d \in pel : ReclaimIdle(w, d)
                                  \/ Crash(w)
             \/ \E h \in held :
                  \/ (\E c \in Cursor : StartPending(h, c)) \/ AddFriendFails(h) \/ Finish(h)
                  \/ Ack(h) \/ TagPulledFails(h) \/ CleanTagFails(h)
      PROVE  [Promise!Next]_StatusOf
  <2>1. tags' = tags
    BY <1>5 DEF WriteEntry, RequestFails, vars, store, Fetch, ReclaimIdle, Reclaim, Crash,
                StartPending, AddFriendFails, Finish, Scanning, Ack, TagPulledFails, CleanTagFails
  <2>2. QED
    BY <1>1, <2>1
<1>6. QED
  BY <1>2, <1>3, <1>4, <1>5, OnlyOrderly

\* As long as nobody stops, claims a live job, is done before the tags are written
\* or cannot remove the friend of a finished job, each tag is queued, seen running
\* and final once, whatever crashes, tags that cannot be read or written, half-way
\* clean_jobs and failed requests there are.
THEOREM TagsKeepPromise == ASSUME Orderly PROVE Spec => KeepsPromise
<1>1. Init => Promise!Init
  BY ConstantsAssumption DEF Init, Promise!Init, Uid
<1>2. TypeOK /\ PromiseInv /\ [Next]_vars
        => [Promise!Next]_([r \in Range |-> tags[<<r, Start>>]])
  BY PromiseStep DEF StatusOf
<1>3. QED
  BY <1>1, <1>2, TypeCorrect, PromiseInvCorrect, PTL DEF Spec, KeepsPromise, Promise!Spec

----------------------------------------------------------------------------
(* Every range comes to rest *)

\* What RangesAdvance says of a step without faults.
Advance ==
  /\ \A r \in Range : \A n \in Standings(r)' : \E m \in Standings(r) : n <= m
  /\ request' = request =>
       \E r \in Range : \E m \in Standings(r) : \A n \in Standings(r)' : n < m

\* A step that touches no trace but those of one range moves no other range.
LEMMA OthersStand ==
  ASSUME NEW own, NEW r, r # own, written \subseteq written',
         \A e \in queue' : e \in queue \/ e.range = own,
         \A d \in pel' : d \in pel \/ d.entry.range = own,
         \A h \in held : h \in held' \/ h.entry.range = own,
         \A h \in held' : h \in held \/ h.entry.range = own
  PROVE  Standings(r)' \subseteq Standings(r)
<1>1. SUFFICES ASSUME NEW n \in Standings(r)' PROVE n \in Standings(r)
  OBVIOUS
<1>2. \A d \in pel' : d.entry.range = r /\ ~HeldBySomeone(d)' => d \in pel /\ ~HeldBySomeone(d)
  BY DEF HeldBySomeone
<1>3. CASE n = 8 /\ r \notin written'
  BY <1>3 DEF Standings
<1>4. CASE n = 7 /\ \E e \in queue' : e.range = r
  BY <1>4 DEF Standings
<1>5. CASE n = 6 /\ \E d \in pel' : d.entry.range = r /\ ~HeldBySomeone(d)'
  BY <1>2, <1>5 DEF Standings
<1>6. CASE \E h \in held' : h.entry.range = r /\ <<h.phase, n>> \in Phases
  BY <1>1, <1>6 DEF Standings
<1>7. QED
  BY <1>1, <1>3, <1>4, <1>5, <1>6 DEF Standings

\* It is enough that one range comes nearer and the others move no farther.
LEMMA OneRangeAdvances ==
  ASSUME NEW own \in Range, NEW m \in Standings(own), \A n \in Standings(own)' : n < m,
         \A r \in Range \ {own} : Standings(r)' \subseteq Standings(r)
  PROVE  Advance
<1>1. \A r : Standings(r) \subseteq 1 .. 8 /\ Standings(r)' \subseteq 1 .. 8
  BY DEF Standings
<1>2. ASSUME NEW r \in Range, NEW n \in Standings(r)' PROVE \E k \in Standings(r) : n <= k
  <2>1. CASE r = own
    BY <1>1, <2>1
  <2>2. CASE r # own
    BY <1>1, <2>2
  <2>3. QED
    BY <2>1, <2>2
<1>3. QED
  BY <1>2 DEF Advance

\* A held job that goes on to a later phase.
LEMMA JobAdvances ==
  ASSUME TypeOK, TraceInv, NEW h \in held, NEW g, g.entry = h.entry,
         held' = (held \ {h}) \cup {g}, pel' \subseteq pel, UNCHANGED <<queue, written>>,
         NEW m \in 1 .. 8, <<h.phase, m>> \in Phases,
         \A n \in 1 .. 8 : <<g.phase, n>> \in Phases => n < m
  PROVE  Advance
<1> DEFINE own == h.entry.range
<1>1. /\ own \in Range /\ own \in written
      /\ \A k \in held : k # h => k.entry.range # own
      /\ \A e \in queue : e.range # own
      /\ \A d \in pel : d.entry.range = own => d.entry = h.entry
  <2>1. h.entry \in Traces /\ \A d \in pel : d.entry \in Traces
    BY DEF Traces
  <2>2. QED
    BY <2>1, OwnRange DEF TraceInv
<1>2. m \in Standings(own)
  BY DEF Standings
<1>3. \A n \in Standings(own)' : n < m
  <2>1. \A d \in pel' : d.entry.range = own => HeldBySomeone(d)'
    BY <1>1 DEF HeldBySomeone
  <2>2. \A k \in held' : k.entry.range = own => k = g
    BY <1>1
  <2>3. QED
    BY <1>1, <2>1, <2>2 DEF Standings
<1>4. \A r \in Range \ {own} : Standings(r)' \subseteq Standings(r)
  BY OthersStand
<1>5. QED
  BY <1>1, <1>2, <1>3, <1>4, OneRangeAdvances

LEMMA AdvanceNext ==
  Orderly /\ TypeOK /\ TraceInv /\ [Next]_vars => [faults' = faults => Advance]_vars
<1> SUFFICES ASSUME Orderly, TypeOK, TraceInv, [Next]_vars, faults' = faults, vars' # vars
             PROVE  Advance
  OBVIOUS
<1>1. ASSUME NEW r \in Range, WriteEntry(r) PROVE Advance
  <2>1. PICK e : e = [id |-> lastId + 1, range |-> r, cursorStart |-> Start]
    OBVIOUS
  <2>2. e.range = r
    BY <2>1
  <2>3. /\ queue' = queue \cup {e} /\ written' = written \cup {r} /\ r \notin written
        /\ UNCHANGED <<pel, held>>
    BY <1>1, <2>1 DEF WriteEntry, Add
  <2>4. (\A d \in pel : d.entry.range # r) /\ \A h \in held : h.entry.range # r
    <3>1. (\A d \in pel : d.entry \in Traces) /\ \A h \in held : h.entry \in Traces
      BY DEF Traces
    <3>2. QED
      BY <2>3, <3>1 DEF TraceInv
  <2>5. 8 \in Standings(r)
    BY <2>3 DEF Standings
  <2>6. \A n \in Standings(r)' : n = 7
    BY <2>3, <2>4 DEF Standings
  <2>7. \A q \in Range \ {r} : Standings(q)' \subseteq Standings(q)
    BY <2>2, <2>3, OthersStand
  <2>8. QED
    BY <2>5, <2>6, <2>7, OneRangeAdvances
<1>2. ASSUME WriteTags PROVE Advance
  <2>1. UNCHANGED <<queue, pel, held, written>> /\ request' # request
    BY <1>2 DEF WriteTags
  <2>2. \A r : Standings(r)' = Standings(r)
    BY <2>1 DEF Standings, HeldBySomeone
  <2>3. \A r : \A n \in Standings(r) : n <= n
    BY DEF Standings
  <2>4. QED
    BY <2>1, <2>2, <2>3 DEF Advance
<1>3. ASSUME NEW w \in Worker, NEW entry \in queue, Fetch(w, entry) PROVE Advance
  <2>1. PICK d : d = [entry |-> entry, delivery |-> 1]
    OBVIOUS
  <2>2. PICK h : h = [worker |-> w, entry |-> entry, delivery |-> 1,
                      cursor |-> entry.cursorStart, phase |-> "Received"]
    OBVIOUS
  <2>3. d.entry = entry /\ h.entry = entry /\ h.phase = "Received"
    BY <2>1, <2>2
  <2>4. /\ queue' = queue \ {entry} /\ pel' = pel \cup {d} /\ held' = held \cup {h}
        /\ UNCHANGED written
    BY <1>3, <2>1, <2>2 DEF Fetch, Deliver, Receive
  <2>5. /\ entry.range \in Range /\ entry.range \in written
        /\ \A e \in queue : e.range = entry.range => e = entry
        /\ \A c \in pel : c.entry.range # entry.range
        /\ \A k \in held : k.entry.range # entry.range
    <3>1. /\ entry \in Traces /\ queue \subseteq Traces
          /\ \A c \in pel : c.entry \in Traces
          /\ \A k \in held : k.entry \in Traces
      BY DEF Traces
    <3>2. QED
      BY <3>1, TracesAreWritten DEF TraceInv
  <2>6. 7 \in Standings(entry.range)
    BY DEF Standings
  <2>7. \A n \in Standings(entry.range)' : n = 5
    <3>1. HeldBySomeone(d)'
      BY <2>3, <2>4 DEF HeldBySomeone
    <3>2. \A n : <<h.phase, n>> \in Phases => n = 5
      BY <2>3 DEF Phases
    <3>3. \A c \in pel' : c.entry.range = entry.range => HeldBySomeone(c)'
      BY <2>4, <2>5, <3>1
    <3>4. \A k \in held' : k.entry.range = entry.range => k = h
      BY <2>4, <2>5
    <3>5. \A e \in queue' : e.range # entry.range
      BY <2>4, <2>5
    <3>6. QED
      BY <2>4, <2>5, <3>2, <3>3, <3>4, <3>5 DEF Standings
  <2>8. \A r \in Range \ {entry.range} : Standings(r)' \subseteq Standings(r)
    BY <2>3, <2>4, OthersStand
  <2>9. QED
    BY <2>5, <2>6, <2>7, <2>8, OneRangeAdvances
<1>4. ASSUME NEW w \in Worker, NEW d \in pel, ReclaimIdle(w, d) PROVE Advance
  <2>1. PICK f : f = [d EXCEPT !.delivery = @ + 1]
    OBVIOUS
  <2>2. PICK h : h = [worker |-> w, entry |-> d.entry, delivery |-> d.delivery + 1,
                      cursor |-> d.entry.cursorStart, phase |-> "Received"]
    OBVIOUS
  <2>3. f.entry = d.entry /\ h.entry = d.entry /\ h.phase = "Received"
    BY <2>1, <2>2 DEF TypeOK, Delivered
  <2>4. /\ pel' = (pel \ {d}) \cup {f} /\ held' = held \cup {h} /\ ~HeldBySomeone(d)
        /\ UNCHANGED <<queue, written>>
    BY <1>4, <2>1, <2>2 DEF ReclaimIdle, Idle, Reclaim, Receive
  <2> DEFINE own == d.entry.range
  <2>5. /\ own \in Range /\ own \in written
        /\ \A e \in queue : e.range # own
        /\ \A c \in pel : c.entry.range = own => c.entry = d.entry
        /\ \A k \in held : k.entry.range # own
    <3>1. /\ d.entry \in Traces /\ queue \subseteq Traces
          /\ \A c \in pel : c.entry \in Traces
          /\ \A k \in held : k.entry \in Traces
      BY DEF Traces
    <3>2. \A k \in held : k.entry # d.entry
      BY <2>4 DEF HeldBySomeone
    <3>3. QED
      BY <3>1, <3>2, TracesAreWritten DEF TraceInv
  <2>6. 6 \in Standings(own)
    BY <2>4 DEF Standings
  <2>7. \A n \in Standings(own)' : n = 5
    <3>1. \A c \in pel' : c.entry.range = own => HeldBySomeone(c)'
      BY <2>3, <2>4, <2>5 DEF HeldBySomeone
    <3>2. \A n : <<h.phase, n>> \in Phases => n = 5
      BY <2>3 DEF Phases
    <3>3. \A k \in held' : k.entry.range = own => k = h
      BY <2>4, <2>5
    <3>4. QED
      BY <2>4, <2>5, <3>1, <3>2, <3>3 DEF Standings
  <2>8. \A r \in Range \ {own} : Standings(r)' \subseteq Standings(r)
    <3>1. \A c \in pel' : c \in pel \/ c.entry.range = own
      BY <2>3, <2>4
    <3>2. \A k \in held' : k \in held \/ k.entry.range = own
      BY <2>3, <2>4
    <3>3. QED
      BY <2>4, <3>1, <3>2, OthersStand
  <2>9. QED
    BY <2>5, <2>6, <2>7, <2>8, OneRangeAdvances
<1>5. ASSUME NEW h \in held, TagPulled(h) PROVE Advance
  <2>1. PICK g : g.entry = h.entry /\ g.phase = "Pulled" /\ held' = (held \ {h}) \cup {g}
    BY <1>5, ToKeepsEntry DEF TagPulled, Pull, JobPhase
  <2>2. h.phase = "Received" /\ pel' \subseteq pel /\ UNCHANGED <<queue, written>>
    BY <1>5 DEF TagPulled, Pull
  <2>3. PICK m \in 1 .. 8 : /\ <<h.phase, m>> \in Phases
                           /\ \A n \in 1 .. 8 : <<g.phase, n>> \in Phases => n < m
    BY <2>1, <2>2 DEF Phases
  <2>4. QED
    BY <2>1, <2>2, <2>3, JobAdvances
<1>6. ASSUME NEW h \in held, NEW c \in Cursor, StartPending(h, c) PROVE Advance
  <2>1. PICK g : g = [h EXCEPT !.phase = "Pending", !.cursor = c]
    OBVIOUS
  <2>2. g.entry = h.entry /\ g.phase = "Pending"
    BY <2>1 DEF TypeOK, HeldJob
  <2>3. /\ held' = (held \ {h}) \cup {g} /\ UNCHANGED <<queue, written>>
        /\ h.phase = "Pulled" /\ pel' \subseteq pel
    BY <1>6, <2>1 DEF StartPending, Scanning, store
  <2>4. PICK m \in 1 .. 8 : /\ <<h.phase, m>> \in Phases
                           /\ \A n \in 1 .. 8 : <<g.phase, n>> \in Phases => n < m
    BY <2>2, <2>3 DEF Phases
  <2>5. QED
    BY <2>2, <2>3, <2>4, JobAdvances
<1>7. ASSUME NEW h \in held, AddFriendFails(h) \/ Finish(h) PROVE Advance
  <2>1. PICK p \in {"Failed", "Finished"} : To(h, p)
    BY <1>7 DEF AddFriendFails, Finish
  <2>2. PICK g : g.entry = h.entry /\ g.phase = p /\ held' = (held \ {h}) \cup {g}
    BY <2>1, ToKeepsEntry DEF JobPhase
  <2>3. h.phase \in {"Pulled", "Pending"} /\ pel' \subseteq pel /\ UNCHANGED <<queue, written>>
    BY <1>7 DEF AddFriendFails, Finish, Scanning, store
  <2>4. PICK m \in 1 .. 8 : /\ <<h.phase, m>> \in Phases
                           /\ \A n \in 1 .. 8 : <<g.phase, n>> \in Phases => n < m
    BY <2>2, <2>3 DEF Phases
  <2>5. QED
    BY <2>2, <2>3, <2>4, JobAdvances
<1>8. ASSUME NEW h \in held, Ack(h) PROVE Advance
  <2>1. PICK p \in {"AckedFailed", "AckedFinished"} : To(h, p)
    BY <1>8 DEF Ack
  <2>2. PICK g : g.entry = h.entry /\ g.phase = p /\ held' = (held \ {h}) \cup {g}
    BY <2>1, ToKeepsEntry DEF JobPhase
  <2>3. h.phase \in {"Finished", "Failed"} /\ pel' \subseteq pel /\ UNCHANGED <<queue, written>>
    BY <1>8 DEF Ack, Ackable, Acknowledge
  <2>4. PICK m \in 1 .. 8 : /\ <<h.phase, m>> \in Phases
                           /\ \A n \in 1 .. 8 : <<g.phase, n>> \in Phases => n < m
    BY <2>2, <2>3 DEF Phases
  <2>5. QED
    BY <2>2, <2>3, <2>4, JobAdvances
<1>9. ASSUME NEW h \in held, Clean(h) PROVE Advance
  <2>1. /\ Acked(h) /\ held' = held \ {h} /\ UNCHANGED <<queue, pel, written>>
    BY <1>9 DEF Clean, Settle, Acked
  <2> DEFINE own == h.entry.range
  <2>2. own \in Range /\ own \in written
    <3>1. h.entry \in Traces
      BY DEF Traces
    <3>2. QED
      BY <3>1, OwnRange DEF TraceInv
  <2>3. 1 \in Standings(own)
    BY <2>1 DEF Standings, Phases, Acked
  <2>4. Standings(own)' = {}
    BY <2>1, <2>2, OwnRange DEF Standings
  <2>5. \A r \in Range \ {own} : Standings(r)' \subseteq Standings(r)
    <3>1. \A k \in held : k \in held' \/ k.entry.range = own
      BY <2>1
    <3>2. QED
      BY <2>1, <3>1, OthersStand
  <2>6. QED
    BY <2>2, <2>3, <2>4, <2>5, OneRangeAdvances
<1>10. ASSUME RequestFails \/ (\E w \in Worker : Crash(w))
              \/ \E h \in held : \/ TagPulledUnread(h) \/ TagPulledFails(h)
                                \/ CleanAborts(h) \/ CleanTagFails(h)
       PROVE  FALSE
  BY <1>10 DEF RequestFails, Crash, TagPulledUnread, TagPulledFails, CleanAborts, CleanTagFails, Fault, TypeOK
<1>11. QED
  BY <1>1, <1>2, <1>3, <1>4, <1>5, <1>6, <1>7, <1>8, <1>9, <1>10, OnlyOrderly

\* As long as nobody stops, claims a live job, is done before the tags are written
\* or cannot remove the friend of a finished job, every step without a fault brings
\* some range nearer to its final status and none farther from it, whatever had
\* failed before.
THEOREM RangesComeToRest == ASSUME Orderly PROVE Spec => RangesAdvance
<1>1. TypeOK /\ PromiseInv /\ [Next]_vars => [faults' = faults => Advance]_vars
  BY AdvanceNext DEF PromiseInv
<1>2. QED
  BY <1>1, TypeCorrect, PromiseInvCorrect, PTL DEF Spec, RangesAdvance, Advance

----------------------------------------------------------------------------
(* What is at rest is settled *)

\* A final tag stands wherever one was written.
SettledInv == \A r \in settled : r \in Range /\ Tag(r) \in {"Success", "Failed"}

\* The promise never takes a final status back.
LEMMA FinalStands ==
  ASSUME [Promise!Next]_StatusOf, NEW r \in Range, Tag(r) \in {"Success", "Failed"}
  PROVE  Tag(r)' = Tag(r)
<1>1. StatusOf[r] = Tag(r) /\ StatusOf'[r] = Tag(r)'
  BY DEF StatusOf, Tag
<1>2. ASSUME NEW jobs \in SUBSET Range, Promise!Enqueue(jobs) PROVE StatusOf'[r] = StatusOf[r]
  BY <1>1, <1>2 DEF Promise!Enqueue, StatusOf
<1>3. ASSUME NEW j \in Range, NEW outcome,
             Promise!Begin(j) \/ Promise!Again(j) \/ Promise!End(j, outcome)
      PROVE  StatusOf'[r] = StatusOf[r]
  BY <1>1, <1>3 DEF Promise!Begin, Promise!Again, Promise!End, StatusOf
<1>4. QED
  BY <1>1, <1>2, <1>3 DEF Promise!Next

LEMMA SettledNext ==
  Orderly /\ TypeOK /\ PromiseInv /\ SettledInv /\ [Next]_vars => SettledInv'
<1> SUFFICES ASSUME Orderly, TypeOK, PromiseInv, SettledInv, [Next]_vars PROVE SettledInv'
  OBVIOUS
<1>1. \A r \in settled : r \in Range /\ Tag(r)' \in {"Success", "Failed"}
  BY PromiseStep, FinalStands DEF SettledInv
<1>2. ASSUME settled' = settled PROVE SettledInv'
  BY <1>1, <1>2 DEF SettledInv
<1>3. ASSUME NEW h \in held, Clean(h) \/ CleanAborts(h) PROVE SettledInv'
  <2>1. /\ settled' = settled \cup {h.entry.range}
        /\ SetTag(UidOf(h.entry), Outcome(h), Outcome(h))
    BY <1>3 DEF Clean, CleanAborts, Settle
  <2>2. h.entry.range \in Range /\ Tag(h.entry.range)' = Outcome(h)
    BY <2>1, SetTagOfJob, OwnRange DEF PromiseInv
  <2>3. QED
    BY <1>1, <2>1, <2>2 DEF SettledInv, Outcome
<1>4. ASSUME \/ \E r \in Range : WriteEntry(r)
             \/ WriteTags \/ RequestFails \/ UNCHANGED vars
             \/ \E w \in Worker : \/ \E entry \in queue : Fetch(w, entry)
                                  \/ \E d \in pel : ReclaimIdle(w, d)
                                  \/ Crash(w)
             \/ \E h \in held :
                  \/ TagPulled(h) \/ TagPulledUnread(h) \/ (\E c \in Cursor : StartPending(h, c))
                  \/ AddFriendFails(h) \/ Finish(h) \/ Ack(h)
                  \/ TagPulledFails(h) \/ CleanTagFails(h)
      PROVE  settled' = settled
  BY <1>4 DEF WriteEntry, WriteTags, RequestFails, vars, Fetch, ReclaimIdle, Reclaim, Crash,
              TagPulled, TagPulledUnread, Pull, StartPending, AddFriendFails, Finish, Scanning, Ack,
              TagPulledFails, CleanTagFails, history
<1>5. QED
  BY <1>2, <1>3, <1>4, OnlyOrderly DEF PromiseInv

\* A held job has a phase that counts as a trace of its range.
LEMMA HeldIsTrace ==
  ASSUME TypeOK, TraceInv, NEW h \in held
  PROVE  Standings(h.entry.range) # {}
<1>1. h.phase \in JobPhase \ {"Unqueued", "Requeued"}
  BY DEF TypeOK, HeldJob, TraceInv
<1>2. PICK n \in 1 .. 8 : <<h.phase, n>> \in Phases
  BY <1>1 DEF JobPhase, Phases
<1>3. QED
  BY <1>2 DEF Standings

LEMMA TracelessSettled ==
  TypeOK /\ TraceInv /\ KeptInv /\ SettledInv => TracelessIsSettled
<1> SUFFICES ASSUME TypeOK, TraceInv, KeptInv, SettledInv,
                    NEW r \in Range, Standings(r) = {}, r \notin dropped
             PROVE  tags[<<r, Start>>] \in {"Success", "Failed"}
  BY DEF TracelessIsSettled
<1>0. 6 \notin Standings(r) /\ 7 \notin Standings(r) /\ 8 \notin Standings(r)
  OBVIOUS
<1>1. r \in written
  BY <1>0 DEF Standings
<1>2. \A e \in queue : e.range # r
  <2>1. 7 \in 1 .. 8
    OBVIOUS
  <2>2. QED
    BY <1>0, <2>1 DEF Standings
<1>3. \A h \in held : h.entry.range # r
  BY HeldIsTrace
<1>4. \A d \in pel : d.entry.range # r
  <2>1. SUFFICES ASSUME NEW d \in pel, d.entry.range = r PROVE FALSE
    OBVIOUS
  <2>2. HeldBySomeone(d)
    <3>1. 6 \in 1 .. 8
      OBVIOUS
    <3>2. QED
      BY <1>0, <2>1, <3>1 DEF Standings
  <2>3. QED
    BY <1>3, <2>1, <2>2 DEF HeldBySomeone
<1>5. r \in settled
  BY <1>1, <1>2, <1>3, <1>4 DEF KeptInv, Kept
<1>6. QED
  BY <1>5 DEF SettledInv, Tag

\* And a range that has come to rest has its final status, or was with the one
\* worker that had acknowledged it when that worker failed.
THEOREM RestIsSettled == ASSUME Orderly PROVE Spec => []TracelessIsSettled
<1>1. Init => SettledInv
  BY DEF Init, SettledInv
<1>2. TypeOK /\ PromiseInv /\ SettledInv /\ [Next]_vars => SettledInv'
  BY SettledNext
<1>3. TypeOK /\ PromiseInv /\ KeptInv /\ SettledInv => TracelessIsSettled
  BY TracelessSettled DEF PromiseInv
<1>4. QED
  BY <1>1, <1>2, <1>3, KeptInit, KeptNext, TypeCorrect, PromiseInvCorrect, PTL DEF Spec

----------------------------------------------------------------------------
(* A job tagged Success was done *)

NothingResumed ==
  /\ stopping = {} /\ resumed = {}
  /\ \A h \in held : h.phase \notin {"Unqueued", "Requeued"}

LEMMA NothingResumedNext ==
  "stop" \notin Hazards /\ TypeOK /\ NothingResumed /\ [Next]_vars => NothingResumed'
<1> SUFFICES ASSUME "stop" \notin Hazards, TypeOK, NothingResumed, [Next]_vars
             PROVE  NothingResumed'
  OBVIOUS
<1> USE DEF NothingResumed
<1>1. ASSUME UNCHANGED <<resumed, stopping>>, held' \subseteq held PROVE NothingResumed'
  BY <1>1
<1>2. ASSUME \/ \E r \in Range : WriteEntry(r)
             \/ WriteTags \/ RequestFails \/ UNCHANGED vars
             \/ \E h \in held : TagPulledFails(h) \/ CleanTagFails(h) \/ Clean(h)
             \/ \E w \in Worker : Crash(w)
      PROVE  NothingResumed'
  <2>1. resumed' = resumed /\ stopping' = stopping /\ held' \subseteq held
    BY <1>2 DEF WriteEntry, WriteTags, RequestFails, vars, history, TagPulledFails, CleanTagFails,
                Clean, Settle, Crash
  <2>2. QED
    BY <1>1, <2>1
<1>3. ASSUME NEW w \in Worker,
             \/ \E entry \in queue : Fetch(w, entry)
             \/ \E d \in pel : ReclaimIdle(w, d) \/ ReclaimHeld(w, d)
      PROVE  NothingResumed'
  BY <1>3 DEF Fetch, ReclaimIdle, ReclaimHeld, Reclaim, Receive, history
<1>4. ASSUME NEW h \in held, \/ TagPulled(h) \/ TagPulledUnread(h) \/ AddFriendFails(h)
                             \/ Finish(h) \/ Ack(h) \/ CleanAborts(h) \/ CleanRefused(h)
                             \/ \E c \in Cursor : StartPending(h, c)
      PROVE  NothingResumed'
  <2>1. h \in HeldJob
    BY DEF TypeOK
  <2>2. UNCHANGED <<resumed, stopping>>
    BY <1>4 DEF TagPulled, TagPulledUnread, Pull, AddFriendFails, Finish, Ack, CleanAborts,
                CleanRefused, Settle, StartPending, Scanning, history
  <2>3. \A k \in held' : k \in held \/ k.phase \notin {"Unqueued", "Requeued"}
    <3>1. CASE \E c \in Cursor : StartPending(h, c)
      BY <2>1, <3>1 DEF StartPending, HeldJob
    <3>2. ASSUME NEW p \in {"Pulled", "Failed", "Finished", "AckedFailed", "AckedFinished"}, To(h, p)
          PROVE  \A k \in held' : k \in held \/ k.phase \notin {"Unqueued", "Requeued"}
      BY <2>1, <3>2 DEF To, HeldJob
    <3>3. QED
      BY <1>4, <3>1, <3>2 DEF TagPulled, TagPulledUnread, Pull, AddFriendFails, Finish, Ack,
                              CleanAborts, CleanRefused
  <2>4. QED
    BY <2>2, <2>3
<1>5. ASSUME \/ \E w \in Worker : Stop(w)
             \/ \E h \in held : ResumeAck(h) \/ ResumeAdd(h) \/ ResumeTag(h) \/ ResumeTagUnread(h)
      PROVE  FALSE
  BY <1>5 DEF Stop, Fault, ResumeAck, ResumeAdd, ResumeTag, ResumeTagUnread, Resumed
<1>6. QED
  BY <1>2, <1>3, <1>4, <1>5 DEF Next, RequestStep, WorkerStep, FaultStep

\* But for workers that stop, "job complete" is what the tag Success means: a
\* crash, a claim or a tag written late never makes one of a job nobody finished.
THEOREM SuccessIsEarned == ASSUME "stop" \notin Hazards PROVE Spec => []SuccessMeansDone
<1>1. Init => NothingResumed
  BY DEF Init, NothingResumed
<1>2. NothingResumed /\ VerdictInv => SuccessMeansDone
  BY DEF NothingResumed, VerdictInv, SuccessMeansDone
<1>3. QED
  BY <1>1, <1>2, NothingResumedNext, VerdictInit, VerdictNext, TypeCorrect, PTL DEF Spec
=============================================================================
