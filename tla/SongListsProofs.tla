--------------------------- MODULE SongListsProofs ---------------------------
(***************************************************************************)
(* Safety of SongLists, for any lists, workers and requests.               *)
(*                                                                         *)
(* StreamInv says that a stream only holds jobs of its own range, and that *)
(* the range fits every list with the stream's hash: reuse of streams      *)
(* looks at the whole range, and one hash stands for lists of one length.  *)
(* WorkerInv carries this over to the jobs a worker holds.                 *)
(*                                                                         *)
(* AnswerInv says what a request is answered with: its parts cover its     *)
(* list, each of its jobs is in the stream of its part, and each has been  *)
(* given the songs behind the cursor, as many as were counted.             *)
(***************************************************************************)
EXTENDS SongLists, WellFoundedInduction, TLAPS

KeyFits(k) == \A l \in List : calc_song_list_hash(l) = k.hash => k.to <= Len(l)

OfRange(j, k) == j.from = k.from /\ j.to = k.to

StreamsOK(s) ==
  /\ DOMAIN s \subseteq Key
  /\ \A k \in DOMAIN s :
       /\ KeyFits(k)
       /\ s[k] \in [waiting : SUBSET Job, pending : SUBSET Job]
       /\ \A j \in s[k].waiting \cup s[k].pending : OfRange(j, k)

StreamInv ==
  /\ StreamsOK(streams)
  /\ \A r \in Request : \A part \in asked[r].parts : KeyFits(part.key) /\ OfRange(part, part.key)

WorkerInv ==
  \A w \in Worker : held[w] # {} =>
    /\ KeyFits(at[w])
    /\ at[w].from <= cursor[w] /\ cursor[w] < at[w].to
    /\ \A e \in held[w] : OfRange(e, at[w])
    /\ \E i \in DOMAIN pool[w] : Matches(pool[w][i], at[w])

\* The entries a request still has to write are among those it was cut into.
Inv == TypeOK /\ (\A r \in Request : asked[r].todo \subseteq asked[r].parts) /\ StreamInv /\ WorkerInv

----------------------------------------------------------------------------
(* Lists and streams *)

\* A pool has lists in it.
LEMMA PoolHasLists ==
  ASSUME TypeOK, NEW p \in Process, NEW i \in DOMAIN pool[p]
  PROVE  pool[p][i] \in List /\ pool[p][i] \in Seq(Song) /\ i \in Nat
BY ConstantsAssumption DEF TypeOK

\* A hash is a set of songs.
LEMMA HashType ==
  ASSUME NEW l \in List
  PROVE  /\ calc_song_list_hash(l) \in SUBSET Song
         /\ Len(l) \in Nat /\ DOMAIN l = 1 .. Len(l) /\ l \in Seq(Song)
<1>1. l \in Seq(Song) /\ Len(l) \in Nat /\ DOMAIN l = 1 .. Len(l)
  BY ConstantsAssumption
<1>2. \A i \in DOMAIN l : l[i] \in Song
  BY <1>1
<1>3. QED
  BY <1>1, <1>2 DEF calc_song_list_hash, Range

\* XADD keeps the streams in order.
LEMMA AddedOK ==
  ASSUME StreamsOK(streams), NEW k \in Key, KeyFits(k), NEW jobs \in SUBSET Job,
         \A j \in jobs : OfRange(j, k)
  PROVE  StreamsOK(Added(k, jobs)) /\ k \in DOMAIN Added(k, jobs)
<1> DEFINE s == Added(k, jobs)
<1>1. DOMAIN s = DOMAIN streams \cup {k}
  BY DEF Added
<1>2. ASSUME NEW x \in DOMAIN streams, x # k
      PROVE  s[x] = streams[x]
  BY <1>2 DEF Added
<1>3. CASE k \in DOMAIN streams
  <2>1. s[k] = [streams[k] EXCEPT !.waiting = @ \cup jobs]
    BY <1>3 DEF Added
  <2>2. streams[k] \in [waiting : SUBSET Job, pending : SUBSET Job]
    BY <1>3 DEF StreamsOK
  <2>3. s[k] = [waiting |-> streams[k].waiting \cup jobs, pending |-> streams[k].pending]
    BY <2>1, <2>2
  <2>4. QED
    BY <1>1, <1>2, <1>3, <2>2, <2>3 DEF StreamsOK
<1>4. CASE k \notin DOMAIN streams
  <2>1. s[k] = [waiting |-> jobs, pending |-> {}]
    BY <1>4 DEF Added
  <2>2. QED
    BY <1>1, <1>2, <2>1 DEF StreamsOK
<1>5. QED
  BY <1>3, <1>4

\* So does XACK.
LEMMA AckedOK ==
  ASSUME NEW s, StreamsOK(s), NEW k, NEW jobs
  PROVE  StreamsOK(Acked(s, k, jobs))
<1>1. CASE k \notin DOMAIN s
  BY <1>1 DEF Acked
<1>2. CASE k \in DOMAIN s
  <2> DEFINE t == [s EXCEPT ![k].pending = @ \ jobs]
  <2>1. Acked(s, k, jobs) = t
    BY <1>2 DEF Acked
  <2>2. DOMAIN t = DOMAIN s /\ \A x \in DOMAIN s : x # k => t[x] = s[x]
    OBVIOUS
  <2>3. s[k] \in [waiting : SUBSET Job, pending : SUBSET Job]
    BY <1>2 DEF StreamsOK
  <2>4. t[k] = [waiting |-> s[k].waiting, pending |-> s[k].pending \ jobs]
    BY <1>2, <2>3
  <2>5. QED
    BY <2>1, <2>2, <2>3, <2>4 DEF StreamsOK
<1>3. QED
  BY <1>1, <1>2

\* And a delivery, of entries that are in the stream.
LEMMA DeliveredOK ==
  ASSUME StreamsOK(streams), NEW k, NEW idle
  PROVE  /\ StreamsOK(Delivered(k, Available(k, idle)))
         /\ Available(k, idle) \in SUBSET Job
         /\ \A j \in Available(k, idle) : k \in DOMAIN streams /\ OfRange(j, k)
<1> DEFINE new == Available(k, idle)
<1>1. CASE k \notin DOMAIN streams
  BY <1>1 DEF Available, Delivered
<1>2. CASE k \in DOMAIN streams
  <2>1. new \subseteq streams[k].waiting \cup streams[k].pending
    BY <1>2 DEF Available
  <2>2. streams[k] \in [waiting : SUBSET Job, pending : SUBSET Job]
    BY <1>2 DEF StreamsOK
  <2> DEFINE t == [streams EXCEPT ![k] = [waiting |-> @.waiting \ new, pending |-> @.pending \cup new]]
  <2>3. Delivered(k, new) = t
    BY <1>2 DEF Delivered
  <2>4. DOMAIN t = DOMAIN streams /\ \A x \in DOMAIN streams : x # k => t[x] = streams[x]
    OBVIOUS
  <2>5. t[k] = [waiting |-> streams[k].waiting \ new, pending |-> streams[k].pending \cup new]
    BY <1>2
  <2>6. new \in SUBSET Job /\ \A j \in new : OfRange(j, k)
    BY <1>2, <2>1, <2>2 DEF StreamsOK
  <2> HIDE DEF new
  <2>7. StreamsOK(t)
    BY <1>2, <2>1, <2>2, <2>4, <2>5, <2>6 DEF StreamsOK
  <2>8. QED
    BY <1>2, <2>3, <2>6, <2>7 DEF new
<1>3. QED
  BY <1>1, <1>2

----------------------------------------------------------------------------
(* Iterations *)

\* One song: jobs that are not complete afterwards are within their range, and
\* so is the cursor.
LEMMA PollCounts ==
  ASSUME TypeOK, NEW w \in Worker, NEW list \in List, NEW k \in Key, NEW c \in Nat, k.from <= c,
         NEW new \in SUBSET Job, \A j \in new : OfRange(j, k), \A e \in held[w] : OfRange(e, k),
         Poll(w, list, k, c, new)
  PROVE  /\ held' \in [Worker -> SUBSET {e \in Counted : e.n < e.to - e.from}]
         /\ at' \in [Worker -> Key] /\ cursor' \in [Worker -> Nat]
         /\ \A v \in Worker : v # w => held'[v] = held[v] /\ at'[v] = at[v] /\ cursor'[v] = cursor[v]
         /\ held'[w] # {} => at'[w] = k /\ k.from <= cursor'[w] /\ cursor'[w] < k.to
         /\ \A e \in held'[w] : OfRange(e, k)
         /\ results' \subseteq Request \X Song /\ done' \subseteq Job
<1> DEFINE jobs == held[w] \cup {[req |-> j.req, from |-> j.from, to |-> j.to, n |-> 0] : j \in new}
           counted == {[e EXCEPT !.n = @ + 1] : e \in jobs}
           finished == {JobOf(e) : e \in {d \in counted : Complete(d)}}
<1>1. jobs \subseteq Counted /\ \A e \in jobs : OfRange(e, k)
  BY DEF TypeOK, Counted, Job, OfRange
<1>2. counted \subseteq Counted /\ \A e \in counted : OfRange(e, k) /\ e.n >= 1
  <2> HIDE DEF jobs
  <2>1. SUFFICES ASSUME NEW e \in jobs
                 PROVE  LET d == [e EXCEPT !.n = @ + 1]
                        IN  d \in Counted /\ OfRange(d, k) /\ d.n >= 1
    OBVIOUS
  <2>2. [e EXCEPT !.n = @ + 1] = [req |-> e.req, from |-> e.from, to |-> e.to, n |-> e.n + 1]
    BY <1>1 DEF Counted
  <2>3. e.req \in Request /\ e.from \in Nat /\ e.to \in Nat /\ e.n \in Nat /\ OfRange(e, k)
    BY <1>1 DEF Counted
  <2>4. QED
    BY <2>2, <2>3 DEF Counted, OfRange
<1>3. /\ held' = [held EXCEPT ![w] = {e \in counted : ~Complete(e)}]
      /\ at' = [at EXCEPT ![w] = IF \A e \in counted : Complete(e) THEN NoKey ELSE k]
      /\ cursor' = [cursor EXCEPT ![w] = Forward(k, c)]
      /\ results' = results \cup Scores(list, k, c, jobs)
      /\ done' = done \cup finished
  BY Zenon DEF Poll
<1> HIDE DEF jobs, counted
<1>4. \A e \in counted : ~Complete(e) => e.n < e.to - e.from /\ k.from + 1 < k.to
  BY <1>2 DEF Complete, Counted, OfRange, Key
<1>5. held'[w] = {e \in counted : ~Complete(e)}
  BY <1>3 DEF TypeOK
<1>6. held' \in [Worker -> SUBSET {e \in Counted : e.n < e.to - e.from}]
  BY <1>2, <1>3, <1>4 DEF TypeOK
<1>7. Forward(k, c) \in Nat /\ (k.from < k.to => k.from <= Forward(k, c) /\ Forward(k, c) < k.to)
  BY DEF Forward, Key
<1>8. NoKey \in Key
  BY DEF NoKey, Key
<1>9. at' \in [Worker -> Key] /\ cursor' \in [Worker -> Nat]
  BY <1>3, <1>7, <1>8 DEF TypeOK
<1>10. ASSUME held'[w] # {}
       PROVE  at'[w] = k /\ k.from <= cursor'[w] /\ cursor'[w] < k.to
  <2>1. PICK e \in counted : ~Complete(e)
    BY <1>5, <1>10
  <2>2. at'[w] = k /\ cursor'[w] = Forward(k, c)
    BY <1>3, <2>1 DEF TypeOK
  <2>3. k.from < k.to
    BY <1>4, <2>1 DEF Key
  <2>4. QED
    BY <1>7, <2>2, <2>3
<1>11. Scores(list, k, c, jobs) \subseteq Request \X Song
  <2>1. \A e \in jobs : e.req \in Request
    BY <1>1 DEF Counted
  <2>2. c + 1 \in DOMAIN list => list[c + 1] \in Song
    BY HashType
  <2>3. QED
    BY <2>1, <2>2 DEF Scores
<1>12. finished \subseteq Job
  BY <1>2 DEF JobOf, Counted, Job
<1>13. results' \subseteq Request \X Song /\ done' \subseteq Job
  BY <1>3, <1>11, <1>12 DEF TypeOK
<1>14. \A v \in Worker : v # w => held'[v] = held[v] /\ at'[v] = at[v] /\ cursor'[v] = cursor[v]
  BY <1>3 DEF TypeOK
<1>15. \A e \in held'[w] : OfRange(e, k)
  BY <1>2, <1>5
<1>16. QED
  BY <1>6, <1>9, <1>10, <1>13, <1>14, <1>15

\* An iteration with a list and a stream that match keeps the invariant.
LEMMA PollKeeps ==
  ASSUME Inv, NEW w \in Worker, NEW i \in DOMAIN pool[w], NEW k \in Key, NEW c \in Nat, NEW idle,
         Matches(pool[w][i], k), KeyFits(k), k.from <= c, \A e \in held[w] : OfRange(e, k),
         Poll(w, pool[w][i], k, c, Available(k, idle)),
         UNCHANGED <<published, pool, asked, seen, changes, faults>>
  PROVE  Inv'
<1> DEFINE new == Available(k, idle)
<1>1. pool[w][i] \in List
  BY PoolHasLists DEF Inv, Process
<1>2. new \in SUBSET Job /\ \A j \in new : OfRange(j, k)
  BY DeliveredOK DEF Inv, StreamInv
<1> HIDE DEF new
<1>3. /\ held' \in [Worker -> SUBSET {e \in Counted : e.n < e.to - e.from}]
      /\ at' \in [Worker -> Key] /\ cursor' \in [Worker -> Nat]
      /\ \A v \in Worker : v # w => held'[v] = held[v] /\ at'[v] = at[v] /\ cursor'[v] = cursor[v]
      /\ held'[w] # {} => at'[w] = k /\ k.from <= cursor'[w] /\ cursor'[w] < k.to
      /\ \A e \in held'[w] : OfRange(e, k)
      /\ results' \subseteq Request \X Song /\ done' \subseteq Job
  BY <1>1, <1>2, PollCounts DEF Inv, new
<1>4. StreamsOK(streams')
  <2>1. \E f : streams' = Acked(Delivered(k, new), k, f)
    BY Zenon DEF Poll, new
  <2>2. StreamsOK(Delivered(k, new))
    BY DeliveredOK DEF Inv, StreamInv, new
  <2>3. QED
    BY <2>1, <2>2, AckedOK
<1>5. TypeOK'
  BY <1>3, <1>4 DEF Inv, TypeOK, StreamsOK
<1>6. StreamInv'
  BY <1>4 DEF Inv, StreamInv, StreamsOK, KeyFits, OfRange
<1>7. WorkerInv'
  <2>1. SUFFICES ASSUME NEW v \in Worker, held'[v] # {}
                 PROVE  /\ KeyFits(at'[v])
                        /\ at'[v].from <= cursor'[v] /\ cursor'[v] < at'[v].to
                        /\ \A e \in held'[v] : OfRange(e, at'[v])
                        /\ \E j \in DOMAIN pool[v] : Matches(pool[v][j], at'[v])
    BY DEF WorkerInv, KeyFits, OfRange, Matches
  <2>2. CASE v = w
    BY <1>3, <2>1, <2>2
  <2>3. CASE v # w
    BY <1>3, <2>1, <2>3 DEF Inv, WorkerInv
  <2>4. QED
    BY <2>2, <2>3
<1>8. QED
  BY <1>5, <1>6, <1>7 DEF Inv

LEMMA DiscoverKeeps ==
  ASSUME Inv, NEW w \in Worker, NEW idle, Discover(w, idle)
  PROVE  Inv'
<1>1. PICK f \in Found(w, idle) :
        Poll(w, pool[w][f[1]], f[2], f[2].from, Available(f[2], idle))
  BY DEF Discover
<1>2. f[1] \in DOMAIN pool[w] /\ f[2] \in DOMAIN streams /\ Matches(pool[w][f[1]], f[2])
  BY DEF Found, ListsOf
<1>3. f[2] \in Key /\ KeyFits(f[2])
  BY <1>2 DEF Inv, StreamInv, StreamsOK
<1>4. f[2].from \in Nat /\ f[2].from <= f[2].from
  BY <1>3 DEF Key
<1>5. held[w] = {} /\ UNCHANGED <<published, pool, asked, seen, changes, faults>>
  BY DEF Discover
<1>6. QED
  BY <1>1, <1>2, <1>3, <1>4, <1>5, PollKeeps

LEMMA TopUpKeeps ==
  ASSUME Inv, NEW w \in Worker, NEW idle, TopUp(w, idle)
  PROVE  Inv'
<1>1. PICK i \in DOMAIN pool[w] :
        /\ Matches(pool[w][i], at[w])
        /\ Poll(w, pool[w][i], at[w], cursor[w], Available(at[w], idle))
  BY DEF TopUp
<1>2. held[w] # {} /\ UNCHANGED <<published, pool, asked, seen, changes, faults>>
  BY DEF TopUp
<1>3. /\ KeyFits(at[w]) /\ at[w].from <= cursor[w] /\ \A e \in held[w] : OfRange(e, at[w])
      /\ at[w] \in Key /\ cursor[w] \in Nat
  BY <1>2 DEF Inv, WorkerInv, TypeOK
<1>4. QED
  BY <1>1, <1>2, <1>3, PollKeeps

LEMMA ExitKeeps ==
  ASSUME Inv, NEW w \in Worker, Exit(w), StreamsOK(streams')
  PROVE  Inv'
<1>1. faults' \in 0 .. MaxFaults
  BY ConstantsAssumption DEF Inv, TypeOK, Exit, Fault
<1>2. NoKey \in Key
  BY DEF NoKey, Key
<1>3. w \in Process /\ <<>> \in Seq(List)
  BY DEF Process
<1>4. TypeOK'
  BY <1>1, <1>2, <1>3 DEF Inv, TypeOK, Exit, StreamsOK
<1>5. StreamInv'
  BY DEF Inv, StreamInv, StreamsOK, KeyFits, OfRange, Exit
<1>6. WorkerInv'
  <2>1. SUFFICES ASSUME NEW v \in Worker, held'[v] # {}
                 PROVE  /\ KeyFits(at'[v])
                        /\ at'[v].from <= cursor'[v] /\ cursor'[v] < at'[v].to
                        /\ \A e \in held'[v] : OfRange(e, at'[v])
                        /\ \E j \in DOMAIN pool'[v] : Matches(pool'[v][j], at'[v])
    BY DEF WorkerInv, KeyFits, OfRange, Matches
  <2>2. /\ v # w /\ held'[v] = held[v] /\ at'[v] = at[v] /\ cursor'[v] = cursor[v]
        /\ pool'[v] = pool[v]
    BY <2>1 DEF Inv, TypeOK, Exit, Process
  <2>3. QED
    BY <2>1, <2>2 DEF Inv, WorkerInv
<1>7. QED
  BY <1>4, <1>5, <1>6 DEF Inv, Exit

\* resume_state writes the jobs back to the stream they are from.
LEMMA StopKeeps ==
  ASSUME Inv, NEW w \in Worker, Stop(w)
  PROVE  Inv'
<1> DEFINE jobs == {JobOf(e) : e \in held[w]}
<1>1. CASE jobs = {}
  BY <1>1, ExitKeeps DEF Stop, Inv, StreamInv
<1>2. CASE jobs # {}
  <2>1. at[w] \in Key /\ KeyFits(at[w]) /\ \A e \in held[w] : OfRange(e, at[w])
    BY <1>2 DEF Inv, WorkerInv, TypeOK
  <2>2. jobs \in SUBSET Job /\ \A j \in jobs : OfRange(j, at[w])
    BY <2>1 DEF Inv, TypeOK, JobOf, Counted, Job, OfRange
  <2>3. StreamsOK(Acked(Added(at[w], jobs), at[w], jobs))
    BY <2>1, <2>2, AddedOK, AckedOK DEF Inv, StreamInv
  <2>4. streams' = Acked(Added(at[w], jobs), at[w], jobs) /\ Exit(w)
    BY <1>2 DEF Stop
  <2>5. QED
    BY <2>3, <2>4, ExitKeeps
<1>3. QED
  BY <1>1, <1>2

LEMMA CrashKeeps ==
  ASSUME Inv, NEW w \in Worker, Crash(w)
  PROVE  Inv'
BY ExitKeeps DEF Crash, Inv, StreamInv

----------------------------------------------------------------------------
(* The entry *)

\* Ranges lie within the list, and a key made or found for one fits it.
LEMMA PartsAreOK ==
  ASSUME Inv, NEW list \in List, NEW ranges, NEW ts \in Nat,
         \A range \in ranges : range.from \in Nat /\ range.to \in Nat /\ range.to <= Len(list),
         NEW parts \in PartsFor(ranges, calc_song_list_hash(list), ts)
  PROVE  parts \in SUBSET Part /\ \A part \in parts : KeyFits(part.key) /\ OfRange(part, part.key)
<1> DEFINE hash == calc_song_list_hash(list)
<1>1. hash \in SUBSET Song
  BY HashType
<1>2. ASSUME NEW range \in ranges, NEW k \in Target(range, hash, ts)
      PROVE  k \in Key /\ KeyFits(k) /\ OfRange(range, k)
  <2>1. CASE k = [hash |-> hash, ts |-> ts, from |-> range.from, to |-> range.to]
    <3>1. k \in Key /\ OfRange(range, k) /\ k.hash = hash /\ k.to = range.to
      BY <1>1, <2>1 DEF Key, OfRange
    <3>2. \A l \in List : calc_song_list_hash(l) = hash => Len(l) = Len(list)
      BY ConstantsAssumption
    <3>3. QED
      BY <3>1, <3>2, HashType DEF KeyFits
  <2>2. CASE k \in DOMAIN streams /\ SameSegment(k, range)
    BY <2>2 DEF Inv, StreamInv, StreamsOK, SameSegment, OfRange
  <2>3. QED
    BY <1>2, <2>1, <2>2 DEF Target
<1> HIDE DEF hash
<1>3. PICK f : /\ parts = {[from |-> range.from, to |-> range.to, key |-> f[range]] : range \in ranges}
               /\ \A range \in ranges : f[range] \in Target(range, hash, ts)
  BY DEF PartsFor, hash
<1>4. QED
  BY <1>2, <1>3 DEF Part, OfRange

LEMMA EnqueueKeeps ==
  ASSUME Inv, NEW r \in Request, NEW ranges, NEW ts \in Nat, pool[Entry] # <<>>, Enqueue(r, ranges, ts),
         \A range \in ranges :
           range.from \in Nat /\ range.to \in Nat /\ range.to <= Len(Head(pool[Entry])),
         UNCHANGED <<published, pool, streams, workerVars, results, done, seen, changes, faults>>
  PROVE  Inv'
<1> DEFINE list == Head(pool[Entry])
<1>1. list \in List
  BY DEF Inv, TypeOK, Process
<1>2. PICK parts \in PartsFor(ranges, calc_song_list_hash(list), ts) :
        asked' = [asked EXCEPT ![r] = [list |-> list, parts |-> parts, todo |-> parts]]
  BY DEF Enqueue
<1>3. parts \in SUBSET Part /\ \A part \in parts : KeyFits(part.key) /\ OfRange(part, part.key)
  BY <1>1, <1>2, PartsAreOK
<1> HIDE DEF list
<1>4. TypeOK'
  BY <1>1, <1>2, <1>3 DEF Inv, TypeOK, workerVars
<1>5. \A q \in Request : q # r => asked'[q] = asked[q]
  BY <1>2 DEF Inv, TypeOK
<1>6. asked'[r].parts = parts /\ asked'[r].todo = parts
  BY <1>2 DEF Inv, TypeOK
<1>7. StreamInv'
  BY <1>3, <1>5, <1>6 DEF Inv, StreamInv, StreamsOK, KeyFits, OfRange
<1>8. WorkerInv'
  BY DEF Inv, WorkerInv, KeyFits, OfRange, Matches, workerVars
<1>9. QED
  BY <1>4, <1>5, <1>6, <1>7, <1>8 DEF Inv

LEMMA AskKeeps ==
  ASSUME Inv, NEW r \in Request, Ask(r)
  PROVE  Inv'
<1>1. pool[Entry] # <<>> /\ Head(pool[Entry]) \in List
  BY DEF Ask, Inv, TypeOK, Process
<1>2. Len(Head(pool[Entry])) \in Nat
  BY <1>1, HashType
<1>3. UNCHANGED <<published, pool, streams, workerVars, results, done, seen, changes, faults>>
  BY DEF Ask
<1>4. CASE \E ranges \in Ranges(Len(Head(pool[Entry]))) : Enqueue(r, ranges, r)
  <2> DEFINE n == Len(Head(pool[Entry]))
  <2>1. PICK ranges \in Ranges(n) : Enqueue(r, ranges, r)
    BY <1>4
  <2> HIDE DEF n
  <2>2. PICK S \in SUBSET (1 .. n - 1) :
          \A range \in ranges : range \in [from : {0} \cup S, to : S \cup {n}]
    BY <2>1 DEF Ranges
  <2>3. n \in Nat
    BY <1>2 DEF n
  <2>4. \A range \in ranges : range.from \in Nat /\ range.to \in Nat /\ range.to <= n
    <3>1. SUFFICES ASSUME NEW range \in ranges
                   PROVE  range.from \in Nat /\ range.to \in Nat /\ range.to <= n
      OBVIOUS
    <3>2. range.from \in {0} \cup S /\ range.to \in S \cup {n}
      BY <2>2
    <3>3. \A x \in S : x \in 1 .. n - 1
      OBVIOUS
    <3>4. range.from = 0 \/ range.from \in 1 .. n - 1
      BY <3>2, <3>3
    <3>5. range.to = n \/ range.to \in 1 .. n - 1
      BY <3>2, <3>3
    <3>6. QED
      BY <2>3, <3>4, <3>5
  <2>5. r \in Nat
    BY DEF Request
  <2>6. QED
    BY <1>1, <1>3, <2>1, <2>4, <2>5, EnqueueKeeps DEF n
<1>5. CASE Enqueue(r, {[from |-> 0, to |-> 0]}, 0)
  BY <1>1, <1>2, <1>3, <1>5, EnqueueKeeps
<1>6. QED
  BY <1>4, <1>5 DEF Ask

LEMMA WriteKeeps ==
  ASSUME Inv, NEW r \in Request, Write(r)
  PROVE  Inv'
<1>1. PICK part \in asked[r].todo :
        /\ streams' = Added(part.key, {[req |-> r, from |-> part.from, to |-> part.to]})
        /\ asked' = [asked EXCEPT ![r].todo = @ \ {part}]
        /\ UNCHANGED <<published, pool, workerVars, results, done, seen, changes, faults>>
  BY DEF Write
<1>2. part \in Part /\ KeyFits(part.key) /\ OfRange(part, part.key)
  BY DEF Inv, TypeOK, StreamInv
<1> DEFINE job == [req |-> r, from |-> part.from, to |-> part.to]
<1>3. part.key \in Key /\ job \in Job /\ OfRange(job, part.key)
  BY <1>2 DEF Part, Job, OfRange
<1> HIDE DEF job
<1>4. StreamsOK(streams')
  BY <1>1, <1>2, <1>3, AddedOK DEF Inv, StreamInv, job
<1>5. asked[r] \in [list : List \cup {NoList}, parts : SUBSET Part, todo : SUBSET Part]
  BY DEF Inv, TypeOK
<1>6. /\ asked' = [asked EXCEPT ![r] = [list |-> asked[r].list, parts |-> asked[r].parts,
                                       todo |-> asked[r].todo \ {part}]]
  <2>1. [asked[r] EXCEPT !.todo = @ \ {part}] =
          [list |-> asked[r].list, parts |-> asked[r].parts, todo |-> asked[r].todo \ {part}]
    BY <1>5
  <2>2. asked' = [asked EXCEPT ![r] = [asked[r] EXCEPT !.todo = @ \ {part}]]
    BY Zenon, <1>1
  <2>3. QED
    BY <2>1, <2>2
<1>7. asked' \in [Request -> [list : List \cup {NoList}, parts : SUBSET Part, todo : SUBSET Part]]
  BY <1>5, <1>6 DEF Inv, TypeOK
<1>8. \A q \in Request : asked'[q].parts = asked[q].parts /\ asked'[q].todo \subseteq asked[q].todo
  BY <1>6 DEF Inv, TypeOK
<1>9. TypeOK'
  BY <1>1, <1>4, <1>7 DEF Inv, TypeOK, StreamsOK, workerVars
<1>10. StreamInv'
  BY <1>4, <1>8 DEF Inv, StreamInv, StreamsOK, KeyFits, OfRange
<1>11. WorkerInv'
  BY <1>1 DEF Inv, WorkerInv, KeyFits, OfRange, Matches, workerVars
<1>12. QED
  BY <1>8, <1>9, <1>10, <1>11 DEF Inv

\* What goes wrong with a request touches nothing but its own record, and may
\* restart the entry.
LEMMA RefuseKeeps ==
  ASSUME Inv, Fault, pool' \in [Process -> Seq(List)],
         \A w \in Worker : pool'[w] = pool[w],
         asked' = [r \in Request |-> asked'[r]],
         \A r \in Request : asked'[r] \in {asked[r], Refused(r)},
         UNCHANGED <<published, streams, workerVars, results, done, seen, changes>>
  PROVE  Inv'
<1>1. faults' \in 0 .. MaxFaults
  BY ConstantsAssumption DEF Inv, TypeOK, Fault
<1>2. ASSUME NEW r \in Request
      PROVE  /\ asked'[r] \in [list : List \cup {NoList}, parts : SUBSET Part, todo : SUBSET Part]
             /\ asked'[r].parts \in {{}, asked[r].parts} /\ asked'[r].todo \subseteq asked'[r].parts
  <2>1. /\ asked[r] \in [list : List \cup {NoList}, parts : SUBSET Part, todo : SUBSET Part]
        /\ asked[r].todo \subseteq asked[r].parts
    BY DEF Inv, TypeOK
  <2>2. asked'[r] = asked[r] \/ asked'[r] = [list |-> asked[r].list, parts |-> {}, todo |-> {}]
    BY DEF Refused
  <2>3. QED
    BY <2>1, <2>2
<1>3. TypeOK'
  BY <1>1, <1>2 DEF Inv, TypeOK, workerVars
<1>4. StreamInv'
  BY <1>2 DEF Inv, StreamInv, StreamsOK, KeyFits, OfRange
<1>5. WorkerInv'
  BY DEF Inv, WorkerInv, KeyFits, OfRange, Matches, workerVars
<1>6. QED
  BY <1>2, <1>3, <1>4, <1>5 DEF Inv

LEMMA WriteFailsKeeps ==
  ASSUME Inv, NEW r \in Request, WriteFails(r)
  PROVE  Inv'
<1>1. asked' = [asked EXCEPT ![r] = Refused(r)]
  BY DEF WriteFails
<1>2. asked' = [q \in Request |-> asked'[q]] /\ \A q \in Request : asked'[q] \in {asked[q], Refused(q)}
  BY <1>1 DEF Inv, TypeOK
<1>3. QED
  BY <1>1, <1>2, RefuseKeeps DEF WriteFails, Inv, TypeOK

LEMMA RestartEntryKeeps ==
  ASSUME Inv, RestartEntry
  PROVE  Inv'
<1>1. /\ asked' = [r \in Request |-> IF asked[r].todo # {} THEN Refused(r) ELSE asked[r]]
      /\ pool' = [pool EXCEPT ![Entry] = <<>>]
  BY DEF RestartEntry
<1>2. pool' \in [Process -> Seq(List)] /\ \A w \in Worker : pool'[w] = pool[w]
  BY <1>1, ConstantsAssumption DEF Inv, TypeOK, Process
<1>3. asked' = [q \in Request |-> asked'[q]] /\ \A q \in Request : asked'[q] \in {asked[q], Refused(q)}
  BY <1>1
<1>4. QED
  BY <1>2, <1>3, RefuseKeeps DEF RestartEntry

----------------------------------------------------------------------------
(* Lists and time *)

LEMMA PublishKeeps ==
  ASSUME Inv, NEW list \in List, Publish(list)
  PROVE  Inv'
<1>1. TypeOK'
  BY ConstantsAssumption DEF Inv, TypeOK, Publish, workerVars
<1>2. StreamInv' /\ WorkerInv' /\ \A r \in Request : asked'[r].todo \subseteq asked'[r].parts
  BY DEF Inv, StreamInv, StreamsOK, WorkerInv, KeyFits, OfRange, Matches, Publish, workerVars
<1>3. QED
  BY <1>1, <1>2 DEF Inv

\* The pool grows at its front: what matched a stream still does.
LEMMA SyncKeeps ==
  ASSUME Inv, NEW p \in Process, Sync(p)
  PROVE  Inv'
<1> DEFINE longer == <<published>> \o pool[p]
<1>1. pool' = [pool EXCEPT ![p] = longer]
  BY DEF Sync, Insert
<1>2. pool[p] \in Seq(List) /\ published \in List
  BY DEF Inv, TypeOK
<1>3. longer \in Seq(List) /\ Len(longer) = Len(pool[p]) + 1
  BY <1>2
<1>4. \A i \in DOMAIN pool[p] : i + 1 \in DOMAIN longer /\ longer[i + 1] = pool[p][i]
  BY <1>2, <1>3
<1> HIDE DEF longer
<1>5. TypeOK'
  BY <1>1, <1>3 DEF Inv, TypeOK, Sync, workerVars
<1>6. StreamInv' /\ \A r \in Request : asked'[r].todo \subseteq asked'[r].parts
  BY DEF Inv, StreamInv, StreamsOK, KeyFits, OfRange, Sync
<1>7. WorkerInv'
  <2>1. SUFFICES ASSUME NEW w \in Worker, held[w] # {}
                 PROVE  /\ KeyFits(at[w])
                        /\ at[w].from <= cursor[w] /\ cursor[w] < at[w].to
                        /\ \A e \in held[w] : OfRange(e, at[w])
                        /\ \E i \in DOMAIN pool'[w] : Matches(pool'[w][i], at[w])
    BY DEF WorkerInv, KeyFits, OfRange, Matches, Sync, workerVars
  <2>2. PICK i \in DOMAIN pool[w] : Matches(pool[w][i], at[w])
    BY <2>1 DEF Inv, WorkerInv
  <2>3. \E j \in DOMAIN pool'[w] : Matches(pool'[w][j], at[w])
    <3>1. CASE w = p
      <4>1. pool'[w] = longer
        BY <1>1, <3>1 DEF Inv, TypeOK
      <4>2. QED
        BY <1>4, <2>2, <3>1, <4>1
    <3>2. CASE w # p
      <4>1. pool'[w] = pool[w]
        BY <1>1, <3>2 DEF Inv, TypeOK, Process
      <4>2. QED
        BY <2>2, <4>1
    <3>3. QED
      BY <3>1, <3>2
  <2>4. QED
    BY <2>1, <2>3 DEF Inv, WorkerInv
<1>8. QED
  BY <1>5, <1>6, <1>7 DEF Inv

LEMMA ExpireKeeps ==
  ASSUME Inv, NEW k \in DOMAIN streams, Expire(k)
  PROVE  Inv'
<1>1. faults' \in 0 .. MaxFaults
  BY ConstantsAssumption DEF Inv, TypeOK, Expire, Fault
<1>2. DOMAIN streams' \subseteq DOMAIN streams /\ \A x \in DOMAIN streams' : streams'[x] = streams[x]
  BY DEF Expire
<1>3. StreamsOK(streams')
  BY <1>2 DEF Inv, StreamInv, StreamsOK
<1>4. TypeOK'
  BY <1>1, <1>3 DEF Inv, TypeOK, StreamsOK, Expire, workerVars
<1>5. StreamInv' /\ \A r \in Request : asked'[r].todo \subseteq asked'[r].parts
  BY <1>3 DEF Inv, StreamInv, StreamsOK, KeyFits, OfRange, Expire
<1>6. WorkerInv'
  BY DEF Inv, WorkerInv, KeyFits, OfRange, Matches, Expire, workerVars
<1>7. QED
  BY <1>4, <1>5, <1>6 DEF Inv

----------------------------------------------------------------------------
(* Theorems *)

LEMMA InitOK == Init => Inv
<1>1. SUFFICES ASSUME Init PROVE Inv
  OBVIOUS
<1>2. NoKey \in Key /\ <<>> \in Seq(List) /\ DOMAIN streams = {}
  BY <1>1 DEF NoKey, Key, Init
<1>3. /\ pool \in [Process -> Seq(List)]
      /\ asked \in [Request -> [list : List \cup {NoList}, parts : SUBSET Part, todo : SUBSET Part]]
  BY <1>1, <1>2 DEF Init
<1>4. TypeOK
  BY <1>1, <1>2, <1>3, ConstantsAssumption DEF Init, TypeOK
<1>5. StreamInv /\ WorkerInv /\ \A r \in Request : asked[r].todo \subseteq asked[r].parts
  BY <1>1, <1>2 DEF Init, StreamInv, StreamsOK, WorkerInv
<1>6. QED
  BY <1>4, <1>5 DEF Inv

LEMMA NextKeeps == Inv /\ [Next]_vars => Inv'
<1>1. SUFFICES ASSUME Inv, [Next]_vars PROVE Inv'
  OBVIOUS
<1>2. CASE \E list \in List : Publish(list)
  BY <1>1, <1>2, PublishKeeps
<1>3. CASE \E p \in Process : Sync(p)
  BY <1>1, <1>3, SyncKeeps
<1>4. CASE \E r \in Request : Ask(r)
  BY <1>1, <1>4, AskKeeps
<1>5. CASE \E r \in Request : Write(r)
  BY <1>1, <1>5, WriteKeeps
<1>6. CASE \E r \in Request : WriteFails(r)
  BY <1>1, <1>6, WriteFailsKeeps
<1>7. CASE RestartEntry
  BY <1>1, <1>7, RestartEntryKeeps
<1>8. CASE \E w \in Worker : Iterate(w)
  <2>1. PICK w \in Worker : Iterate(w)
    BY <1>8
  <2>2. PICK idle : Discover(w, idle) \/ TopUp(w, idle)
    BY <2>1, Zenon DEF Iterate
  <2>3. QED
    BY <1>1, <2>2, DiscoverKeeps, TopUpKeeps
<1>9. CASE \E w \in Worker : Stop(w) \/ Crash(w)
  BY <1>1, <1>9, StopKeeps, CrashKeeps
<1>10. CASE \E k \in DOMAIN streams : Expire(k)
  BY <1>1, <1>10, ExpireKeeps
<1>11. CASE UNCHANGED vars
  BY <1>1, <1>11 DEF vars, workerVars, Inv, TypeOK, StreamInv, StreamsOK, WorkerInv, KeyFits, OfRange, Matches
<1>12. QED
  BY Zenon, <1>1, <1>2, <1>3, <1>4, <1>5, <1>6, <1>7, <1>8, <1>9, <1>10, <1>11 DEF Next

LEMMA Invariant == Spec => []Inv
BY InitOK, NextKeeps, PTL DEF Spec

\* Every variable has its type, and no job a worker holds was counted for the
\* whole length of its range.
THEOREM TypeCorrect == Spec => []TypeOK
<1>1. Inv => TypeOK
  BY DEF Inv
<1>2. QED
  BY <1>1, Invariant, PTL

\* However often the list is republished, a worker never looks in vain for the
\* list of the jobs it holds.
THEOREM ListsAreKept == Spec => []HeldListKnown
<1>1. Inv => HeldListKnown
  BY DEF Inv, WorkerInv, HeldListKnown
<1>2. QED
  BY <1>1, Invariant, PTL

\* Whatever streams are reused for whatever lists, a worker polls songs that are
\* in its list and in the range of every job it holds.
THEOREM ReuseStaysInRange == Spec => []PollsInRange
<1>1. ASSUME Inv PROVE PollsInRange
  <2>1. SUFFICES ASSUME NEW w \in Worker, held[w] # {}
                 PROVE  /\ \A i \in DOMAIN pool[w] :
                             Matches(pool[w][i], at[w]) => cursor[w] + 1 \in DOMAIN pool[w][i]
                        /\ \A e \in held[w] : e.from <= cursor[w] /\ cursor[w] < e.to
    BY DEF PollsInRange
  <2>2. /\ KeyFits(at[w]) /\ at[w].from <= cursor[w] /\ cursor[w] < at[w].to
        /\ \A e \in held[w] : OfRange(e, at[w])
        /\ cursor[w] \in Nat /\ at[w] \in Key
    BY <1>1, <2>1 DEF Inv, WorkerInv, TypeOK
  <2>3. ASSUME NEW i \in DOMAIN pool[w], Matches(pool[w][i], at[w])
        PROVE  cursor[w] + 1 \in DOMAIN pool[w][i]
    <3>1. pool[w][i] \in List
      BY <1>1, PoolHasLists DEF Inv, Process
    <3>2. at[w].to <= Len(pool[w][i])
      BY <2>2, <2>3, <3>1 DEF KeyFits, Matches
    <3>3. QED
      BY <2>2, <3>1, <3>2, HashType DEF Key
  <2>4. QED
    BY <2>2, <2>3 DEF OfRange
<1>2. QED
  BY <1>1, Invariant, PTL

----------------------------------------------------------------------------
(* What a request is answered with *)

\* The published lists of a hash.
Named(lists, hash) == {l \in lists : calc_song_list_hash(l) = hash}

\* A hash stands for one order of songs.
OneOrder(lists) ==
  \A l, m \in lists : calc_song_list_hash(l) = calc_song_list_hash(m) => l = m

\* Lists and hashes in use have been published.
SeenInv ==
  /\ published \in seen
  /\ \A p \in Process : \A i \in DOMAIN pool[p] : pool[p][i] \in seen
  /\ \A k \in DOMAIN streams : Named(seen, k.hash) # {}

Covers(parts, n) ==
  \/ \E part \in parts : part.from = part.to
  \/ \A i \in 1 .. n : \E part \in parts : part.from < i /\ i <= part.to

\* A request for scores was cut into ranges of the entry's list that cover it,
\* each with one stream.
CutOK(parts, list, lists) ==
  /\ list \in lists
  /\ \A part \in parts :
       Named(lists, part.key.hash) # {} /\ part.from <= part.to /\ part.to <= Len(list)
  /\ \A p, q \in parts : OfRange(p, q) => p = q
  /\ Covers(parts, Len(list))

PartsInv ==
  \A r \in Request : asked[r].parts # {} => CutOK(asked[r].parts, asked[r].list, seen)

\* The job is one of those its request was cut into, in the stream chosen for
\* it; nothing is said of a request that was refused.
Belongs(a, j, k) ==
  /\ a[j.req].list # NoList
  /\ a[j.req].parts # {} => \E part \in a[j.req].parts : part.key = k /\ OfRange(part, j)

JobsInv ==
  /\ \A k \in DOMAIN streams : \A j \in streams[k].waiting \cup streams[k].pending :
       Belongs(asked, j, k)
  /\ \A w \in Worker : \A e \in held[w] : Belongs(asked, e, at[w])

\* How many songs ago a cursor that is at c was at i.
Back(k, c, i) == IF i < c THEN c - i ELSE c - i + (k.to - k.from)

\* The last e.n songs before the cursor have been polled for the job.
Polled(res, lists, e, k, c) ==
  \A i \in k.from .. k.to - 1 : Back(k, c, i) <= e.n =>
    \A l \in Named(lists, k.hash) : <<e.req, l[i + 1]>> \in res

Scanned(res, lists, a, j) ==
  \A part \in a[j.req].parts : OfRange(part, j) =>
    \A l \in Named(lists, part.key.hash) : \A song \in SongsIn(l, part) :
      <<j.req, song>> \in res

Wanted(a, lists, r, song) ==
  \E part \in a[r].parts : \E l \in Named(lists, part.key.hash) : song \in SongsIn(l, part)

ScanInv ==
  /\ \A r \in Request : \A song \in Song : <<r, song>> \in results =>
       asked[r].list # NoList /\ (asked[r].parts # {} => Wanted(asked, seen, r, song))
  /\ \A j \in done : asked[j.req].list # NoList
  /\ OneOrder(seen) =>
       /\ \A w \in Worker : \A e \in held[w] : Polled(results, seen, e, at[w], cursor[w])
       /\ \A j \in done : Scanned(results, seen, asked, j)

AnswerInv == Inv /\ SeenInv /\ PartsInv /\ JobsInv /\ ScanInv

\* What every step does to the lists, the results and the requests.
Grows ==
  /\ seen \subseteq seen' /\ results \subseteq results'
  /\ \A r \in Request : asked[r].list # NoList =>
       asked'[r].list = asked[r].list /\ asked'[r].parts \in {asked[r].parts, {}}

LEMMA AnswerInit == Init => AnswerInv
<1> SUFFICES ASSUME Init PROVE AnswerInv
  OBVIOUS
<1>1. DOMAIN streams = {} /\ DOMAIN <<>> = {}
  BY DEF Init
<1>2. SeenInv /\ PartsInv /\ JobsInv /\ ScanInv
  BY <1>1 DEF Init, SeenInv, PartsInv, JobsInv, ScanInv
<1>3. QED
  BY <1>2, InitOK DEF AnswerInv

LEMMA StepGrows ==
  ASSUME Inv, [Next]_vars
  PROVE  Grows
<1> DEFINE Same(r) ==
      asked'[r].list = asked[r].list /\ asked'[r].parts \in {asked[r].parts, {}}
<1>1. CASE \E list \in List : Publish(list)
  BY <1>1 DEF Publish, Grows
<1>2. CASE \E p \in Process : Sync(p)
  BY <1>2 DEF Sync, Grows
<1>3. ASSUME NEW r \in Request, Ask(r) PROVE Grows
  <2>1. \A q \in Request : q # r => asked'[q] = asked[q]
    BY <1>3 DEF Ask, Enqueue, Inv, TypeOK
  <2>2. asked[r].list = NoList /\ seen' = seen /\ results' = results
    BY <1>3 DEF Ask
  <2>3. QED
    BY <2>1, <2>2 DEF Grows
<1>4. ASSUME NEW r \in Request, Write(r) PROVE Grows
  <2>1. PICK part : asked' = [asked EXCEPT ![r].todo = @ \ {part}]
    BY <1>4 DEF Write
  <2>2. \A q \in Request : asked[q] \in [list : List \cup {NoList}, parts : SUBSET Part, todo : SUBSET Part]
    BY DEF Inv, TypeOK
  <2>3. ASSUME NEW q \in Request PROVE Same(q)
    <3>1. CASE q # r
      BY <2>1, <3>1 DEF Inv, TypeOK
    <3>2. CASE q = r
      BY <2>1, <2>2, <3>2 DEF Inv, TypeOK
    <3>3. QED
      BY <3>1, <3>2
  <2>4. QED
    BY <1>4, <2>3 DEF Write, Grows
<1>5. CASE RestartEntry \/ \E r \in Request : WriteFails(r)
  <2>1. \A q \in Request : asked'[q] \in {asked[q], Refused(q)}
    BY <1>5 DEF RestartEntry, WriteFails, Inv, TypeOK
  <2>2. \A q \in Request : Same(q)
    BY <2>1 DEF Refused
  <2>3. QED
    BY <1>5, <2>2 DEF RestartEntry, WriteFails, Grows
<1>6. CASE \E w \in Worker : Iterate(w)
  <2>1. PICK w \in Worker : \E idle : Discover(w, idle) \/ TopUp(w, idle)
    BY <1>6, Zenon DEF Iterate
  <2>2. \E list, k, c, new : Poll(w, list, k, c, new)
    BY <2>1 DEF Discover, TopUp
  <2>3. results \subseteq results'
    BY <2>2 DEF Poll
  <2>4. UNCHANGED <<asked, seen>>
    BY <2>1 DEF Discover, TopUp
  <2>5. QED
    BY <2>3, <2>4 DEF Grows
<1>7. CASE \E w \in Worker : Stop(w) \/ Crash(w)
  BY <1>7 DEF Stop, Crash, Exit, Grows
<1>8. CASE \E k \in DOMAIN streams : Expire(k)
  BY <1>8 DEF Expire, Grows
<1>9. CASE UNCHANGED vars
  BY <1>9 DEF vars, Grows
<1>10. QED
  BY Zenon, <1>1, <1>2, <1>3, <1>4, <1>5, <1>6, <1>7, <1>8, <1>9 DEF Next

\* A hash that was known stays known, and to those who tell lists by their hash
\* it stays the same list.
LEMMA NamedGrows ==
  ASSUME Grows, NEW hash
  PROVE  /\ Named(seen, hash) \subseteq Named(seen', hash)
         /\ OneOrder(seen') => OneOrder(seen)
         /\ OneOrder(seen') /\ Named(seen, hash) # {} => Named(seen', hash) = Named(seen, hash)
BY DEF Grows, Named, OneOrder

LEMMA BelongsKept ==
  ASSUME Grows, NEW j, j.req \in Request, NEW k, Belongs(asked, j, k)
  PROVE  Belongs(asked', j, k)
BY DEF Grows, Belongs

\* The requests' parts of the invariant, if a step asks no new one.
LEMMA PartsFrame ==
  ASSUME PartsInv, Grows,
         \A r \in Request : asked[r].list = NoList => asked'[r].parts = {} \/ asked'[r] = asked[r]
  PROVE  PartsInv'
<1>1. SUFFICES ASSUME NEW r \in Request, asked'[r].parts # {}
               PROVE  CutOK(asked'[r].parts, asked'[r].list, seen')
  BY DEF PartsInv, CutOK, Named, Covers, OfRange
<1>2. asked'[r].parts = asked[r].parts /\ asked'[r].list = asked[r].list
  BY <1>1 DEF Grows
<1>3. CutOK(asked[r].parts, asked[r].list, seen)
  BY <1>1, <1>2 DEF PartsInv
<1>4. \A hash : Named(seen, hash) # {} => Named(seen', hash) # {}
  BY NamedGrows
<1>5. QED
  BY <1>2, <1>3, <1>4 DEF CutOK, Grows

\* The jobs', if a step puts jobs only where they belong.
LEMMA JobsFrame ==
  ASSUME Inv, JobsInv, Grows,
         \A k \in DOMAIN streams' : \A j \in streams'[k].waiting \cup streams'[k].pending :
           \/ k \in DOMAIN streams /\ j \in streams[k].waiting \cup streams[k].pending
           \/ j.req \in Request /\ Belongs(asked, j, k),
         \A w \in Worker : \A e \in held'[w] : e.req \in Request /\ Belongs(asked, e, at'[w])
  PROVE  JobsInv'
<1>1. ASSUME NEW k \in DOMAIN streams', NEW j \in streams'[k].waiting \cup streams'[k].pending
      PROVE  Belongs(asked', j, k)
  <2>1. j.req \in Request /\ Belongs(asked, j, k)
    BY DEF JobsInv, Inv, TypeOK, Job
  <2>2. QED
    BY <2>1, BelongsKept
<1>2. ASSUME NEW w \in Worker, NEW e \in held'[w]
      PROVE  Belongs(asked', e, at'[w])
  BY BelongsKept
<1>3. QED
  BY <1>1, <1>2 DEF JobsInv, Belongs, OfRange

\* The results', if a step polls no song.
LEMMA ScanFrame ==
  ASSUME Inv, SeenInv, PartsInv, ScanInv, Grows,
         results' = results, done' = done,
         \A w \in Worker : held'[w] # {} =>
           held'[w] = held[w] /\ at'[w] = at[w] /\ cursor'[w] = cursor[w]
  PROVE  ScanInv'
<1>1. ASSUME NEW r \in Request, NEW song \in Song, <<r, song>> \in results
      PROVE  /\ asked'[r].list # NoList
             /\ asked'[r].parts # {} => Wanted(asked', seen', r, song)
  <2>1. asked[r].list # NoList /\ (asked[r].parts # {} => Wanted(asked, seen, r, song))
    BY <1>1 DEF ScanInv
  <2>2. asked'[r].list = asked[r].list /\ asked'[r].parts \in {asked[r].parts, {}}
    BY <2>1 DEF Grows
  <2>3. \A hash : Named(seen, hash) \subseteq Named(seen', hash)
    BY NamedGrows
  <2>4. QED
    BY <2>1, <2>2, <2>3 DEF Wanted
<1>2. ASSUME NEW j \in done
      PROVE  asked'[j.req].list # NoList /\ asked'[j.req].parts \in {asked[j.req].parts, {}}
  BY DEF ScanInv, Grows, Inv, TypeOK, Job
<1>3. ASSUME OneOrder(seen'), NEW w \in Worker, NEW e \in held'[w]
      PROVE  Polled(results', seen', e, at'[w], cursor'[w])
  <2>1. held'[w] = held[w] /\ at'[w] = at[w] /\ cursor'[w] = cursor[w]
    BY <1>3
  <2>2. Named(seen, at[w].hash) # {}
    BY <1>3, <2>1 DEF Inv, WorkerInv, SeenInv, Matches, Named, Process
  <2>3. OneOrder(seen) /\ Named(seen', at[w].hash) = Named(seen, at[w].hash)
    BY <1>3, <2>2, NamedGrows
  <2>4. Polled(results, seen, e, at[w], cursor[w])
    BY <1>3, <2>1, <2>3 DEF ScanInv
  <2>5. QED
    BY <2>1, <2>3, <2>4 DEF Polled
<1>4. ASSUME OneOrder(seen'), NEW j \in done
      PROVE  Scanned(results', seen', asked', j)
  <2>1. SUFFICES ASSUME asked'[j.req].parts # {} PROVE Scanned(results', seen', asked', j)
    BY DEF Scanned
  <2>2. asked'[j.req].parts = asked[j.req].parts /\ j.req \in Request
    BY <1>2, <2>1 DEF Inv, TypeOK, Job
  <2>3. \A part \in asked[j.req].parts : Named(seen, part.key.hash) # {}
    BY <2>2 DEF PartsInv, CutOK
  <2>4. \A part \in asked[j.req].parts : Named(seen', part.key.hash) = Named(seen, part.key.hash)
    BY <1>4, <2>3, NamedGrows
  <2>5. Scanned(results, seen, asked, j)
    BY <1>4, NamedGrows DEF ScanInv
  <2>6. QED
    BY <2>2, <2>4, <2>5 DEF Scanned
<1>5. QED
  BY <1>1, <1>2, <1>3, <1>4
  DEF ScanInv, Wanted, Named, SongsIn, OneOrder, Polled, Back, Scanned, OfRange

----------------------------------------------------------------------------
(* What a request is answered with: the steps *)

\* Streams after XADD, XACK and a delivery hold what they held and what was added.
LEMMA StreamsHold ==
  ASSUME StreamsOK(streams), NEW k, NEW jobs, NEW more
  PROVE  LET In(s, x) == s[x].waiting \cup s[x].pending
             a == Added(k, more)
             d == Delivered(k, jobs)
         IN  /\ DOMAIN a = DOMAIN streams \cup {k} /\ DOMAIN d = DOMAIN streams
             /\ \A x \in DOMAIN a : \A j \in In(a, x) :
                  (x \in DOMAIN streams /\ j \in In(streams, x)) \/ (x = k /\ j \in more)
             /\ \A x \in DOMAIN d : \A j \in In(d, x) :
                  j \in In(streams, x) \/ (x = k /\ j \in jobs)
<1> DEFINE In(s, x) == s[x].waiting \cup s[x].pending
           a == Added(k, more)
           d == Delivered(k, jobs)
<1>1. \A x \in DOMAIN streams : streams[x] \in [waiting : SUBSET Job, pending : SUBSET Job]
  BY DEF StreamsOK
<1>2. DOMAIN a = DOMAIN streams \cup {k}
  BY DEF Added
<1>3. ASSUME NEW x \in DOMAIN a
      PROVE  a[x] = IF x # k THEN streams[x]
                    ELSE IF k \in DOMAIN streams
                         THEN [waiting |-> streams[k].waiting \cup more, pending |-> streams[k].pending]
                         ELSE [waiting |-> more, pending |-> {}]
  <2>1. k \in DOMAIN streams =>
          [streams[k] EXCEPT !.waiting = @ \cup more] =
            [waiting |-> streams[k].waiting \cup more, pending |-> streams[k].pending]
    BY <1>1
  <2>2. QED
    BY <1>2, <1>3, <2>1 DEF Added
<1>4. ASSUME NEW x \in DOMAIN a, NEW j \in In(a, x)
      PROVE  (x \in DOMAIN streams /\ j \in In(streams, x)) \/ (x = k /\ j \in more)
  BY <1>2, <1>3, <1>4
<1>5. DOMAIN d = DOMAIN streams
  BY DEF Delivered
<1>6. ASSUME NEW x \in DOMAIN d
      PROVE  d[x] = IF x # k THEN streams[x]
                    ELSE [waiting |-> streams[k].waiting \ jobs, pending |-> streams[k].pending \cup jobs]
  BY <1>5, <1>6 DEF Delivered
<1>7. ASSUME NEW x \in DOMAIN d, NEW j \in In(d, x)
      PROVE  j \in In(streams, x) \/ (x = k /\ j \in jobs)
  BY <1>5, <1>6, <1>7
<1>8. QED
  BY <1>2, <1>4, <1>5, <1>7

LEMMA AckedHold ==
  ASSUME NEW s, StreamsOK(s), NEW k, NEW jobs
  PROVE  LET t == Acked(s, k, jobs)
         IN  /\ DOMAIN t = DOMAIN s
             /\ \A x \in DOMAIN t : \A j \in t[x].waiting \cup t[x].pending :
                  j \in s[x].waiting \cup s[x].pending
<1> DEFINE t == Acked(s, k, jobs)
<1>1. DOMAIN t = DOMAIN s
  BY DEF Acked
<1>2. ASSUME k \in DOMAIN s
      PROVE  t = [s EXCEPT ![k] = [waiting |-> s[k].waiting, pending |-> s[k].pending \ jobs]]
  <2>1. s[k] \in [waiting : SUBSET Job, pending : SUBSET Job]
    BY <1>2 DEF StreamsOK
  <2>2. t = [s EXCEPT ![k] = [s[k] EXCEPT !.pending = @ \ jobs]]
    BY <1>2, Zenon DEF Acked
  <2>3. QED
    BY <2>1, <2>2
<1>3. CASE k \in DOMAIN s
  <2>1. \A x \in DOMAIN s :
          t[x] = IF x = k THEN [waiting |-> s[k].waiting, pending |-> s[k].pending \ jobs] ELSE s[x]
    BY <1>2, <1>3
  <2> HIDE DEF t
  <2>2. QED
    BY <1>1, <2>1 DEF t
<1>4. CASE k \notin DOMAIN s
  BY <1>4 DEF Acked
<1>5. QED
  BY <1>3, <1>4

\* The steps that publish, fetch, refuse or forget.
LEMMA QuietAnswers ==
  ASSUME AnswerInv, Inv', Grows,
         \/ \E list \in List : Publish(list)
         \/ \E p \in Process : Sync(p)
         \/ \E r \in Request : WriteFails(r)
         \/ RestartEntry
         \/ \E k \in DOMAIN streams : Expire(k)
         \/ UNCHANGED vars
  PROVE  AnswerInv'
<1> USE DEF AnswerInv
<1>1. /\ UNCHANGED <<workerVars, results, done>>
      /\ DOMAIN streams' \subseteq DOMAIN streams
      /\ \A k \in DOMAIN streams' : streams'[k] = streams[k]
  BY DEF Publish, Sync, WriteFails, RestartEntry, Expire, vars
<1>2. \A r \in Request : asked'[r] = asked[r] \/ asked'[r].parts = {}
  <2>1. CASE RestartEntry
    BY <2>1 DEF RestartEntry, Refused
  <2>2. CASE \E r \in Request : WriteFails(r)
    BY <2>2 DEF WriteFails, Refused, Inv, TypeOK
  <2>3. CASE asked' = asked
    BY <2>3
  <2>4. QED
    BY <2>1, <2>2, <2>3 DEF Publish, Sync, Expire, vars
<1>3. PartsInv'
  BY <1>2, PartsFrame
<1>4. JobsInv'
  <2>1. \A w \in Worker : \A e \in held'[w] : e.req \in Request /\ Belongs(asked, e, at'[w])
    BY <1>1 DEF workerVars, JobsInv, Inv, TypeOK, Counted
  <2>2. QED
    BY <1>1, <2>1, JobsFrame
<1>5. ScanInv'
  BY <1>1, ScanFrame DEF workerVars
<1>6. SeenInv'
  <2>1. \A k \in DOMAIN streams' : Named(seen', k.hash) # {}
    BY <1>1, NamedGrows DEF SeenInv
  <2>2. published' \in seen'
    BY DEF SeenInv, Grows, Publish, Sync, WriteFails, RestartEntry, Expire, vars
  <2>3. ASSUME NEW p \in Process, NEW i \in DOMAIN pool'[p] PROVE pool'[p][i] \in seen'
    <3>1. CASE pool' = pool
      BY <2>3, <3>1 DEF SeenInv, Grows
    <3>2. ASSUME NEW q \in Process, Sync(q) PROVE pool'[p][i] \in seen'
      <4>1. pool' = [pool EXCEPT ![q] = <<published>> \o pool[q]] /\ seen' = seen
        BY <3>2 DEF Sync, Insert
      <4>2. pool[p] \in Seq(List)
        BY DEF Inv, TypeOK
      <4>3. CASE p # q
        BY <2>3, <4>1, <4>3 DEF SeenInv, Inv, TypeOK
      <4>4. CASE p = q
        <5>1. pool'[p] = <<published>> \o pool[p]
          BY <4>1, <4>4 DEF Inv, TypeOK
        <5>2. i \in 1 .. Len(pool[p]) + 1
          BY <2>3, <4>2, <5>1
        <5>3. pool'[p][i] = IF i = 1 THEN published ELSE pool[p][i - 1]
          BY <4>2, <5>1, <5>2
        <5>4. i # 1 => i - 1 \in DOMAIN pool[p]
          BY <4>2, <5>2
        <5>5. QED
          BY <4>1, <5>3, <5>4 DEF SeenInv
      <4>5. QED
        BY <4>3, <4>4
    <3>3. CASE RestartEntry
      <4>1. pool' = [pool EXCEPT ![Entry] = <<>>] /\ seen' = seen
        BY <3>3 DEF RestartEntry
      <4>2. p # Entry /\ pool'[p] = pool[p]
        BY <2>3, <4>1 DEF Inv, TypeOK
      <4>3. QED
        BY <2>3, <4>1, <4>2 DEF SeenInv
    <3>4. QED
      BY <3>1, <3>2, <3>3 DEF Publish, WriteFails, Expire, vars
  <2>4. QED
    BY <2>1, <2>2, <2>3 DEF SeenInv, Named
<1>7. QED
  BY <1>3, <1>4, <1>5, <1>6

LEMMA WriteAnswers ==
  ASSUME AnswerInv, Inv', Grows, NEW r \in Request, Write(r)
  PROVE  AnswerInv'
<1> USE DEF AnswerInv
<1>1. PICK part \in asked[r].todo :
        /\ streams' = Added(part.key, {[req |-> r, from |-> part.from, to |-> part.to]})
        /\ asked' = [asked EXCEPT ![r].todo = @ \ {part}]
        /\ UNCHANGED <<published, pool, workerVars, results, done, seen, changes, faults>>
  BY DEF Write
<1> DEFINE job == [req |-> r, from |-> part.from, to |-> part.to]
<1>2. part \in asked[r].parts /\ part \in Part
  BY DEF Inv, TypeOK
<1>3. /\ asked[r].list # NoList
      /\ Named(seen, part.key.hash) # {}
  BY <1>2, ConstantsAssumption DEF PartsInv, CutOK, Inv, TypeOK, NoList
<1>4. Belongs(asked, job, part.key) /\ job.req \in Request
  BY <1>2, <1>3 DEF Belongs, OfRange
<1> HIDE DEF job
<1>5. /\ DOMAIN streams' = DOMAIN streams \cup {part.key}
      /\ \A k \in DOMAIN streams' : \A j \in streams'[k].waiting \cup streams'[k].pending :
           \/ k \in DOMAIN streams /\ j \in streams[k].waiting \cup streams[k].pending
           \/ k = part.key /\ j \in {job}
  BY <1>1, StreamsHold DEF Inv, StreamInv, job
<1>6. JobsInv'
  <2>1. \A w \in Worker : \A e \in held'[w] : e.req \in Request /\ Belongs(asked, e, at'[w])
    BY <1>1 DEF workerVars, JobsInv, Inv, TypeOK, Counted
  <2>2. \A k \in DOMAIN streams' : \A j \in streams'[k].waiting \cup streams'[k].pending :
           \/ k \in DOMAIN streams /\ j \in streams[k].waiting \cup streams[k].pending
           \/ j.req \in Request /\ Belongs(asked, j, k)
    BY <1>4, <1>5
  <2>3. QED
    BY <2>1, <2>2, JobsFrame
<1>7. PartsInv'
  <2>1. \A q \in Request : q # r => asked'[q] = asked[q]
    BY <1>1 DEF Inv, TypeOK
  <2>2. QED
    BY <1>3, <2>1, PartsFrame
<1>8. ScanInv'
  BY <1>1, ScanFrame DEF workerVars
<1>9. SeenInv'
  BY <1>1, <1>3, <1>5 DEF SeenInv, Named
<1>10. QED
  BY <1>6, <1>7, <1>8, <1>9

\* resume_state puts the jobs into the stream they came from.
LEMMA LeaveAnswers ==
  ASSUME AnswerInv, Inv', Grows, NEW w \in Worker, Stop(w) \/ Crash(w)
  PROVE  AnswerInv'
<1> USE DEF AnswerInv
<1> DEFINE jobs == {JobOf(e) : e \in held[w]}
<1>1. /\ Exit(w) /\ UNCHANGED <<published, asked, results, done, seen, changes>>
      /\ \A v \in Worker : v # w => held'[v] = held[v] /\ at'[v] = at[v] /\ cursor'[v] = cursor[v]
      /\ held'[w] = {}
  BY DEF Stop, Crash, Exit, Inv, TypeOK
<1>2. \A j \in jobs : j.req \in Request /\ Belongs(asked, j, at[w])
  <2>1. SUFFICES ASSUME NEW e \in held[w]
                 PROVE  JobOf(e).req \in Request /\ Belongs(asked, JobOf(e), at[w])
    OBVIOUS
  <2>2. e.req \in Request /\ Belongs(asked, e, at[w])
    BY DEF JobsInv, Inv, TypeOK, Counted
  <2>3. JobOf(e).req = e.req /\ JobOf(e).from = e.from /\ JobOf(e).to = e.to
    BY DEF JobOf
  <2>4. QED
    BY <2>2, <2>3 DEF Belongs, OfRange
<1>3. streams' = streams \/ (streams' = Acked(Added(at[w], jobs), at[w], jobs) /\ held[w] # {})
  BY DEF Stop, Crash
<1> HIDE DEF jobs
<1>4. \A k \in DOMAIN streams' :
        /\ k \in DOMAIN streams \/ (k = at[w] /\ held[w] # {})
        /\ \A j \in streams'[k].waiting \cup streams'[k].pending :
             \/ k \in DOMAIN streams /\ j \in streams[k].waiting \cup streams[k].pending
             \/ k = at[w] /\ j \in jobs
  <2>1. CASE streams' = streams
    BY <2>1
  <2>2. CASE streams' = Acked(Added(at[w], jobs), at[w], jobs) /\ held[w] # {}
    <3> DEFINE s == Added(at[w], jobs)
    <3>1. /\ DOMAIN s = DOMAIN streams \cup {at[w]}
          /\ \A x \in DOMAIN s : \A j \in s[x].waiting \cup s[x].pending :
                  \/ x \in DOMAIN streams /\ j \in streams[x].waiting \cup streams[x].pending
                  \/ x = at[w] /\ j \in jobs
      BY StreamsHold DEF Inv, StreamInv
    <3>2. StreamsOK(s)
      <4>1. at[w] \in Key /\ KeyFits(at[w]) /\ \A e \in held[w] : OfRange(e, at[w])
        BY <2>2 DEF Inv, WorkerInv, TypeOK
      <4>2. jobs \in SUBSET Job /\ \A j \in jobs : OfRange(j, at[w])
        BY <4>1 DEF jobs, Inv, TypeOK, JobOf, Counted, Job, OfRange
      <4>3. QED
        BY <4>1, <4>2, AddedOK DEF Inv, StreamInv
    <3> HIDE DEF s
    <3>3. /\ DOMAIN streams' = DOMAIN s
          /\ \A x \in DOMAIN s : \A j \in streams'[x].waiting \cup streams'[x].pending :
                  j \in s[x].waiting \cup s[x].pending
      BY <2>2, <3>2, AckedHold DEF s
    <3>4. QED
      BY <2>2, <3>1, <3>3
  <2>3. QED
    BY <1>3, <2>1, <2>2
<1>5. JobsInv'
  <2>1. ASSUME NEW v \in Worker, NEW e \in held'[v]
        PROVE  e.req \in Request /\ Belongs(asked, e, at'[v])
    <3>1. v # w
      BY <1>1, <2>1
    <3>2. e \in held[v] /\ at'[v] = at[v]
      BY <1>1, <2>1, <3>1
    <3>3. e.req \in Request
      BY <3>2 DEF Inv, TypeOK, Counted
    <3>4. QED
      BY <3>2, <3>3 DEF JobsInv
  <2>2. QED
    BY <1>2, <1>4, <2>1, JobsFrame
<1>6. PartsInv'
  BY <1>1, PartsFrame
<1>7. ScanInv'
  BY <1>1, ScanFrame
<1>8. SeenInv'
  <2>1. held[w] # {} => Named(seen, at[w].hash) # {}
    BY DEF Inv, WorkerInv, SeenInv, Matches, Named, Process
  <2>2. \A p \in Process : \A i \in DOMAIN pool'[p] : pool'[p][i] \in seen
    <3>1. pool' = [pool EXCEPT ![w] = <<>>]
      BY <1>1 DEF Exit
    <3>2. QED
      BY <3>1 DEF SeenInv, Inv, TypeOK
  <2>3. QED
    BY <1>1, <1>4, <2>1, <2>2 DEF SeenInv, Named
<1>9. QED
  BY <1>5, <1>6, <1>7, <1>8

----------------------------------------------------------------------------
(* What a request is answered with: the ranges *)

LEMMA LeastExists ==
  ASSUME NEW T, T \subseteq Nat, T # {}
  PROVE  \E x \in T : \A y \in T : x <= y
<1> DEFINE R == OpToRel(<, Nat)
<1>1. IsWellFoundedOn(R, Nat)
  BY NatLessThanWellFounded
<1>2. \A x, y \in Nat : y < x => <<y, x>> \in R
  BY DEF OpToRel
<1> HIDE DEF R
<1>3. PICK x \in T : \A y \in T : ~(<<y, x>> \in R)
  BY <1>1, WFMin
<1>4. \A y \in T : ~(y < x)
  BY <1>2, <1>3
<1>5. QED
  BY <1>4

LEMMA GreatestExists ==
  ASSUME NEW n \in Nat, NEW T, T \subseteq 0 .. n, T # {}
  PROVE  \E x \in T : \A y \in T : y <= x
<1> DEFINE U == {n - y : y \in T}
<1>1. U \subseteq Nat /\ U # {}
  <2>1. \A y \in T : y \in Int /\ 0 <= y /\ y <= n
    OBVIOUS
  <2>2. \A y \in T : n - y \in Nat
    BY <2>1
  <2>3. QED
    BY <2>2
<1> HIDE DEF U
<1>a. \A y \in T : n - y \in U /\ y \in Int
  BY DEF U
<1>2. PICK u \in U : \A v \in U : u <= v
  BY <1>1, LeastExists
<1>3. PICK x \in T : u = n - x
  BY <1>2 DEF U
<1>4. ASSUME NEW y \in T PROVE y <= x
  <2>1. n - x <= n - y
    BY <1>a, <1>2, <1>3
  <2>2. QED
    BY <1>a, <2>1
<1>5. QED
  BY <1>4

\* The ranges between the cuts of a list cover it.
LEMMA RangesCover ==
  ASSUME NEW n \in Nat, NEW ranges \in Ranges(n)
  PROVE  /\ \A c \in ranges : /\ c = [from |-> c.from, to |-> c.to]
                              /\ c.from \in Nat /\ c.to \in Nat /\ c.from < c.to /\ c.to <= n
         /\ \A i \in 1 .. n : \E c \in ranges : c.from < i /\ i <= c.to
<1>1. PICK S \in SUBSET (1 .. n - 1) :
        ranges = {c \in [from : {0} \cup S, to : S \cup {n}] :
                    c.from < c.to /\ \A x \in S : x <= c.from \/ c.to <= x}
  BY DEF Ranges
<1>2. \A x \in S : x \in Nat /\ 1 <= x /\ x < n
  OBVIOUS
<1>3. ASSUME NEW c \in ranges
      PROVE  /\ c = [from |-> c.from, to |-> c.to]
             /\ c.from \in Nat /\ c.to \in Nat /\ c.from < c.to /\ c.to <= n
  <2>1. c \in [from : {0} \cup S, to : S \cup {n}] /\ c.from < c.to
    BY <1>1
  <2>2. c = [from |-> c.from, to |-> c.to]
    BY <2>1
  <2>3. c.from \in {0} \cup S /\ c.to \in S \cup {n}
    BY <2>1
  <2>4. c.from \in Nat /\ c.to \in Nat /\ c.to <= n
    <3>1. c.from = 0 \/ c.from \in 1 .. n - 1
      BY <2>3
    <3>2. c.to = n \/ c.to \in 1 .. n - 1
      BY <2>3
    <3>3. QED
      BY <3>1, <3>2
  <2>5. QED
    BY <2>1, <2>2, <2>4
<1>4. ASSUME NEW i \in 1 .. n PROVE \E c \in ranges : c.from < i /\ i <= c.to
  <2> DEFINE A == {x \in {0} \cup S : x < i}
             B == {x \in S \cup {n} : i <= x}
  <2>1. PICK a \in A : \A y \in A : y <= a
    <3>1. /\ \A x \in A : x \in Nat /\ x <= n
          /\ 0 \in A
      <4>1. i \in Nat /\ 0 < i /\ i <= n
        OBVIOUS
      <4>2. QED
        BY <1>2, <4>1
    <3> HIDE DEF A
    <3>2. A \subseteq 0 .. n /\ A # {}
      BY <3>1
    <3>3. QED
      BY <3>2, GreatestExists
  <2>2. PICK b \in B : \A y \in B : b <= y
    <3>1. /\ \A x \in B : x \in Nat
          /\ n \in B
      <4>1. i <= n
        OBVIOUS
      <4>2. QED
        BY <1>2, <4>1
    <3> HIDE DEF B
    <3>2. B \subseteq Nat /\ B # {}
      BY <3>1
    <3>3. QED
      BY <3>2, LeastExists
  <2>3. a \in {0} \cup S /\ b \in S \cup {n} /\ a \in Nat /\ b \in Nat /\ a < i /\ i <= b
    BY <1>2, <2>1, <2>2
  <2>4. \A x \in S : x <= a \/ b <= x
    BY <1>2, <2>1, <2>2
  <2>5. [from |-> a, to |-> b] \in ranges
    BY <1>1, <2>3, <2>4
  <2>6. QED
    BY <2>3, <2>5
<1>5. QED
  BY <1>3, <1>4

\* Whichever streams are chosen for the ranges, the request is cut as it should.
LEMMA CutIsOK ==
  ASSUME Inv, SeenInv, NEW list \in List, list \in seen, NEW ranges, NEW ts \in Nat,
         \A c \in ranges : /\ c = [from |-> c.from, to |-> c.to]
                           /\ c.from \in Nat /\ c.to \in Nat /\ c.from <= c.to /\ c.to <= Len(list),
         Covers(ranges, Len(list)),
         NEW parts \in PartsFor(ranges, calc_song_list_hash(list), ts)
  PROVE  CutOK(parts, list, seen)
<1> DEFINE hash == calc_song_list_hash(list)
<1>1. ASSUME NEW c \in ranges, NEW k \in Target(c, hash, ts)
      PROVE  Named(seen, k.hash) # {}
  <2>1. Named(seen, hash) # {}
    BY DEF Named
  <2>2. k.hash = hash \/ k \in DOMAIN streams
    BY DEF Target
  <2>3. QED
    BY <2>1, <2>2 DEF SeenInv
<1> HIDE DEF hash
<1>2. PICK f : /\ parts = {[from |-> c.from, to |-> c.to, key |-> f[c]] : c \in ranges}
               /\ \A c \in ranges : f[c] \in Target(c, hash, ts)
  BY DEF PartsFor, hash
<1>3. ASSUME NEW part \in parts
      PROVE  /\ Named(seen, part.key.hash) # {} /\ part.from <= part.to /\ part.to <= Len(list)
             /\ part = [from |-> part.from, to |-> part.to,
                        key |-> f[[from |-> part.from, to |-> part.to]]]
  BY <1>1, <1>2
<1>4. \A p, q \in parts : OfRange(p, q) => p = q
  BY <1>3 DEF OfRange
<1>5. Covers(parts, Len(list))
  <2>1. ASSUME NEW c \in ranges
        PROVE  \E part \in parts : part.from = c.from /\ part.to = c.to
    <3>1. [from |-> c.from, to |-> c.to, key |-> f[c]] \in parts
      BY <1>2
    <3>2. QED
      BY <3>1
  <2>2. QED
    BY <2>1 DEF Covers
<1>6. QED
  BY <1>3, <1>4, <1>5 DEF CutOK

LEMMA AskAnswers ==
  ASSUME AnswerInv, Inv', Grows, NEW r \in Request, Ask(r)
  PROVE  AnswerInv'
<1> USE DEF AnswerInv
<1> DEFINE list == Head(pool[Entry])
<1>1. /\ asked[r].list = NoList /\ pool[Entry] # <<>>
      /\ UNCHANGED <<published, pool, streams, workerVars, results, done, seen, changes, faults>>
  BY DEF Ask
<1>2. list \in List /\ list \in seen /\ Len(list) \in Nat
  <2>1. pool[Entry] \in Seq(List) /\ pool[Entry] # <<>>
    BY <1>1 DEF Inv, TypeOK, Process
  <2>2. 1 \in DOMAIN pool[Entry] /\ list = pool[Entry][1]
    BY <2>1
  <2>3. QED
    BY <2>1, <2>2, HashType DEF SeenInv, Process
<1> HIDE DEF list
<1>3. \E ranges : \E ts \in Nat :
        /\ Enqueue(r, ranges, ts)
        /\ \A c \in ranges : /\ c = [from |-> c.from, to |-> c.to]
                             /\ c.from \in Nat /\ c.to \in Nat /\ c.from <= c.to /\ c.to <= Len(list)
        /\ Covers(ranges, Len(list))
  <2>1. ASSUME NEW ranges \in Ranges(Len(list)), Enqueue(r, ranges, r)
        PROVE  /\ r \in Nat /\ Enqueue(r, ranges, r)
               /\ \A c \in ranges : /\ c = [from |-> c.from, to |-> c.to]
                                    /\ c.from \in Nat /\ c.to \in Nat
                                    /\ c.from <= c.to /\ c.to <= Len(list)
               /\ Covers(ranges, Len(list))
    BY <1>2, <2>1, RangesCover DEF Covers, Request
  <2>2. CASE \E ranges \in Ranges(Len(list)) : Enqueue(r, ranges, r)
    BY <2>1, <2>2
  <2>3. CASE Enqueue(r, {[from |-> 0, to |-> 0]}, 0)
    <3> DEFINE none == {[from |-> 0, to |-> 0]}
    <3>1. /\ \A c \in none : /\ c = [from |-> c.from, to |-> c.to]
                             /\ c.from \in Nat /\ c.to \in Nat /\ c.from <= c.to /\ c.to <= Len(list)
          /\ Covers(none, Len(list))
      BY <1>2 DEF Covers
    <3> HIDE DEF none
    <3>2. Enqueue(r, none, 0) /\ 0 \in Nat
      BY <2>3 DEF none
    <3>3. QED
      BY <3>1, <3>2
  <2>4. QED
    BY <2>2, <2>3 DEF Ask, list
<1>4. PICK parts : /\ asked' = [asked EXCEPT ![r] = [list |-> list, parts |-> parts, todo |-> parts]]
                   /\ CutOK(parts, list, seen)
  BY <1>2, <1>3, CutIsOK DEF Enqueue, list
<1>5. PartsInv'
  <2>1. ASSUME NEW q \in Request, asked'[q].parts # {}
        PROVE  CutOK(asked'[q].parts, asked'[q].list, seen)
    <3>1. CASE q = r
      BY <1>4, <3>1 DEF Inv, TypeOK
    <3>2. CASE q # r
      BY <1>4, <2>1, <3>2 DEF PartsInv, Inv, TypeOK
    <3>3. QED
      BY <3>1, <3>2
  <2>2. QED
    BY <1>1, <2>1 DEF PartsInv, CutOK, Named, Covers, OfRange
<1>6. JobsInv'
  <2>1. \A w \in Worker : \A e \in held'[w] : e.req \in Request /\ Belongs(asked, e, at'[w])
    BY <1>1 DEF workerVars, JobsInv, Inv, TypeOK, Counted
  <2>2. QED
    BY <1>1, <2>1, JobsFrame
<1>7. ScanInv'
  BY <1>1, ScanFrame DEF workerVars
<1>8. SeenInv'
  BY <1>1 DEF SeenInv, Named
<1>9. QED
  BY <1>5, <1>6, <1>7, <1>8

----------------------------------------------------------------------------
(* What a request is answered with: iterations *)

\* A step of the cursor leaves every other song one further behind.
LEMMA BackMoves ==
  ASSUME NEW k \in Key, NEW c \in Nat, k.from <= c, c < k.to,
         NEW i \in k.from .. k.to - 1
  PROVE  /\ Back(k, c, i) \in Int /\ 1 <= Back(k, c, i)
         /\ Back(k, Forward(k, c), i) \in Int
         /\ Back(k, Forward(k, c), i) <= k.to - k.from
         /\ i # c => Back(k, Forward(k, c), i) = Back(k, c, i) + 1
<1>1. k.from \in Nat /\ k.to \in Nat
  BY DEF Key
<1>2. i \in Int /\ k.from <= i /\ i < k.to
  BY <1>1
<1>3. QED
  BY <1>1, <1>2 DEF Back, Forward

LEMMA PollAnswers ==
  ASSUME AnswerInv, Inv', Grows, NEW w \in Worker, NEW p \in DOMAIN pool[w],
         NEW k \in Key, NEW c \in Nat, NEW idle,
         Matches(pool[w][p], k), KeyFits(k), Named(seen, k.hash) # {},
         \/ held[w] = {} /\ c = k.from
         \/ held[w] # {} /\ k = at[w] /\ c = cursor[w],
         Poll(w, pool[w][p], k, c, Available(k, idle)),
         UNCHANGED <<published, pool, asked, seen, changes, faults>>
  PROVE  AnswerInv'
<1> USE DEF AnswerInv
<1> DEFINE list == pool[w][p]
           new == Available(k, idle)
           jobs == held[w] \cup {[req |-> j.req, from |-> j.from, to |-> j.to, n |-> 0] : j \in new}
           counted == {[e EXCEPT !.n = @ + 1] : e \in jobs}
           finished == {JobOf(e) : e \in {d \in counted : Complete(d)}}
           next == Forward(k, c)
<1>1. /\ list \in List /\ list \in seen /\ list \in Named(seen, k.hash)
      /\ DOMAIN list = 1 .. Len(list) /\ Len(list) \in Nat /\ k.to <= Len(list)
      /\ k.from \in Nat /\ k.to \in Nat
  <2>1. list \in List
    BY PoolHasLists DEF Inv, Process
  <2>2. list \in seen
    BY DEF SeenInv, Process
  <2>3. QED
    BY <2>1, <2>2, HashType DEF Matches, Named, KeyFits, Key
<1>2. k.from <= c /\ (k.from < k.to => c < k.to) /\ \A e \in held[w] : OfRange(e, k)
  BY <1>1 DEF Inv, WorkerInv
<1>3. /\ new \in SUBSET Job /\ \A j \in new : OfRange(j, k)
      /\ \A j \in new : k \in DOMAIN streams /\ j \in streams[k].waiting \cup streams[k].pending
  <2>1. new \in SUBSET Job /\ \A j \in new : OfRange(j, k)
    BY DeliveredOK DEF Inv, StreamInv
  <2>2. \A j \in new : k \in DOMAIN streams /\ j \in streams[k].waiting \cup streams[k].pending
    BY DEF Available
  <2>3. QED
    BY <2>1, <2>2
<1>4. /\ held' = [held EXCEPT ![w] = {e \in counted : ~Complete(e)}]
      /\ at' = [at EXCEPT ![w] = IF \A e \in counted : Complete(e) THEN NoKey ELSE k]
      /\ cursor' = [cursor EXCEPT ![w] = next]
      /\ results' = results \cup Scores(list, k, c, jobs)
      /\ done' = done \cup finished
      /\ streams' = Acked(Delivered(k, new), k, finished)
  BY Zenon DEF Poll
<1> HIDE DEF list, new
<1>5. \A j \in new : Belongs(asked, j, k)
  BY <1>3 DEF JobsInv
<1>6. ASSUME NEW e \in jobs
      PROVE  /\ e \in Counted /\ OfRange(e, k) /\ e.req \in Request
             /\ Belongs(asked, e, k)
             /\ OneOrder(seen) => Polled(results, seen, e, k, c)
  <2>1. CASE e \in held[w]
    <3>1. e \in Counted
      BY <2>1 DEF Inv, TypeOK
    <3>2. k = at[w] /\ c = cursor[w]
      BY <2>1
    <3>3. Belongs(asked, e, k) /\ (OneOrder(seen) => Polled(results, seen, e, k, c))
      BY <2>1, <3>2 DEF JobsInv, ScanInv
    <3>4. QED
      BY <1>2, <2>1, <3>1, <3>3 DEF Counted
  <2>2. CASE e \notin held[w]
    <3>1. PICK j \in new : e = [req |-> j.req, from |-> j.from, to |-> j.to, n |-> 0]
      BY <1>6, <2>2
    <3>2. j.req \in Request /\ j.from \in Nat /\ j.to \in Nat /\ OfRange(j, k) /\ Belongs(asked, j, k)
      BY <1>3, <1>5 DEF Job
    <3>3. /\ e \in Counted /\ e.n = 0 /\ OfRange(e, k)
          /\ e.req = j.req /\ e.from = j.from /\ e.to = j.to
      BY <3>1, <3>2 DEF Counted, OfRange
    <3>4. Belongs(asked, e, k)
      BY <3>2, <3>3 DEF Belongs, OfRange
    <3>5. Polled(results, seen, e, k, c)
      <4>1. \A i \in k.from .. k.to - 1 : Back(k, c, i) \in Int /\ 1 <= Back(k, c, i)
        <5>1. SUFFICES ASSUME NEW i \in k.from .. k.to - 1
                       PROVE  Back(k, c, i) \in Int /\ 1 <= Back(k, c, i)
          OBVIOUS
        <5>2. k.from < k.to
          BY <1>1
        <5>3. QED
          BY <1>2, <5>2, BackMoves
      <4>2. QED
        BY <3>3, <4>1 DEF Polled
    <3>6. QED
      BY <3>2, <3>3, <3>4, <3>5
  <2>3. QED
    BY <2>1, <2>2
<1>7. ASSUME NEW d \in counted
      PROVE  \E e \in jobs : /\ d = [req |-> e.req, from |-> e.from, to |-> e.to, n |-> e.n + 1]
                             /\ e.n \in Nat
  <2>1. PICK e \in jobs : d = [e EXCEPT !.n = @ + 1]
    BY <1>7
  <2>2. e \in Counted
    BY <1>6
  <2>3. QED
    BY <2>1, <2>2 DEF Counted
<1> HIDE DEF jobs, counted, finished, next
\* The song at the cursor has been polled for every job.
<1>8. ASSUME NEW d \in counted
      PROVE  /\ d.req \in Request /\ OfRange(d, k) /\ Belongs(asked, d, k)
             /\ OneOrder(seen) => Polled(results', seen, d, k, next)
  <2>1. PICK e \in jobs : /\ d = [req |-> e.req, from |-> e.from, to |-> e.to, n |-> e.n + 1]
                          /\ e.n \in Nat
    BY <1>7
  <2>2. d.req = e.req /\ d.from = e.from /\ d.to = e.to /\ d.n = e.n + 1
    BY <2>1
  <2>3. d.req \in Request /\ OfRange(d, k) /\ Belongs(asked, d, k)
    BY <1>6, <2>2 DEF OfRange, Belongs
  <2>4. ASSUME OneOrder(seen) PROVE Polled(results', seen, d, k, next)
    <3>1. SUFFICES ASSUME NEW i \in k.from .. k.to - 1, Back(k, next, i) <= d.n,
                          NEW l \in Named(seen, k.hash)
                   PROVE  <<d.req, l[i + 1]>> \in results'
      BY DEF Polled
    <3>2. l = list
      BY <1>1, <2>4 DEF OneOrder, Named
    <3>3. k.from < k.to /\ c < k.to
      BY <1>1, <1>2
    <3>4. CASE i = c
      <4>1. c + 1 \in DOMAIN list
        BY <1>1, <3>3
      <4>2. <<e.req, list[c + 1]>> \in Scores(list, k, c, jobs)
        BY <1>1, <3>3, <4>1 DEF Scores
      <4>3. QED
        BY <1>4, <2>2, <3>2, <3>4, <4>2
    <3>5. CASE i # c
      <4>1. Back(k, next, i) = Back(k, c, i) + 1 /\ Back(k, c, i) \in Int
        BY <1>2, <3>3, <3>5, BackMoves DEF next
      <4>2. Back(k, c, i) <= e.n
        BY <2>1, <2>2, <3>1, <4>1
      <4>3. <<e.req, l[i + 1]>> \in results
        BY <1>6, <2>4, <4>2 DEF Polled
      <4>4. QED
        BY <1>4, <2>2, <4>3
    <3>6. QED
      BY <3>4, <3>5
  <2>5. QED
    BY <2>3, <2>4
\* A job that was counted for its whole range has had every song of it.
<1>9. ASSUME NEW d \in counted, Complete(d), OneOrder(seen)
      PROVE  Scanned(results', seen, asked, d)
  <2>1. SUFFICES ASSUME NEW part \in asked[d.req].parts, OfRange(part, d),
                        NEW l \in Named(seen, part.key.hash), NEW song \in SongsIn(l, part)
                 PROVE  <<d.req, song>> \in results'
    BY DEF Scanned
  <2>2. d.req \in Request /\ OfRange(d, k) /\ Belongs(asked, d, k)
    BY <1>8
  <2>3. PICK mine \in asked[d.req].parts : mine.key = k /\ OfRange(mine, d)
    BY <2>1, <2>2 DEF Belongs
  <2>4. part = mine
    BY <2>1, <2>2, <2>3 DEF PartsInv, CutOK, OfRange
  <2>5. l \in Named(seen, k.hash) /\ part.from = k.from /\ part.to = k.to
    BY <2>1, <2>2, <2>3, <2>4 DEF OfRange
  <2>6. PICK t \in k.from + 1 .. k.to : song = l[t]
    BY <2>1, <2>5 DEF SongsIn
  <2> DEFINE i == t - 1
  <2>7. i \in k.from .. k.to - 1 /\ i + 1 = t
    BY <1>1
  <2> HIDE DEF i
  <2>8. k.from < k.to /\ c < k.to
    BY <1>1, <1>2, <2>7
  <2>9. Back(k, next, i) \in Int /\ Back(k, next, i) <= k.to - k.from
    BY <1>2, <2>7, <2>8, BackMoves DEF next
  <2>10. d.n \in Nat /\ k.to - k.from <= d.n
    <3>1. d.n \in Nat
      BY <1>7
    <3>2. QED
      BY <1>1, <1>9, <2>2, <3>1 DEF Complete, OfRange
  <2>11. Back(k, next, i) <= d.n
    BY <1>1, <2>9, <2>10
  <2>12. QED
    BY <1>8, <1>9, <2>5, <2>6, <2>7, <2>11 DEF Polled
<1>10. /\ \A v \in Worker : v # w => held'[v] = held[v] /\ at'[v] = at[v] /\ cursor'[v] = cursor[v]
       /\ held'[w] = {e \in counted : ~Complete(e)}
       /\ held'[w] # {} => at'[w] = k
       /\ cursor'[w] = next
  BY <1>4 DEF Inv, TypeOK
<1>11. /\ DOMAIN streams' = DOMAIN streams
       /\ \A x \in DOMAIN streams' : \A j \in streams'[x].waiting \cup streams'[x].pending :
            j \in streams[x].waiting \cup streams[x].pending
  <2> DEFINE s == Delivered(k, new)
  <2>1. StreamsOK(s)
    BY DeliveredOK DEF Inv, StreamInv, new
  <2>2. /\ DOMAIN s = DOMAIN streams
        /\ \A x \in DOMAIN s : \A j \in s[x].waiting \cup s[x].pending :
             j \in streams[x].waiting \cup streams[x].pending \/ (x = k /\ j \in new)
    BY StreamsHold DEF Inv, StreamInv
  <2> HIDE DEF s
  <2>3. /\ DOMAIN streams' = DOMAIN s
        /\ \A x \in DOMAIN streams' : \A j \in streams'[x].waiting \cup streams'[x].pending :
             j \in s[x].waiting \cup s[x].pending
    BY <1>4, <2>1, AckedHold DEF s
  <2>4. QED
    BY <1>3, <2>2, <2>3
<1>12. SeenInv'
  BY <1>11 DEF SeenInv, Named
<1>13. PartsInv'
  BY PartsFrame
<1>14. JobsInv'
  <2>1. ASSUME NEW v \in Worker, NEW e \in held'[v]
        PROVE  e.req \in Request /\ Belongs(asked, e, at'[v])
    <3>1. CASE v = w
      BY <1>8, <1>10, <2>1, <3>1
    <3>2. CASE v # w
      <4>1. e \in held[v] /\ at'[v] = at[v]
        BY <1>10, <2>1, <3>2
      <4>2. e.req \in Request
        BY <4>1 DEF Inv, TypeOK, Counted
      <4>3. QED
        BY <4>1, <4>2 DEF JobsInv
    <3>3. QED
      BY <3>1, <3>2
  <2>2. QED
    BY <1>11, <2>1, JobsFrame
<1>15. ScanInv'
  <2>1. ASSUME NEW r \in Request, NEW song \in Song, <<r, song>> \in results'
        PROVE  asked[r].list # NoList /\ (asked[r].parts # {} => Wanted(asked, seen, r, song))
    <3>1. CASE <<r, song>> \in results
      BY <3>1 DEF ScanInv
    <3>2. CASE <<r, song>> \notin results
      <4>1. <<r, song>> \in Scores(list, k, c, jobs)
        BY <1>4, <2>1, <3>2
      <4>2. PICK e \in jobs : <<r, song>> = <<e.req, list[c + 1]>> /\ k.from # k.to
        BY <4>1 DEF Scores
      <4>3. r = e.req /\ song = list[c + 1] /\ Belongs(asked, e, k) /\ OfRange(e, k)
        BY <1>6, <4>2
      <4>4. ASSUME asked[r].parts # {} PROVE Wanted(asked, seen, r, song)
        <5>1. PICK part \in asked[r].parts : part.key = k /\ OfRange(part, e)
          BY <4>3, <4>4 DEF Belongs
        <5>2. part.from = k.from /\ part.to = k.to /\ k.from <= k.to
          BY <4>3, <5>1 DEF OfRange, PartsInv, CutOK
        <5>3. c + 1 \in part.from + 1 .. part.to
          BY <1>1, <1>2, <4>2, <5>2
        <5>4. song \in SongsIn(list, part)
          BY <4>3, <5>3 DEF SongsIn
        <5>5. QED
          BY <1>1, <5>1, <5>4 DEF Wanted
      <4>5. QED
        BY <4>3, <4>4 DEF Belongs
    <3>3. QED
      BY <3>1, <3>2
  <2>2. ASSUME NEW j \in done', j \notin done
        PROVE  \E d \in counted : j = JobOf(d) /\ Complete(d)
    BY <1>4, <2>2 DEF finished
  <2>3. ASSUME NEW j \in done' PROVE asked[j.req].list # NoList
    <3>1. CASE j \in done
      BY <3>1 DEF ScanInv
    <3>2. CASE j \notin done
      <4>1. PICK d \in counted : j = JobOf(d)
        BY <2>2, <3>2
      <4>2. QED
        BY <1>8, <4>1 DEF JobOf, Belongs
    <3>3. QED
      BY <3>1, <3>2
  <2>4. ASSUME OneOrder(seen), NEW v \in Worker, NEW e \in held'[v]
        PROVE  Polled(results', seen, e, at'[v], cursor'[v])
    <3>1. CASE v = w
      BY <1>8, <1>10, <2>4, <3>1
    <3>2. CASE v # w
      <4>1. Polled(results, seen, e, at[v], cursor[v]) /\ at'[v] = at[v] /\ cursor'[v] = cursor[v]
        BY <1>10, <2>4, <3>2 DEF ScanInv
      <4>2. QED
        BY <4>1 DEF Polled, Grows
    <3>3. QED
      BY <3>1, <3>2
  <2>5. ASSUME OneOrder(seen), NEW j \in done' PROVE Scanned(results', seen, asked, j)
    <3>1. CASE j \in done
      BY <2>5, <3>1 DEF ScanInv, Scanned, Grows
    <3>2. CASE j \notin done
      <4>1. PICK d \in counted : j = JobOf(d) /\ Complete(d)
        BY <2>2, <3>2
      <4>2. Scanned(results', seen, asked, d)
        BY <1>9, <2>5, <4>1
      <4>3. j.req = d.req /\ j.from = d.from /\ j.to = d.to
        BY <4>1 DEF JobOf
      <4>4. QED
        BY <4>2, <4>3 DEF Scanned, OfRange
    <3>3. QED
      BY <3>1, <3>2
  <2>6. QED
    BY <2>1, <2>3, <2>4, <2>5
    DEF ScanInv, Wanted, Named, SongsIn, OneOrder, Polled, Back, Scanned, OfRange
<1>16. QED
  BY <1>12, <1>13, <1>14, <1>15

LEMMA IterateAnswers ==
  ASSUME AnswerInv, Inv', Grows, NEW w \in Worker, Iterate(w)
  PROVE  AnswerInv'
<1> USE DEF AnswerInv
<1>1. PICK idle : Discover(w, idle) \/ TopUp(w, idle)
  BY Zenon DEF Iterate
<1>2. CASE Discover(w, idle)
  <2>1. PICK f \in Found(w, idle) :
          Poll(w, pool[w][f[1]], f[2], f[2].from, Available(f[2], idle))
    BY <1>2 DEF Discover
  <2>2. f[1] \in DOMAIN pool[w] /\ f[2] \in DOMAIN streams /\ Matches(pool[w][f[1]], f[2])
    BY DEF Found, ListsOf
  <2>3. f[2] \in Key /\ KeyFits(f[2]) /\ Named(seen, f[2].hash) # {} /\ f[2].from \in Nat
    BY <2>2 DEF Inv, StreamInv, StreamsOK, SeenInv, Key
  <2>4. held[w] = {} /\ UNCHANGED <<published, pool, asked, seen, changes, faults>>
    BY <1>2 DEF Discover
  <2>5. QED
    BY <2>1, <2>2, <2>3, <2>4, PollAnswers
<1>3. CASE TopUp(w, idle)
  <2>1. PICK i \in DOMAIN pool[w] :
          /\ Matches(pool[w][i], at[w])
          /\ Poll(w, pool[w][i], at[w], cursor[w], Available(at[w], idle))
    BY <1>3 DEF TopUp
  <2>2. held[w] # {} /\ UNCHANGED <<published, pool, asked, seen, changes, faults>>
    BY <1>3 DEF TopUp
  <2>3. KeyFits(at[w]) /\ at[w] \in Key /\ cursor[w] \in Nat
    BY <2>2 DEF Inv, WorkerInv, TypeOK
  <2>4. pool[w][i] \in Named(seen, at[w].hash)
    BY <2>1 DEF SeenInv, Process, Named, Matches
  <2>5. QED
    BY <2>1, <2>2, <2>3, <2>4, PollAnswers
<1>4. QED
  BY <1>1, <1>2, <1>3

LEMMA AnswerNext == AnswerInv /\ [Next]_vars => AnswerInv'
<1>1. SUFFICES ASSUME AnswerInv, [Next]_vars PROVE AnswerInv'
  OBVIOUS
<1>2. Inv' /\ Grows
  BY <1>1, NextKeeps, StepGrows DEF AnswerInv
<1>3. CASE \/ \E list \in List : Publish(list)
           \/ \E p \in Process : Sync(p)
           \/ \E r \in Request : WriteFails(r)
           \/ RestartEntry
           \/ \E k \in DOMAIN streams : Expire(k)
           \/ UNCHANGED vars
  BY <1>1, <1>2, <1>3, QuietAnswers
<1>4. CASE \E r \in Request : Ask(r) \/ Write(r)
  BY <1>1, <1>2, <1>4, AskAnswers, WriteAnswers
<1>5. CASE \E w \in Worker : Iterate(w)
  BY <1>1, <1>2, <1>5, IterateAnswers
<1>6. CASE \E w \in Worker : Stop(w) \/ Crash(w)
  BY <1>1, <1>2, <1>6, LeaveAnswers
<1>7. QED
  BY Zenon, <1>1, <1>3, <1>4, <1>5, <1>6 DEF Next

LEMMA AnswerInvariant == Spec => []AnswerInv
BY AnswerInit, AnswerNext, PTL DEF Spec

\* An answered request has the songs of its ranges, in the lists of its streams.
LEMMA AnsweredSongs ==
  ASSUME AnswerInv, OneOrder(seen), NEW r \in Request, Answered(r), NEW song \in Song
  PROVE  <<r, song>> \in results <=> Wanted(asked, seen, r, song)
<1> USE DEF AnswerInv
<1>1. <<r, song>> \in results => Wanted(asked, seen, r, song)
  BY DEF ScanInv, Answered
<1>2. ASSUME Wanted(asked, seen, r, song) PROVE <<r, song>> \in results
  <2>a. PICK part \in asked[r].parts : \E l \in Named(seen, part.key.hash) : song \in SongsIn(l, part)
    BY <1>2 DEF Wanted
  <2>1. PICK l \in Named(seen, part.key.hash) : song \in SongsIn(l, part)
    BY <2>a
  <2> DEFINE j == [req |-> r, from |-> part.from, to |-> part.to]
  <2>2. j \in done /\ j.req = r /\ OfRange(part, j)
    BY DEF Answered, OfRange
  <2> HIDE DEF j
  <2>3. Scanned(results, seen, asked, j)
    BY <2>2 DEF ScanInv
  <2>4. QED
    BY <2>1, <2>2, <2>3 DEF Scanned
<1>3. QED
  BY <1>1, <1>2

\* The songs of a range are songs.
LEMMA SongsInType ==
  ASSUME Inv, PartsInv, NEW r \in Request, NEW part \in asked[r].parts,
         NEW l \in Named(seen, part.key.hash)
  PROVE  /\ l \in List /\ part.from \in Nat /\ part.to \in Nat /\ part.to <= Len(l)
         /\ \A i \in part.from + 1 .. part.to : i \in DOMAIN l /\ l[i] \in Song
         /\ SongsIn(l, part) \subseteq Song
<1>1. l \in List /\ calc_song_list_hash(l) = part.key.hash
  BY DEF Named, Inv, TypeOK
<1>2. part \in Part /\ KeyFits(part.key) /\ OfRange(part, part.key)
  BY DEF Inv, TypeOK, StreamInv
<1>3. part.from \in Nat /\ part.to \in Nat /\ part.to <= Len(l)
  BY <1>1, <1>2 DEF Part, KeyFits, OfRange
<1>4. DOMAIN l = 1 .. Len(l) /\ l \in Seq(Song) /\ Len(l) \in Nat
  BY <1>1, HashType
<1>5. \A i \in part.from + 1 .. part.to : i \in DOMAIN l /\ l[i] \in Song
  BY <1>3, <1>4
<1>6. QED
  BY <1>1, <1>3, <1>5 DEF SongsIn

\* As long as a hash stands for one order of songs, a request is answered with
\* the songs that the lists of its streams have in its ranges, and no others,
\* whatever streams it shares and whatever workers, restarts and lists come by.
THEOREM AnsweredAsQueued == Spec => []ScannedAsQueued
<1>1. ASSUME AnswerInv PROVE ScannedAsQueued
  <2>1. SUFFICES ASSUME OneOrder(seen), NEW r \in Request, Answered(r)
                 PROVE  {song \in Song : <<r, song>> \in results} =
                          UNION {UNION {SongsIn(l, part) : l \in ListsWith(part.key.hash)} :
                                   part \in asked[r].parts}
    BY DEF ScannedAsQueued, OneOrder
  <2> DEFINE All == UNION {UNION {SongsIn(l, part) : l \in ListsWith(part.key.hash)} :
                             part \in asked[r].parts}
  <2>2. \A song : song \in All <=> Wanted(asked, seen, r, song)
    BY DEF Wanted, ListsWith, Named
  <2>3. ASSUME NEW song, Wanted(asked, seen, r, song) PROVE song \in Song
    BY <1>1, <2>3, SongsInType DEF Wanted, AnswerInv
  <2> HIDE DEF All
  <2>4. \A song \in Song : <<r, song>> \in results <=> song \in All
    BY <1>1, <2>1, <2>2, AnsweredSongs
  <2>5. {song \in Song : <<r, song>> \in results} = All
    BY <2>2, <2>3, <2>4
  <2>6. QED
    BY <2>5 DEF All
<1>2. QED
  BY <1>1, AnswerInvariant, PTL

\* Lists that only grow at their end have hashes of their own, and the same
\* songs in each other's ranges.
LEMMA GrownLists ==
  ASSUME Inv, \A l, m \in seen : Extends(l, m) \/ Extends(m, l)
  PROVE  /\ OneOrder(seen)
         /\ \A l, m \in seen : \A i \in Nat : i \in DOMAIN l /\ i \in DOMAIN m => l[i] = m[i]
<1>1. \A l \in seen : l \in Seq(Song) /\ l \in List /\ DOMAIN l = 1 .. Len(l) /\ Len(l) \in Nat
  BY HashType DEF Inv, TypeOK
<1>2. \A l, m \in seen : \A i \in Nat : i \in DOMAIN l /\ i \in DOMAIN m => l[i] = m[i]
  BY <1>1 DEF Extends
<1>3. ASSUME NEW l \in seen, NEW m \in seen, calc_song_list_hash(l) = calc_song_list_hash(m)
      PROVE  l = m
  <2>1. Len(l) = Len(m)
    BY <1>1, <1>3, ConstantsAssumption
  <2>2. \A i \in 1 .. Len(l) : l[i] = m[i]
    BY <1>1, <1>2, <2>1
  <2>3. QED
    BY <1>1, <2>1, <2>2
<1>4. QED
  BY <1>2, <1>3 DEF OneOrder

\* As long as lists only grow at their end, a request for scores is answered
\* with the whole list the entry had when it was asked, of whatever lists the
\* streams are that its jobs were put into.
THEOREM AppendedListsAnswered == Spec => []AppendedListsComplete
<1>1. ASSUME AnswerInv PROVE AppendedListsComplete
  <2>1. SUFFICES ASSUME \A l, m \in seen : Extends(l, m) \/ Extends(m, l),
                        NEW r \in Request, Answered(r),
                        \A part \in asked[r].parts : part.from < part.to
                 PROVE  {song \in Song : <<r, song>> \in results} = Range(asked[r].list)
    BY DEF AppendedListsComplete
  <2> DEFINE list == asked[r].list
  <2>2. OneOrder(seen)
    BY <1>1, <2>1, GrownLists DEF AnswerInv
  <2>3. /\ list \in seen /\ list \in List
        /\ DOMAIN list = 1 .. Len(list) /\ Len(list) \in Nat /\ list \in Seq(Song)
        /\ CutOK(asked[r].parts, list, seen)
    <3>1. CutOK(asked[r].parts, list, seen)
      BY <1>1, <2>1 DEF AnswerInv, PartsInv, Answered
    <3>2. list \in seen /\ list \in List
      BY <1>1, <3>1 DEF CutOK, AnswerInv, Inv, TypeOK
    <3>3. QED
      BY <3>1, <3>2, HashType
  <2> HIDE DEF list
  <2>4. ASSUME NEW part \in asked[r].parts, NEW l \in Named(seen, part.key.hash),
               NEW i \in part.from + 1 .. part.to
        PROVE  i \in DOMAIN list /\ l[i] = list[i]
    <3>1. /\ part.from \in Nat /\ part.to \in Nat /\ part.to <= Len(l) /\ i \in DOMAIN l
          /\ part.to <= Len(list)
      BY <1>1, <2>3, SongsInType DEF AnswerInv, CutOK
    <3>2. i \in Nat /\ i \in DOMAIN list /\ l \in seen
      BY <2>3, <3>1 DEF Named
    <3>3. QED
      BY <1>1, <2>1, <2>3, <3>1, <3>2, GrownLists DEF AnswerInv
  <2>5. ASSUME NEW song, Wanted(asked, seen, r, song) PROVE song \in Range(list)
    <3>a. PICK part \in asked[r].parts : \E l \in Named(seen, part.key.hash) : song \in SongsIn(l, part)
      BY <2>5 DEF Wanted
    <3>1. PICK l \in Named(seen, part.key.hash) : song \in SongsIn(l, part)
      BY <3>a
    <3>2. PICK i \in part.from + 1 .. part.to : song = l[i]
      BY <3>1 DEF SongsIn
    <3>3. QED
      BY <2>4, <3>2 DEF Range
  <2>6. ASSUME NEW song \in Range(list) PROVE Wanted(asked, seen, r, song)
    <3>1. PICK i \in 1 .. Len(list) : song = list[i]
      BY <2>3 DEF Range
    <3>2. ~ \E part \in asked[r].parts : part.from = part.to
      <4>1. SUFFICES ASSUME NEW part \in asked[r].parts PROVE part.from # part.to
        OBVIOUS
      <4>2. part.from \in Nat /\ part.to \in Nat /\ part.from < part.to
        BY <1>1, <2>1 DEF AnswerInv, Inv, TypeOK, Part
      <4>3. QED
        BY <4>2
    <3>3. PICK part \in asked[r].parts : part.from < i /\ i <= part.to
      BY <2>3, <3>2 DEF CutOK, Covers
    <3>4. PICK l : l \in Named(seen, part.key.hash)
      BY <2>3 DEF CutOK
    <3>5. i \in part.from + 1 .. part.to
      <4>1. part.from \in Nat /\ part.to \in Nat
        BY <1>1, <3>4, SongsInType DEF AnswerInv
      <4>2. i \in Nat
        BY <2>3
      <4>3. QED
        BY <3>3, <4>1, <4>2
    <3>6. song \in SongsIn(l, part)
      BY <2>4, <3>1, <3>4, <3>5 DEF SongsIn
    <3>7. QED
      BY <3>4, <3>6 DEF Wanted
  <2>7. Range(list) \subseteq Song
    BY <2>3 DEF Range
  <2>8. \A song \in Song : <<r, song>> \in results <=> Wanted(asked, seen, r, song)
    BY <1>1, <2>1, <2>2, AnsweredSongs
  <2>9. {song \in Song : <<r, song>> \in results} = Range(list)
    BY <2>5, <2>6, <2>7, <2>8
  <2>10. QED
    BY <2>9 DEF list
<1>2. QED
  BY <1>1, AnswerInvariant, PTL
=============================================================================
