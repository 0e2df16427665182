------------------------------ MODULE SongLists ------------------------------
(***************************************************************************)
(* Which songs a request is answered with.  The song list is republished   *)
(* now and then; cuscuta-entry and the workers each keep a pool of the     *)
(* versions they have seen.  The entry cuts its newest list into ranges    *)
(* and puts the jobs into streams, reusing any stream of the same range;   *)
(* a worker takes a stream whose hash one of its own lists has, and scans  *)
(* that list.                                                              *)
(***************************************************************************)
EXTENDS Integers, Sequences, Functions

CONSTANTS
  Song,         \* idx, id and difficulties of a song
  List,         \* the lists that may be published, sequences of songs
  Worker, Entry,
  MaxRequests, MaxChanges,
  MaxFaults     \* bound on restarts, failing writes and expired streams of a run

\* sync_song_list's hash is taken after sorting by idx: the order of the list
\* does not count.
calc_song_list_hash(list) == Range(list)

ASSUME ConstantsAssumption ==
  /\ List \subseteq Seq(Song) \ {<<>>}
  /\ \A l, m \in List :
       calc_song_list_hash(l) = calc_song_list_hash(m) => Len(l) = Len(m)
  /\ Entry \notin Worker
  /\ MaxRequests \in Nat /\ MaxChanges \in Nat /\ MaxFaults \in Nat

VARIABLES
  published,    \* what the URL of the song list answers
  pool,         \* SONG_LIST of each process, the newest list first
  asked,        \* the requests: list they were cut from, jobs, jobs not yet written
  streams,      \* sub-queue |-> entries not delivered yet, and delivered ones
  held, at,     \* jobs of a worker, each counted; and their sub-queue, if any
  cursor,
  results,      \* songs whose scores were pushed for a request
  done,         \* jobs acknowledged
  \* history and bounds
  seen,         \* lists published so far
  changes, faults

workerVars == <<held, at, cursor>>
vars == <<published, pool, asked, streams, workerVars, results, done, seen, changes, faults>>

Process == Worker \cup {Entry}
Request == 1 .. MaxRequests
NoList == <<>>

\* A SubQueue. A stream entry is a job and does not know its hash.
Key == [hash : SUBSET Song, ts : Nat, from : Nat, to : Nat]
Job == [req : Request, from : Nat, to : Nat]
Counted == [req : Request, from : Nat, to : Nat, n : Nat]
Part == [from : Nat, to : Nat, key : Key]

NoKey == [hash |-> {}, ts |-> 0, from |-> 0, to |-> 0]
JobOf(e) == [req |-> e.req, from |-> e.from, to |-> e.to]

Init ==
  /\ published \in List
  /\ pool = [p \in Process |-> <<>>]
  /\ asked = [r \in Request |-> [list |-> NoList, parts |-> {}, todo |-> {}]]
  /\ streams = <<>>
  /\ held = [w \in Worker |-> {}] /\ at = [w \in Worker |-> NoKey]
  /\ cursor = [w \in Worker |-> 0]
  /\ results = {} /\ done = {}
  /\ seen = {published} /\ changes = 0 /\ faults = 0

Fault == faults < MaxFaults /\ faults' = faults + 1

----------------------------------------------------------------------------
(* The song list *)

Publish(list) ==
  /\ changes < MaxChanges /\ list # published
  /\ published' = list /\ seen' = seen \cup {list} /\ changes' = changes + 1
  /\ UNCHANGED <<pool, asked, streams, workerVars, results, done, faults>>

\* Mutant: a list that was seen at any time is not added again.
NeedsAddOnce(p, hash) == \A i \in DOMAIN pool[p] : calc_song_list_hash(pool[p][i]) # hash
NeedsAdd(p, hash) == \A i \in DOMAIN pool[p] : i = 1 => calc_song_list_hash(pool[p][i]) # hash

\* Mutant: the new list replaces the pool.
InsertOnly(p, list) == <<list>>
Insert(p, list) == <<list>> \o pool[p]

\* One fetch and write of sync_song_list; failing ones change nothing and are
\* retried.
Sync(p) ==
  /\ NeedsAdd(p, calc_song_list_hash(published))
  /\ pool' = [pool EXCEPT ![p] = Insert(p, published)]
  /\ UNCHANGED <<published, asked, streams, workerVars, results, done, seen, changes, faults>>

----------------------------------------------------------------------------
(* cuscuta-entry *)

\* split_weighted_ranges answers some partition (SplitRanges).
Ranges(n) ==
  {{c \in [from : {0} \cup S, to : S \cup {n}] :
      c.from < c.to /\ \A x \in S : x <= c.from \/ c.to <= x} : S \in SUBSET (1 .. n - 1)}

\* Mutant: found by where the range starts.
SameStart(k, range) == k.from = range.from
SameSegment(k, range) == k.from = range.from /\ k.to = range.to

\* queues.iter().find(): scan_sub_queue sorts by timestamp within a segment.
Target(range, hash, ts) ==
  LET same == {k \in DOMAIN streams : SameSegment(k, range)}
  IN  IF same = {} THEN {[hash |-> hash, ts |-> ts, from |-> range.from, to |-> range.to]}
                   ELSE {k \in same : \A m \in same : k.ts <= m.ts}

PartsFor(ranges, hash, ts) ==
  LET keys == UNION {Target(range, hash, ts) : range \in ranges}
  IN  {{[from |-> range.from, to |-> range.to, key |-> f[range]] : range \in ranges} :
         f \in {g \in [ranges -> keys] : \A range \in ranges : g[range] \in Target(range, hash, ts)}}

Enqueue(r, ranges, ts) ==
  LET list == Head(pool[Entry])
  IN  \E parts \in PartsFor(ranges, calc_song_list_hash(list), ts) :
        asked' = [asked EXCEPT ![r] = [list |-> list, parts |-> parts, todo |-> parts]]

\* op up to its loop. Requests are numbered in the order of their timestamps.
Ask(r) ==
  /\ asked[r].list = NoList /\ \A q \in Request : q < r => asked[q].list # NoList
  /\ pool[Entry] # <<>>
  /\ \/ \E ranges \in Ranges(Len(Head(pool[Entry]))) : Enqueue(r, ranges, r)
     \/ Enqueue(r, {[from |-> 0, to |-> 0]}, 0)
  /\ UNCHANGED <<published, pool, streams, workerVars, results, done, seen, changes, faults>>

\* XADD after XGROUP CREATE MKSTREAM, which makes the stream if it is gone.
Added(k, jobs) ==
  [x \in DOMAIN streams \cup {k} |->
     IF x # k THEN streams[x]
     ELSE IF k \in DOMAIN streams THEN [streams[k] EXCEPT !.waiting = @ \cup jobs]
     ELSE [waiting |-> jobs, pending |-> {}]]

Write(r) ==
  \E part \in asked[r].todo :
    /\ \A other \in asked[r].todo : part.from <= other.from
    /\ streams' = Added(part.key, {[req |-> r, from |-> part.from, to |-> part.to]})
    /\ asked' = [asked EXCEPT ![r].todo = @ \ {part}]
    /\ UNCHANGED <<published, pool, workerVars, results, done, seen, changes, faults>>

Refused(r) == [list |-> asked[r].list, parts |-> {}, todo |-> {}]

\* The client gets no token; what was written stays written.
WriteFails(r) ==
  /\ asked[r].todo # {} /\ Fault
  /\ asked' = [asked EXCEPT ![r] = Refused(r)]
  /\ UNCHANGED <<published, pool, streams, workerVars, results, done, seen, changes>>

RestartEntry ==
  /\ pool[Entry] # <<>> /\ Fault
  /\ pool' = [pool EXCEPT ![Entry] = <<>>]
  /\ asked' = [r \in Request |-> IF asked[r].todo # {} THEN Refused(r) ELSE asked[r]]
  /\ UNCHANGED <<published, streams, workerVars, results, done, seen, changes>>

----------------------------------------------------------------------------
(* A worker's loop. Friends, failing jobs and errors within an iteration are *)
(* WorkerScan's; how many jobs a worker takes is, too.                       *)

\* Mutant: the list only has to be long enough.
MatchesIfLong(list, k) == k.to <= Len(list)
Matches(list, k) == calc_song_list_hash(list) = k.hash

HeldOf(k) == UNION {{JobOf(e) : e \in held[w]} : w \in {v \in Worker : at[v] = k}}

\* pull_jobs: XREADGROUP, and XAUTOCLAIM for those of `idle` that no worker holds.
Available(k, idle) ==
  IF k \in DOMAIN streams
  THEN streams[k].waiting \cup ((streams[k].pending \cap idle) \ HeldOf(k))
  ELSE {}

Delivered(k, jobs) ==
  IF k \in DOMAIN streams
  THEN [streams EXCEPT ![k] = [waiting |-> @.waiting \ jobs, pending |-> @.pending \cup jobs]]
  ELSE streams

Acked(s, k, jobs) ==
  IF k \in DOMAIN s THEN [s EXCEPT ![k].pending = @ \ jobs] ELSE s

Complete(e) == e.n >= e.to - e.from

\* gather_rank_list answers nothing past the end of the list.
Scores(list, k, i, jobs) ==
  IF k.from = k.to \/ i + 1 \notin DOMAIN list THEN {}
  ELSE {<<e.req, list[i + 1]>> : e \in jobs}

\* Mutant: wraps a song late.
ForwardLate(k, i) == IF i >= k.to THEN k.from ELSE i + 1
Forward(k, i) == IF i + 1 >= k.to THEN k.from ELSE i + 1

\* The rest of internal_loop, with the song at i.
Poll(w, list, k, i, new) ==
  LET jobs == held[w] \cup {[req |-> j.req, from |-> j.from, to |-> j.to, n |-> 0] : j \in new}
      counted == {[e EXCEPT !.n = @ + 1] : e \in jobs}
      finished == {JobOf(e) : e \in {c \in counted : Complete(c)}}
  IN  /\ held' = [held EXCEPT ![w] = {e \in counted : ~Complete(e)}]
      /\ at' = [at EXCEPT ![w] = IF \A e \in counted : Complete(e) THEN NoKey ELSE k]
      /\ cursor' = [cursor EXCEPT ![w] = Forward(k, i)]
      /\ results' = results \cup Scores(list, k, i, jobs)
      /\ done' = done \cup finished
      /\ streams' = Acked(Delivered(k, new), k, finished)

\* Mutant: only the newest list is looked at.
ListsOfNewest(w) == {i \in DOMAIN pool[w] : i = 1}
ListsOf(w) == DOMAIN pool[w]

Found(w, idle) ==
  {f \in ListsOf(w) \X DOMAIN streams : Matches(pool[w][f[1]], f[2]) /\ Available(f[2], idle) # {}}

\* The order of discover_sub_queue_for_jobs: the oldest list, of its queues the
\* first segment, of those the oldest queue.
Before(f, g) ==
  \/ f[1] > g[1]
  \/ f[1] = g[1] /\ f[2].from < g[2].from
  \/ f[1] = g[1] /\ f[2].from = g[2].from /\ f[2].ts < g[2].ts

Discover(w, idle) ==
  /\ held[w] = {}
  /\ \E f \in Found(w, idle) :
       /\ \A g \in Found(w, idle) : ~Before(g, f)
       /\ Poll(w, pool[w][f[1]], f[2], f[2].from, Available(f[2], idle))
  /\ UNCHANGED <<published, pool, asked, seen, changes, faults>>

\* find(): the newest list with the hash, which need not be the one that
\* was discovered. Without any, the worker panics.
TopUp(w, idle) ==
  /\ held[w] # {}
  /\ \E i \in DOMAIN pool[w] :
       /\ Matches(pool[w][i], at[w]) /\ \A j \in 1 .. i - 1 : ~Matches(pool[w][j], at[w])
       /\ Poll(w, pool[w][i], at[w], cursor[w], Available(at[w], idle))
  /\ UNCHANGED <<published, pool, asked, seen, changes, faults>>

Iterate(w) ==
  \E idle \in SUBSET UNION {streams[k].pending : k \in DOMAIN streams} :
    Discover(w, idle) \/ TopUp(w, idle)

Exit(w) ==
  /\ Fault
  /\ pool' = [pool EXCEPT ![w] = <<>>]
  /\ held' = [held EXCEPT ![w] = {}] /\ at' = [at EXCEPT ![w] = NoKey]
  /\ cursor' = [cursor EXCEPT ![w] = 0]
  /\ UNCHANGED <<published, asked, results, done, seen, changes>>

\* resume_state puts each job back where it came from.
Stop(w) ==
  /\ pool[w] # <<>>
  /\ LET jobs == {JobOf(e) : e \in held[w]}
     IN  streams' = IF jobs = {} THEN streams
                    ELSE Acked(Added(at[w], jobs), at[w], jobs)
  /\ Exit(w)

\* The entries stay delivered and can be claimed.
Crash(w) ==
  /\ held[w] # {}
  /\ Exit(w) /\ UNCHANGED streams

----------------------------------------------------------------------------

\* Nobody refreshed the stream for its TTL. How long an iteration takes has no
\* bound, so that a worker may even be serving it.
Expire(k) ==
  /\ Fault
  /\ streams' = [x \in DOMAIN streams \ {k} |-> streams[x]]
  /\ UNCHANGED <<published, pool, asked, workerVars, results, done, seen, changes>>

Next ==
  \/ \E list \in List : Publish(list)
  \/ \E p \in Process : Sync(p)
  \/ \E r \in Request : Ask(r) \/ Write(r) \/ WriteFails(r)
  \/ RestartEntry
  \/ \E w \in Worker : Iterate(w) \/ Stop(w) \/ Crash(w)
  \/ \E k \in DOMAIN streams : Expire(k)

\* sync_song_list is a periodic task, worker_loop and a request's handler run on.
Spec ==
  /\ Init /\ [][Next]_vars
  /\ \A p \in Process : WF_vars(Sync(p))
  /\ \A r \in Request : WF_vars(Write(r))
  /\ \A w \in Worker : WF_vars(Iterate(w))

----------------------------------------------------------------------------
(* Properties *)

TypeOK ==
  /\ published \in List /\ seen \in SUBSET List /\ changes \in 0 .. MaxChanges
  /\ faults \in 0 .. MaxFaults
  /\ pool \in [Process -> Seq(List)]
  /\ asked \in [Request -> [list : List \cup {NoList}, parts : SUBSET Part, todo : SUBSET Part]]
  /\ DOMAIN streams \subseteq Key
  /\ \A k \in DOMAIN streams : streams[k] \in [waiting : SUBSET Job, pending : SUBSET Job]
  /\ held \in [Worker -> SUBSET {e \in Counted : e.n < e.to - e.from}]
  /\ at \in [Worker -> Key] /\ cursor \in [Worker -> Nat]
  /\ results \subseteq Request \X Song /\ done \subseteq Job

\* The list of the jobs a worker holds is in its pool whatever was published
\* since they were pulled ("should have matched songs").
HeldListKnown ==
  \A w \in Worker : held[w] # {} => \E i \in DOMAIN pool[w] : Matches(pool[w][i], at[w])

\* Although a stream is reused for jobs of other lists, the songs a worker polls
\* are songs of its list, and within the range of each job it holds.
PollsInRange ==
  \A w \in Worker : held[w] # {} =>
    /\ \A i \in DOMAIN pool[w] : Matches(pool[w][i], at[w]) => cursor[w] + 1 \in DOMAIN pool[w][i]
    /\ \A e \in held[w] : e.from <= cursor[w] /\ cursor[w] < e.to

Answered(r) ==
  /\ asked[r].parts # {} /\ asked[r].todo = {}
  /\ \A part \in asked[r].parts : [req |-> r, from |-> part.from, to |-> part.to] \in done

ListsWith(hash) == {l \in seen : calc_song_list_hash(l) = hash}
SongsIn(list, part) == {list[i] : i \in part.from + 1 .. part.to}

\* As long as a hash stands for one order of songs, each job is answered with
\* the songs the list of its stream has in its range, and no others, whatever
\* workers it went through and whatever was published meanwhile.
ScannedAsQueued ==
  (\A l, m \in seen : calc_song_list_hash(l) = calc_song_list_hash(m) => l = m) =>
    \A r \in Request : Answered(r) =>
      {song \in Song : <<r, song>> \in results} =
        UNION {UNION {SongsIn(l, part) : l \in ListsWith(part.key.hash)} : part \in asked[r].parts}

Extends(l, m) == Len(m) <= Len(l) /\ \A i \in DOMAIN m : l[i] = m[i]

\* As long as lists only grow at their end, a request for scores is answered
\* with the whole list the entry had when it was asked.
AppendedListsComplete ==
  (\A l, m \in seen : Extends(l, m) \/ Extends(m, l)) =>
    \A r \in Request : Answered(r) /\ (\A part \in asked[r].parts : part.from < part.to) =>
      {song \in Song : <<r, song>> \in results} = Range(asked[r].list)

Knows(w, k) == \E i \in DOMAIN pool[w] : Matches(pool[w][i], k)

\* No job waits for ever in a stream whose list some worker keeps having.  Requests
\* are finite here: discover_sub_queue is reached only when the worker holds no job,
\* so jobs that keep coming for one range would keep it from all others.
KnownJobsArePulled ==
  \A w \in Worker : \A r \in Request :
    []<>(\A k \in DOMAIN streams :
           Knows(w, k) => \A j \in streams[k].waiting : j.req # r)

\* Every process comes to have the published list, or a permutation of it, in
\* front, also when an earlier list is published again.
ListsCatchUp ==
  \A p \in Process :
    []<>(pool[p] # <<>> /\ calc_song_list_hash(Head(pool[p])) = calc_song_list_hash(published))
=============================================================================
