# TLA+ specifications of cuscuta

cuscuta collects the scores of players of an online game. A client asks for one player's scores; the
request is cut into jobs, the jobs wait in redis streams, and crawler workers, each with an account of
the game, befriend the players and read song after song the list of their friends' scores. This
directory holds TLA+ modules translated from the Rust sources, TLC configurations that check them on
small instances, and TLAPS proofs of their main properties for every instance.

Paths below are relative to `src/`.

## 1. The system

### 1.1 Components, state, operations

| component | state it keeps | operations |
|---|---|---|
| **cuscuta-entry** (`cuscuta-entry/src`) | none of its own | `/v1/enqueue`: split the song list into ranges, XADD one job per range, then write one tag per job; `/v1/query`: verdict from the tags, results; `/v1/status` |
| **cuscuta-worker loop** (`cuscuta-worker/src/worker`) | `current_jobs`, cursor, `current_segments`, its copy of the friend list | `internal_loop`: pull, add friends, poll one song, push scores, clean, move the cursor; `resume_state` when the loop returns |
| **friend modification** (`worker/friend_modify.rs`, `api/xxxxxx.rs`) | local variables of a call | `try_modify_remote_friend`, `wait_for_result`, `xxxxxx_safe_call_ex`, `calc_friend_delta` |
| **job store** (`cuscuta-common/src/db/job`) | streams and consumer group, `results:index` (tags), `results:value`, `results:friend_info`, eta | `write_job`, `batch_write_job_tracking_tag`, parsing of entries and the derived `job_uid` |
| **account lease** (`db/account.rs`, `cuscuta-worker/src/init.rs`, `main.rs`, `loop_tasks.rs`) | `account_table` in PostgreSQL, `ACCOUNT_ROW` | lock, extend, rate, release; initialise, halt |
| **song list split** (`endpoints/enqueue.rs`) | none | `split_weighted_ranges` |
| **song list pool** (`scheduled_job/tasks.rs`, `data.rs`) | `SONG_LIST` of the entry and of each worker: the versions of the list it has seen, with their hashes | refresh; the entry's choice of a stream; the worker's search for a stream it has the list of |
| **remote call wrapper** (`api/*`, `api_compat.rs`), **cuscuta-chilo** | none | signed HTTP requests |
| **shared cells and periodic tasks** (`quick_fetch.rs`, `scheduled_job`, `loop_tasks.rs`) | `OnceLock<RwLock<Option<T>>>` cells of each process | tasks fetch and write at each tick, with retries; a pool is opened once; readers spin or fail; `/readyz` |
| **fetch of results** (`db/job/fetch.rs`, `endpoints/query.rs`) | none | three reads in a row: tags, friend info, scores |
| **cuscuta-mock** | accounts and their friends | the remote game service as the tests see it |
| **cuscutactl**, **dashboard**, helm, **cuscuta-test** | none | operator commands, display, deployment, test helpers |

### 1.2 How they interact

* Entry and workers share only redis. A job travels as a stream entry; a consumer group hands each new
  entry to one worker, and XAUTOCLAIM hands over entries that were not acknowledged for a while. Tags
  are written by both sides without any common transaction.
* A worker and the game service exchange requests and replies; the worker never learns what happened
  to a request whose reply it did not get, except by listing its friends.
* A worker holds jobs of one sub-queue at a time. All of them are served by the same poll, so jobs
  join wherever the cursor stands, and a friend is shared by all jobs with its code.
* Workers share accounts through PostgreSQL under a lease; an operator may release them and change their rate.
* Inside a process everything is handed over in shared cells: tasks write them, the loop and the request
  handlers read them, nobody waits for the lock.
* Client and workers share the keys of a token, and so do requests that got the same token: the friend code and
  the second of the request, or the code alone if only the friend's info is asked for.

### 1.3 What is hard, and what has to be right

* *Ordering and counting in the scan.* A job joins in the middle of a segment, the cursor wraps, jobs
  end by count alone, and any `?` may end an iteration after some of its effects. Right: a finished
  job has every song once (`FinishedIsComplete`), a lost iteration costs one song at most
  (`LossBounded`), the cursor and the held jobs agree (`HeldInSegment`).
* *Sharing friends.* Right: a polled job's friend is in the list (`PendingIsFriendUnlessOrphaned`), a
  friend nobody needs is not (`FriendsInUse`).
* *Partial failures and crashes around acknowledgement.* Right: a written job stays known until its
  status stands (`WrittenJobsKept`), a job being scanned can be recovered (`ScannedIsRecoverable`),
  `Finished` is only said of scanned ranges (`VerdictSound`), an accepted job settles
  (`AcceptedJobsSettle`).
* *An unreliable service.* Right: the copy of the friend list is the list (`CacheIsExact`), a job gets
  its own player's data (`RightFriend`), no false "not found" (`NotFoundIsHonest`), calls return
  (`CallsReturn`). Three of these need that the loop waits for `init`, which nothing in the code ensures (2.3).
* *Leases.* A refresh and a release ask nobody who has the account. Right: two workers use one account
  only after one was deprived of it (`SoleUser`), in good order only while one of them is leaving
  (`SharedOnlyWhenLeaving`), and the account of a dead worker comes back (`AccountsComeBack`).
* *Answers put together from several keys.* Tags, friend info and scores are read one after the other while
  workers write and keys expire; tags are read and written in two calls; two requests may have one token.
  Right: what goes with a Finished verdict is complete (`AnswerComplete`), final and without doubles if
  nothing was done twice (`FinishedIsFinal`), a failure is explained (`FailureExplained`), and an accepted
  request is answered once all is quiet (`QuietMeansAnswered`).
* *Cells nobody waits for.* A write empties the cell for a moment and fails if a reader has it. Right: a cell
  is a register for its readers (`IsRegister`), ready stays ready (`ReadyMeansReadable`), new values get
  through (`LoopsCatchUp`), cancelled tasks end (`TasksEnd`).
* *Counting in the split.* The bound is searched with one way of counting ranges and the list is cut
  with another. Right: the ranges are a partition (`RangesPartition`), not too many (`AtMostCount`), and
  the request is answered (`SplitEnds`).
* *Versions of the song list.* Each process has its own pool, jobs and ranges carry no hash, and streams
  are reused by range alone. Right: the worker has the list its jobs need (`HeldListKnown`), polls songs
  that are there (`PollsInRange`) and that the stream's list has in its range (`ScannedAsQueued`), which
  is what was asked for when lists only grow (`AppendedListsComplete`); new and old lists get their
  turn (`ListsCatchUp`, `KnownJobsArePulled`).

The full list, each item at its line, is `hazards` in `PROJECT.json`.

## 2. Modules

| module | models | refers to |
|---|---|---|
| `WorkerScan` | one worker's loop, abstracting redis to "an entry is waiting" and a friend call to one step | |
| `JobTracking` | the life of a request in redis over entry and several workers, abstracting the scan to Pulled / Pending / Finished / Failed | `JobStatus` by `INSTANCE` |
| `JobStatus` | abstract: what a client is promised about a job's status | |
| `FriendModify` | the inside of one friend call against an unreliable service | `FriendList` by `INSTANCE` |
| `FriendList` | abstract: a friend list with atomic additions and removals, as `WorkerScan` uses it | |
| `AccountLease` | several workers starting, running, halting and crashing around `account_table`, and an operator | |
| `SplitRanges` | `split_weighted_ranges` with its search | |
| `SongLists` | the pools of entry and workers, the choice of streams and what requests are answered with while the list is republished | |
| `RequestResults` | what a client reads under a token: two-call tag updates, equal entries, repeated requests, expiring keys, the three reads of `/v1/query` | |
| `SharedCells` | the shared cells of a process, the tasks that fill them, their readers | `Registers` by `INSTANCE` |
| `Registers` | abstract: what a shared value is to its readers | |
| `MC...` | constants of the instances for TLC | their module |
| `...Proofs` | theorems and their proofs | their module |

### 2.1 WorkerScan

State: `state`, `cursorStart`, `currentLength` are fields of the `Job` structs (`Waiting` is "still in
the stream", `Cleaned` is "dropped", `Unremoved` a `Failed` that carries a friend); `queue` and
`cursor` are `current_segments` and the cursor of `worker_loop`; `friends` is the worker's list. An
iteration of `internal_loop` is cut into the phases `pull`, `add`, `gather`, `write`, `clean`: the cuts
are where an error can end it. What has been changed by then stays changed, as in the code, and the
next iteration starts at `pull`. `try_add_friends` and `clean_jobs` are one action per job, since an
error can come between two jobs. `Restart` is `worker_loop` returning, `resume_state`, and the loop
being started again: held jobs go back to the stream with their counters gone.
`written`, `missed`, `orphaned`, `leaked` are history variables: no action reads them.

### 2.2 JobTracking

State: `queue` and `pel` are the stream and the group's pending entries, `tags` is `results:index`,
keyed by `job_uid` = range and cursor start, which is how the code derives it. `held` is what the
workers have in hand, with a phase for every place between two redis commands: after XREADGROUP, after
XACK, and inside `resume_state` after XACK and after XADD. The constant `Hazards` selects which adverse
events may happen, so that a run can say under which of them a property holds; `MaxFaults` bounds them.

`SetTag` is the read-modify-write of a tag. The code takes any error of the read for a tag that is not there
(`worker/mod.rs:303`), so that a connection lost for a moment replaces a tag by the default one; the actions
`TagPulledUnread` and `ResumeTagUnread` (hazard `read`) are this, and for `clean_jobs` the default has the status
that would have been written anyway. Hence `Again` in `JobStatus`: a job that was seen running may be shown as
queued once more after it was claimed from a dead worker. `CleanRefused` (hazard `refuse`) is a finished job that was tagged
`Success`, whose friend the game then refused to remove, and whose `clean_jobs` ended early at a later job: it
is tagged again in the next iteration, as `Failed`.

### 2.3 FriendModify

State: `remote` is the service's list, `cached` the worker's `friends`, `infoOf` the `friend_info` of
the jobs with a code. `phase`, `kind`, `code`, `retries`, `endure` are where a call stands:
`"request"` inside `try_modify_friend`, `"list"` inside `wait_for_result`; `retries` counts in
`xxxxxx_safe_call_ex`. One action is one answer of the service and everything the worker does with it
until it sends the next request. Which answers exist follows `cuscuta-mock` (429, empty list, refusal,
success) plus what the code has branches for and the mock does not produce: lost replies, 5xx,
undecodable bodies, and a 4xx for another reason than the friend (`RefuseOther`: an expired token, say), which
`friend_modify.rs:82` takes for an unknown player as well. A faulty answer leaves open whether the service acted.

`remote` begins with whatever friends the last user of the account left. `Restart` is a new start of the worker, which
keeps nothing; the service keeps its list. Then `init` lists the friends (`InitLists`; `found`) and removes them one by
one (`InitRemoves`), while the loop runs: `ACCOUNT_ROW` is published before (`init.rs:99`), with the login it had when
it was locked, so the loop may make calls from the start if the account had logged in before. `raced` records that it did.
A friend that `init` wants to remove and that is gone is a 4xx, and the worker halts: that is `Restart` again.
`InitAgain` is another run of `init` beside the loop, after one that failed or that lasted longer than its interval
(2.4), on the same account or on another one, which then is the loop's as well.

What the loop can rely on is therefore less than one would like, and the properties say when: `CacheIsExact`,
`NotFoundIsHonest` and `CallsAreAtomic` hold of a loop that made no call before `init` was over (`~raced`), `CallsReturn` of a call
that began when the copy was exact and `init` over; `NeverPanics` and `RightFriend` hold in any case. `WorkerScan`
uses the atomic list and so is about a worker that did not overtake its `init`.

### 2.4 AccountLease

State: `state`, `lease`, `rate` and `loggedIn` are columns of `account_table`; the lease is counted in
ticks no shorter than the refresh gap, 0 when it has passed. `row` is a worker's `ACCOUNT_ROW`, `ready`
whether that row carries a login, `init` where `cuscuta_init` stands, `using` the account of the loop's
current iteration (`get_args` copies the row, so it may differ from `row` later), `cancelled` the halt
token, `released` that `halt_progress` is over. `register_individual_job` and `register_job` pick any
ready branch of a `select!`, so a start or a refresh may go on after the token is cancelled. For the same reason
`cuscuta_init` may run again when a run that succeeded, or halted the worker, took longer than its interval of
10 seconds (`InitAgain`; `inited` is `init_token`): it locks a second account and replaces the row (the first account stays `Using`
until its lease ends, and the loop's iteration goes on with it), or finds none and halts a healthy worker, or
fails and releases the account the loop is using. `Exit` is
`main` returning or the process dying; the pod starts again. `fresh`, `lost` and `foul` are history:
who refreshed since the last tick, who was deprived of what, and whether a refresh was missed or an
account released by somebody who did not have it (an operator with
`--force` among them). `Tick` reads `fresh`: that is what "refreshes get
through" means, `TickLate` is the time that passes without.

One step each, although the code awaits in between: reading `ACCOUNT_ROW` and the refresh or release
that follows. For the release the effect of a stale read is there all the same: between `Undo` and
`Clear` the row still names an account that another worker may have locked.

`CtlCheck` and `CtlRelease` are the two statements of `cuscutactl accounts release`, `CtlForce` the same with
`--force`, which asks nothing but the state; both count as failures of the run. `CtlRate` is `accounts rate`
of an operator who gives a refused account another chance.

### 2.5 SplitRanges

State: the local variables of `split_weighted_ranges_min` and `split_weighted_ranges`, with an action
per pass of their loops; `check` is an operator. `r = mid - 1` wraps as in a release build. The sums and the
state of `check` are recursive functions over the songs (`Sums`, `Filled`), as a proof needs them. `Rank` is what is left
of the function's steps.

### 2.6 SongLists

State: `published` is what the URL answers, `pool` the `SONG_LIST` of each process, `streams` the
sub-queues, whose key carries hash, creation time and range, `asked` the requests with the parts `op`
cut them into and those it still has to write, `held`, `at`, `cursor` a worker's jobs with their counts,
their sub-queue and its cursor. `results` are the songs scores were pushed for. A list is a sequence and
a song an idx with its id and difficulties; `calc_song_list_hash` sorts before it hashes, so a hash is
the set of songs. `op` reads list and streams once (`Ask`) and then writes entry after entry (`Write`).

`WorkerScan` and `JobTracking` have the inside of what is one step here: an iteration (`Iterate`) and a
stop with `resume_state` (`Stop`). Left to them as well are the limit on held jobs, friends, and
claiming from a worker that is still alive: only the jobs nobody holds are claimed. A refresh of a pool,
a fetch and a write, is one step. A stream may expire at any time, even while it is served, since nothing bounds an
iteration. The field `cursor_start`, which the worker overwrites, decides nothing in the scan; a job
keeps the range it was asked with. Requests come in different seconds.

### 2.7 RequestResults

State: `tags`, `values`, `info` are the three keys of the token with `mortal`, which of them have a time to
live; `waiting` and `pending` the entries; `held` the workers' jobs with `n`, the songs polled, and `copy`,
what HGET gave (`Tagging`, `Closing` and `Resuming` lie between HGET and HSET); `client` how far `/v1/query` is. The
token, `phase` and `todo` are those of up to two requests that share it. A tag's `reason` is the first element of `failures`,
which is all `check_evidence` uses. Tags are kept per `job_uid` (`Uid`: range and `cursor_start`), and a worker that stops puts its
jobs back with the place where they joined (`ResumeAdd`), hence under another uid, whose tag is made anew; the old one is
left as `Success` (`TagResumed`). `run` tells the new entry from the old.

`ReadTagFails` is an HGET without an answer, or with one that cannot be parsed: the code goes on with the default
tag, whatever stands in redis. The marks are history: `early`, a worker had the job before it was tagged; `overtaken`, the
job was over by then, so that the tag `WriteTags` sets stays `Queueing` for ever; `unread`, a tag of the range could
not be read; `lost`, scores that expired, or whose job was put back, and were not gathered again; `dropped`, a job that left no
entry behind, or a re-enqueued one whose old tag was made anew, as `Queueing`, and is nobody's any more. A worker that is ahead of the tags
is thus within what the properties are about: `QuietMeansAnswered` excepts the `overtaken` ranges and no other.

The cursor is left to `WorkerScan`, failing writes and a worker that dies inside `resume_state` to `JobTracking`. Keys and streams expire
only while no job keeps them alive: an iteration is taken to be shorter than the time to live, which
`refresh_redis_ttl` renews in each. One action per redis call that touches a tag; `Poll` is the push of one song's
scores, `Refresh` the end of the iteration for all jobs of a worker.

### 2.8 SharedCells

State: `value` is the `Option` in each cell, `task` where its task stands (`put`: inside `try_write`, with the
value taken out), `due` whether its interval has ticked, `cancelled` the halt token, `holding` the read guard
of a reader, `next` how far `get_args` is, `checked` how far `/readyz` is. Values are numbered in the order
their source publishes them. `RunTick` and `Stop` are the two branches of `select!`, either of which may be
taken when both are ready. `Transaction` holds its guard over an await (`try_open_transaction`), `Loop` only
for a moment, but on another thread. The pool is the cell that is only filled when empty. A version is a value up to its hash: `sync_song_list` drops a list whose hash is that of the
newest it has (`tasks.rs:93-99`), which leaves the same version in the cell.
`Registers` is what readers may rely on: a value once stored is never missed, never older than one they saw.

## 3. Runs

| run | instance | shows |
|---|---|---|
| `scan` | 4 jobs, 2 sub-queues (two songs; empty), 2 friends each shared by two jobs, room for 2 jobs, 2 faults | the seven invariants of `WorkerScan` and `EveryJobCleaned` |
| `scan_pending_friend` | the same with room for 3 | finding: a Pending job without its friend |
| `tracking` | 2 ranges, 2 workers, 2 cursor positions, crashes, tags that cannot be read or written, `clean_jobs` or a request that ends half-way, 2 faults | the tags refine `JobStatus`; Success only after a scan; every range settles |
| `tracking_faults` | 1 range, 2 workers, every hazard, 2 faults | nothing is lost; the verdict is sound |
| `tracking_success` | the same | finding: a Success tag without a scan |
| `friend_modify` | 2 players and an unknown code, room for 2 friends and 2 jobs, any friends left from before, 2 tries, 3 glitches, 1 loss or later `init`, 1 refusal for another reason | a call is atomic as long as the retries mask the faults; what holds in any case |
| `account_lease` | 2 workers, 1 account, lease of 2 refreshes, an operator who releases, forces and rates, 1 failure, late rerun of `init` or release by the operator | who shares an account and when; an abandoned one comes back |
| `account_lease_ctl` | the same | finding: the operator's release of an active lease |
| `request_results` | 2 requests with one token for one song or for info only, or 1 request of two ranges, of two songs and of one; 2 workers, 1 crash, re-claim, failing request, expiry, tag that cannot be read or re-enqueued job | what a client is told is complete, final, explained, and told in the end |
| `shared_cells` | 1 refreshed cell with 2 versions and 2 tries, the pool, 1 loop, 1 transaction, `/readyz`, a cancellation | cells are registers; versions get through; tasks end |
| `split_ranges` | every list of 1 to 5 songs with 0 to 3 difficulties, 2 or 4 jobs | least bound, partition, no more jobs than wanted, the search ends |
| `song_lists` | 2 requests, 1 worker, lists (a), (a, b), (b, a), 2 changes of the published list, 1 restart, failing write or expired stream | which songs a request is answered with; lists are found and catch up |

*Why the bounds are enough.* In `scan` a job joins at both positions of a two-song segment, wraps,
shares its friend with another, waits for room, and sees another sub-queue before and after; two faults
allow one failure in the middle of recovering from another. In `tracking` two cursor positions are the
equal and the different one, two workers the holder and the claimant. In `friend_modify` three
glitches are more than the retries, so both the masked and the unmasked case occur; one loss makes a copy wrong, and
the calls after it suffer from it. More losses, and whatever glitches mix with them, are left to the theorems. In `account_lease` two workers and one account are a
user and a claimant; one failure suffices to lose, leak or doubly release the account, since refusals,
terminations and failing writes of the row are not counted. A failure after a late rerun of `init` needs two and is left to the theorems,
which hold for any number. More accounts than one (a worker that goes
on with another one while its loop still uses the first) are left to the theorems: two accounts have
more than 10 million states. In `split_ranges` five songs are enough for the carry to pass over two cuts. In `song_lists` the second request reuses streams of the first, a list grows,
shrinks, is permuted and comes back. Two workers with two changes do not end in the time of a run;
with one change they were tried and show the same. In `request_results` two entries of one part are the
smallest set with a duplicate, two workers the smallest with two holders of one job, and a range of two songs the
smallest that can be answered half, or re-enqueued at another place; equal entries of such a range are left to the theorems, since they
do not end in the time of a run (1.9 million states without the split request); one failure is one job carried to another uid, or one tag made anew. In `shared_cells` two versions are an old and a new value, two tries a
failing one and another; more than one refreshed cell is left to the theorems. Every action fires in some passing run.

*Fairness.* `WorkerScan` and `JobTracking` assume weak fairness of the worker's own steps as a whole:
`worker_loop` (`worker/mod.rs:92-119`) calls `internal_loop` for ever and only sleeps after an error.
`JobTracking` assumes it of `cuscuta-entry` too: a request handler runs to its end unless it fails,
which is an action of its own. In `FriendModify` only `Answer`, the service's fault-free answers, is
fair; faults never have to happen and are bounded, so the service answers in the end. In
`AccountLease` time passes and a worker that is not cancelled refreshes again and again
(`register_job` with an interval); nothing else is fair: nobody has to start, finish or halt.
`SplitRanges` is sequential code. `RequestResults` states safety only: `QuietMeansAnswered` speaks of states in
which nothing is left to do. In `SharedCells` intervals tick, tasks and loops run (`tokio` tasks), a fetch that
is tried for ever succeeds (strong fairness of `Fetch`), a spinning reader finds the lock free, and `select!` chooses at
random, hence strong fairness of `Stop`; `MeetsNoReader` says that a `try_write` which fails for ever meets a
moment without a reader, since guards are out for moments and tries are seconds apart. That a fetch returns at all is
assumed: `fetch_json` sets no timeout of its own. In `SongLists` a pool is refreshed again and again (`register_job_future`,
and failing fetches do not go on for ever), handlers run on, and so does each worker's loop. `KnownJobsArePulled` also
rests on requests being finite: a worker looks for another stream only when it holds no job (`pull/mod.rs:35-45`), so traffic
on one range that never lets up keeps it from all others. No fairness of the code's own would change that.
Deadlock
checking is off where a finite set of jobs or faults lets the system come to rest.

### 3.1 Findings

1. `scan_pending_friend`: `JobState::Pending` is documented as "friend added" (`db/job/mod.rs:68`), but
   `try_add_friends` trusts the `friend_info` of a `Finished` job, which a `clean_jobs` that failed
   half-way has left behind after removing the friend.
2. `tracking_success`: a stopping worker tags the jobs it re-enqueues `Success`, documented as "job
   complete" (`track.rs:40`). In the trace it does so while the request is still being written; once it is accepted, a query in
   between answers Finished, which is why `VerdictSound` excepts re-enqueued ranges.
3. `account_lease_ctl`: `cuscutactl accounts release` "refuses to release an account whose lease has
   not yet expired", but it looks in one statement and releases in another, unconditionally.

Met on the way, without a run of their own:

* `Queueing` is documented as "claimed by nobody" (`track.rs:31`), but the entry writes its tags after its entries
  (`enqueue.rs:137-156`), over the tag of a worker that has the job already, and a tag a worker makes anew is
  `Queueing` as well (`pull/mod.rs:76`). In `JobTracking` and `RequestResults` this is how the code does it.
* `job_uid` "must not change when the job is re-enqueued" (`job/mod.rs:173`), but it is derived from `cursor_start`, which
  the worker overwrites (`pending_friend.rs:103`): `UidOf` of `JobTracking`.
* `QuickFetch::try_write` is documented as leaving the variable alone when the callback returns `None`
  (`quick_fetch.rs:42`); the code stores the `None` (`:90`), and `try_failed_resume` needs it to (mutant
  `ClearKeeps`). `is_initialized` says no of a cell that is being written (`:94`), so `/readyz` of a ready process may answer 503 for
  a moment (`AnswerNotReady`); no value is missing then (`ReadyMeansReadable`).
* `cuscutactl jobs find` searches for keys with the prefix of tags and then prefixes what it found once
  more (`jobs.rs:64-79`), so it prints headings without tags.
* The API description calls the answer 200 of `/v1/query` "task completed", but a token that was never given, or whose keys
  expired, gets it too, with no scores: `all` of no tags is true (`query.rs:170`). `AnswerComplete` therefore excepts
  ranges that expired and were not gathered again (`lost`), and speaks of accepted requests.
* By default a stream lives 300 seconds after an entry was last written to it or a worker that holds jobs of it last
  pulled (`config.rs:7`, `pull/mod.rs:154`), and an entry must be idle for up to 1200 seconds to be claimed from a worker that
  crashed (`config.rs:91`, `pull/mod.rs:167`): unless other requests keep the stream alive, it is gone before.
  `ExpireStream` and `dropped` are about this.

Not violations of anything documented, but worth knowing, all seen as counterexamples while the
invariants of `FriendModify` were being found: after one removal whose outcome was lost (a 500 after
the service acted), the copy has a friend too many. A removal then polls for ever
(`CallsReturn` therefore asks for an exact copy at the start), an add is reported as not found, and
the next add may be given another player's friend info (`RightFriend` names exactly when: the other
player's friend was a stray in the list before). In `AccountLease`: `halt_progress` releases the account
while an iteration may still run, so the next worker's `init` removes friends that iteration is polling;
`try_failed_resume` releases once more when it cannot clear the row, whoever has the account by then;
every refused token costs a point of `rate` and only an operator's `accounts rate` gives it back. In `SplitRanges`: a
range may outweigh the bound that was searched, as (1, 2, 1) cut for three has bound 2 and ranges of weight 1 and
3. If no song has a difficulty the search
wraps and never ends, and a debug build panics.

In `SongLists`: the two premises are needed. A hash does not tell two orders of a list apart
(`tasks.rs:41`), so a request can be answered with the songs of another order's range, and
`discover_sub_queue_for_jobs` (oldest list first) and the `find` of later iterations (newest first) may
even use different orders for one job. If songs are removed or inserted, a request is answered with the
range of whichever list the reused stream was created for. And a stream whose hash no worker has any more, since all of them were restarted
after the list changed, is still reused and kept alive by each request of that range, and its jobs
wait (`KnownJobsArePulled` is about a worker that has the list).

## 4. Proofs

The eight `...Proofs` modules prove, for every value of the constants that satisfies `ConstantsAssumption`:

* `WorkerScan`: `TypeOK`, `HeldInSegment`, `FinishedIsComplete`, `LossBounded`, `PendingIsFriendUnlessOrphaned`,
  `FriendsInUse`, `HeldBounded`, `WorkShrinks`.
* `JobTracking`: `TypeOK`, `WrittenJobsKept`, `VerdictSound`, `ScannedIsRecoverable`; if no worker stops,
  `SuccessMeansDone`; and if moreover no live job is claimed, none is done before the tags are written and no friend of a
  finished job is kept by the game (`Orderly`), that it implements `JobStatus` (`KeepsPromise`), `RangesAdvance` and `TracelessIsSettled`.
* `FriendModify`: `TypeOK`, `NeverPanics`, `RightFriend`, `CacheIsExact`, `NotFoundIsHonest`, `CallsDescend`, and that it
  implements `FriendList` as long as the retries mask the faults (`CallsAreAtomic`).
* `AccountLease`: `TypeOK`, `SoleUser`, `SharedOnlyWhenLeaving`.
* `SplitRanges`: `TypeOK`, `RangesPartition`, `AtMostCount`, `BoundIsLeast`, `StepsDescend`.
* `SongLists`: `TypeOK`, `HeldListKnown`, `PollsInRange`, `ScannedAsQueued`, `AppendedListsComplete`.
* `RequestResults`: `TypeOK`, `FailureExplained`, `AnswerComplete`, `QuietMeansAnswered`, `FinishedIsFinal`.
* `SharedCells`: `TypeOK`, `ReadyMeansReadable`, `RunsDescend`, and that it implements `Registers` (`IsRegister`).

*`FinishedIsComplete`* is not inductive: it says nothing about jobs on their way. `CoverageInv` adds,
for a job being polled that lost no iteration, that the songs written so far are exactly those less than
`Pushes` ahead of `cursorStart` around the segment, and that the cursor is the next one. It is stated
with `Offset`, the distance of a song from `cursorStart` around the segment, and `AheadInSegment` says
how distances behave when the cursor moves. `IterationInv` (what each phase knows of `counted`,
`visited` and `deleted`, and `InSegment`, the bounds of the cursor) carries it through the phases.
*`LossBounded`* counts instead: `LossInv` says that the songs the cursor has led a job over and that were
delivered (`Passed`) are at least as many as it counted less those it `missed`: an aborted iteration has counted a song but leaves
the cursor where it was, so the cursor may lag behind the count and never leads it. A finished job has counted as
many as its segment has songs, and `SegmentSize` and `SubsetSizes` turn that into the bound.
*`PendingIsFriendUnlessOrphaned` and `FriendsInUse`* need each other: `FriendInv` is their
conjunction with what `clean_jobs` has deleted so far. *`HeldBounded`* is a cardinality argument: the
held set only grows in `Take`, by a set the guard leaves room for. *`WorkShrinks`* weighs three things: the
iterations still owed to jobs, the phases left of this one, the jobs it has not visited yet. What is owed is counted as the size of a set of
pairs (`Owed`, a job and one of its remaining iterations), which a step without a fault makes smaller
or leaves alone (`OwedShrinks`). `ProgressInv`: an iteration that is past its pull has jobs, and a `Pending` job is not counted to its end.

*`WrittenJobsKept`* is not
inductive because it counts any held job; `KeptInv` counts only those whose worker has acknowledged
them (`Unrecorded`), the others still having their entry. `RecoverInv` strengthens
*`ScannedIsRecoverable`* in the same way: the other holder it allows for is one that has acknowledged the entry. *`VerdictSound`*
needs `VerdictInv`: once the request is accepted each range has its tag, and a `Success` tag of the
uid it was enqueued with comes from a scan or from `resume_state`; without stops there is no latter, which is `SuccessMeansDone`.
*`KeepsPromise`* rests on `TraceInv`, a range has one entry, in the stream, or delivered and with one
holder, and no acknowledged entry is delivered again; and on `TagInv`: while the request is being
written a tag is `Queueing` at most, so that writing all tags disturbs none, and a final tag leaves
nothing behind that could set another one. `OneTagStep` maps every write of a tag to one step of
`JobStatus`. `Orderly` is needed: each of the four events makes a final tag change (`JobTracking` allows them, the run `tracking` does not).
*`RangesAdvance`* numbers what can be left of a range from 8, not written, down to 1, acknowledged without a final
tag; a range's `Standings` are the numbers that apply. As a range has one entry and one holder, a step without a fault takes one range from one standing
to a lower one (`OneRangeAdvances`) and touches no other (`OthersStand`). *`TracelessIsSettled`* then
says what rest means: `KeptInv` leaves a range without a trace no place but `settled` or `dropped`, and
the final tag of a settled one stands because `JobStatus` never takes one back (`FinalStands`).

*`FriendModify`*: the worker starts with an empty copy of a list that need not be empty, so all of `ExactInv` is about a loop that began after
`init`: until then the friends `init` found are those still in the list. `TypeInv` adds `WorkerType`, what the phases know of the variables of a call.
`StrayInv` says that a friend in the list being confirmed that is not in the copy is the one asked for
or a stray (`NewIn`); `RightFriend` and `NeverPanics` follow. `ExactInv` says what an exact copy means
in the middle of a call (`ExactCall`), while no loss occurred and there were no more glitches than tries;
`CleanInv` is the refinement mapping's invariant: a call changes `FriendList`'s state in one step
(`OneStep`). *`CallsDescend`* needs `SettledInv`, that during a call from an exact copy the service's list is either what was
asked for or what was there before; an answer that does not end the call uses up some of its `Patience`.

*`AccountLease`*: `OwnInv` says what a worker that was not deprived of its account may rely on: the table
shows the account in use under a lease, and everybody else who thinks he has it was deprived of it.
That gives `SoleUser`, since `try_lock_account` only takes an account of which all holders were
deprived. `FreshInv` (a refreshed worker's lease is at its full length, two ticks or more) shows that
`Tick` deprives no worker that goes on, and `OwnRelease` that a release by one who has the account
deprives nobody else: together `DeprivedInv`, hence `SharedOnlyWhenLeaving`.

*`SplitRanges`*: the bound never falls below the heaviest song (`BoundInv`), so the first song is never
cut off and each cut lies beyond the last (`LoopInv`); `AppendPart` extends the partition. What `check`
computes is proved too. The library's induction is out of reach (below), but one over a *set* of numbers is not:
`SetInduction` follows from the least element of its complement, and `RecursionExists` gives every recursive
function of the module its defining equation. `GreedyIsBest`: no way of cutting within the bound has, at any song, fewer ranges
behind it than the greedy one, or as many and less in the open one. `GreedyCuts`: the places where the greedy
way cuts are a way themselves. Together `CheckIsPossible`: `check` holds of exactly the bounds with which
the list can be cut into `count` ranges at all. `SearchInv` keeps it true above the interval and false
below (also where `r = mid - 1` wraps, as it does on a list of zeros only), and the interval closes on
the least bound: `BoundIsLeast`. `AtMostCount` cannot appeal to `check`, since the cutting loop carries over what a range lacks to the bound: `CutInv` says that
what it has passed weighs as much as the cuts it made times the bound, plus what it carries, and `check` (`CheckIsRoom`)
that the list weighs no more than `count` times the bound.

*`SongLists`*: `StreamInv` says that a stream only has jobs of its own range, since reuse compares the
whole range, and that the range fits every list with the stream's hash, which is why
`ConstantsAssumption` asks that lists of one hash have one length. `WorkerInv` carries this over to the held jobs
and adds that their list is in the pool, where a refresh only moves it (`SyncKeeps`). `PollCounts`
shows that a worker which still has a job has a range of at least two songs, around which the cursor moves.
*`ScannedAsQueued` and `AppendedListsComplete`* are about a whole request, so `AnswerInv` follows it from `Ask` on:
`PartsInv`, the parts of a request cover its list and name lists that were published (`CutOK`, whose
first and last parts exist because the naturals are well-founded); `JobsInv`, every job, wherever it is, belongs to a part of its request and lies in that part's
stream (`Belongs`); `ScanInv`, a job that counts n has been given the n songs behind the cursor
(`Polled`, with `Back` for the way around the range), and nobody got a song outside its ranges
(`Wanted`). One order per hash, the premise of the one, and lists that only grow, which have hashes of their
own (`GrownLists`), the premise of the other, make that the songs asked for.

*`RequestResults`*: `FailureInv` says when a worker may fail to find a tag: it was not written yet, it could not be
read, it is another `job_uid`'s, or it expired (`Excused`). `AnswerInv` and `JobInv` say that a job that was counted n songs has listed them, and that lists only grow
until they expire (`ListsGrow`); the tags a client has read as `Success` then stand for complete lists
when it reads these, two calls later. `LeftInv`: a tag that is not final has an entry or a job of its range behind it
(`Left`), and a request being written its own entry, which no worker can have acknowledged without being early; that is
*`QuietMeansAnswered`*. *`FinishedIsFinal`* needs `SingleInv`, which speaks of histories without repetition or expiry: one job per
range (`OneEntry`), each song it polled listed once, and nobody left who could add to a range tagged `Success`.

*`SharedCells`*: `TaskInv` knows what a task has in hand: the version it fetched is not
older than the one it will replace, the pool is opened only while there is none, and the write lock
excludes readers; `CellInv` is this for all cells. `ReadyInv` says what `/readyz` knows of the cells it has looked at.
*`RunsDescend`*: a try takes three steps at most, and no task begins a try it does not have (`RetryInv`).

Only model-checked: the liveness properties (`EveryJobCleaned`, `AcceptedJobsSettle`, `CallsReturn`,
`AccountsComeBack`, `SplitEnds`, `KnownJobsArePulled`, `ListsCatchUp`, `LoopsCatchUp`, `TasksEnd`). They rest on
fairness and ENABLED, which are beyond the prover. Their safety halves are proved where there is a measure: nothing can go on for ever without a fault
in `SplitRanges` (`StepsDescend`), in a worker (`WorkShrinks`), in a friend call (`CallsDescend`), with a request
(`RangesAdvance`, and `TracelessIsSettled` for where it ends) or in a run of a task (`RunsDescend`). What TLC
adds is that there is always a next step which fairness makes happen. These
six are theorems only and stand in no run's `.cfg`; TLC was asked about them on the runs' instances before they were proved.

## 5. Not modelled

* *Clocks.* Delays, back-off, times to live and the idle time of XAUTOCLAIM are nondeterministic: a key or a stream expires, an
  entry becomes idle, a lease runs out at any moment the code does not rule out. What follows from the default values of
  the configuration is worked out in 3.1 only.
* *PostgreSQL and redis* are taken at their word: a statement, a command or a transaction is atomic, and what was
  acknowledged is not lost.
* *`input_check` and the count of accounts in `/v1/enqueue`*, `/v1/status`, routers and the wording of answers: they
  change no state and only decide what is asked for or shown.
* *cuscutactl* but for releasing and rating accounts: the others are one-shot SQL and redis commands, port-forwarding and printing.
* *cuscuta-chilo* (signing of requests), *eta and status log, dashboard, helm, the test helpers*: no control of their own, or output only.

## 6. Plan

1. `WorkerScan`, `JobTracking` with `JobStatus`: done. All safety, the refinement and the measures are proved.
2. `FriendModify` with `FriendList`: done, invariants, refinement and the measure of a call proved.
3. `AccountLease`: done with its operator, safety proved. Left: the steps between reading `ACCOUNT_ROW` and using it.
4. `SplitRanges` and `SongLists` (the reuse of an existing stream by segment, `endpoints/enqueue.rs:119`,
   and its song-list hash): done, all safety proved.
5. `RequestResults` (the two calls of a tag update, equal entries, repeated requests, expiry, the three reads
   of a query): done, all safety proved.
6. `SharedCells` with `Registers` (`QuickFetch`, its tasks and readers): done, safety, refinement and the length of a run proved.
7. Left: `WorkerLifecycle`, composing `AccountLease` with the loop's jobs: on a signal `main` returns after
   `halt_progress` without waiting for `resume_state`, and after a failed start the loop goes on with
   another account while its jobs' friends are in the old one's list.
