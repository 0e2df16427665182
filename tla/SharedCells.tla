---------------------------- MODULE SharedCells ----------------------------
(***************************************************************************)
(* The shared values of a process, each an Option behind a RwLock that is  *)
(* never waited for, and the periodic tasks that fill them: cuscuta-entry, *)
(* cuscuta-worker and cuscuta-chilo are built from these.  A task fetches  *)
(* a resource and writes it, or opens a pool if there is none; the loop of *)
(* the worker spins until it has read all it needs; a transaction keeps    *)
(* its read guard while it waits for the database; /readyz looks at the    *)
(* values one after the other.                                             *)
(*                                                                         *)
(* try_write takes the value out, calls back and puts a value in, so the   *)
(* cell is empty meanwhile.  Values are numbered as they are published or  *)
(* opened; 0 is None.  ACCOUNT_ROW, which a failed start empties, is AccountLease's. *)
(***************************************************************************)
EXTENDS Naturals, Sequences

CONSTANTS
  Args,        \* the cells get_args reads, in its order
  Pool,        \* POSTGRESQL_POOL
  Loop,        \* tasks that read the cells of Args: worker_loop, cuscuta_init
  Transaction, \* tasks that open transactions
  Free,        \* no cell
  Retries,     \* resource_update_retries
  MaxVersion   \* bound on what a source publishes

Synced == {Args[i] : i \in DOMAIN Args}
Cell == Synced \cup {Pool}
Reader == Loop \cup Transaction

ASSUME ConstantsAssumption ==
  /\ Args \in Seq(Synced) /\ Pool \notin Synced /\ Free \notin Cell
  /\ Loop \cap Transaction = {}
  /\ Retries \in Nat \ {0} /\ MaxVersion \in Nat \ {0}

VARIABLES
  published, \* by the source of a refreshed cell
  value,     \* of the Option
  task,      \* that fills the cell
  due,       \* whether its interval has ticked
  cancelled, \* halt_token
  holding,   \* the cell whose read guard a reader holds
  next,      \* the place of Args a loop has reached
  seen,      \* what a reader last read of a cell
  checked,   \* how many cells /readyz has found initialized so far
  ready      \* history: whether it has ever answered that the process is ready

tasks == <<task, due, cancelled>>
readers == <<holding, next, seen>>
probe == <<checked, ready>>
vars == <<published, value, tasks, readers, probe>>

Version == 0 .. MaxVersion
\* "put": try_write holds the lock and has taken the value out.
Task == [at : {"select", "fetch", "write", "put", "ended"},
         retry : Nat, got : Version, took : Version]
AtSelect == [at |-> "select", retry |-> 0, got |-> 0, took |-> 0]

Writing(c) == task[c].at = "put"
Reading(c) == \E r \in Reader : holding[r] = c

Init ==
  /\ published = [c \in Synced |-> 0] /\ value = [c \in Cell |-> 0]
  /\ task = [c \in Cell |-> AtSelect]
  /\ due = [c \in Cell |-> TRUE] \* the first tick is immediate
  /\ cancelled = FALSE
  /\ holding = [r \in Reader |-> Free] /\ next = [r \in Loop |-> 1]
  /\ seen = [r \in Reader |-> [c \in Cell |-> 0]]
  /\ checked = 0 /\ ready = FALSE

Publish(c) ==
  /\ published[c] < MaxVersion
  /\ published' = [published EXCEPT ![c] = @ + 1]
  /\ UNCHANGED <<value, tasks, readers, probe>>

----------------------------------------------------------------------------
(* register_job and its kin: a select! takes either branch that is ready *)

Elapse(c) ==
  /\ ~due[c] /\ task[c].at # "ended"
  /\ due' = [due EXCEPT ![c] = TRUE]
  /\ UNCHANGED <<published, value, task, cancelled, readers, probe>>

Goto(c, t) == task' = [task EXCEPT ![c] = t]

\* OnceLock<RwLock<Option<T>>>::is_initialized; not while it is written.
\* Mutant: a lock in use is taken for a value.
IsInitializedLocked(c) == Writing(c) \/ value[c] # 0
IsInitialized(c) == ~Writing(c) /\ value[c] # 0

\* A pool is opened only once.
RunTick(c) ==
  /\ task[c].at = "select" /\ due[c]
  /\ due' = [due EXCEPT ![c] = FALSE]
  /\ IF c = Pool /\ IsInitialized(c) THEN UNCHANGED task
     ELSE Goto(c, [AtSelect EXCEPT !.at = "fetch"])
  /\ UNCHANGED <<published, value, cancelled, readers, probe>>

\* Mutant: a select! that prefers the tick.
StopBiased(c) ==
  /\ cancelled /\ task[c].at = "select" /\ ~due[c]
  /\ Goto(c, [AtSelect EXCEPT !.at = "ended"])
  /\ UNCHANGED <<published, value, due, cancelled, readers, probe>>
Stop(c) ==
  /\ cancelled /\ task[c].at = "select"
  /\ Goto(c, [AtSelect EXCEPT !.at = "ended"])
  /\ UNCHANGED <<published, value, due, cancelled, readers, probe>>

Cancel ==
  /\ ~cancelled /\ cancelled' = TRUE
  /\ UNCHANGED <<published, value, task, due, readers, probe>>

----------------------------------------------------------------------------
(* The task: sync_..., open_postgresql_client *)

Tries(c) == IF c = Pool THEN 1 ELSE Retries

\* The next try fetches anew; after the last one the task waits for its tick.
TryAgain(c) ==
  /\ LET n == task[c].retry + 1
     IN  Goto(c, IF n < Tries(c) THEN [AtSelect EXCEPT !.at = "fetch", !.retry = n]
                 ELSE AtSelect)
  /\ UNCHANGED <<published, value, due, cancelled, readers, probe>>

\* A new pool is unlike the one that may be there.
Offer(c) == IF c = Pool THEN value[c] + 1 ELSE published[c]

Fetch(c) ==
  /\ task[c].at = "fetch" /\ Offer(c) > 0
  /\ Goto(c, [task[c] EXCEPT !.at = "write", !.got = Offer(c)])
  /\ UNCHANGED <<published, value, due, cancelled, readers, probe>>

\* No reply, or one that cannot be used.
FetchFails(c) == task[c].at = "fetch" /\ TryAgain(c)

\* A read guard is out; that of a /readyz is too short to be a state.
WriteFails(c) == task[c].at = "write" /\ TryAgain(c)

\* try_write
Take(c) ==
  /\ task[c].at = "write" /\ ~Reading(c)
  /\ value' = [value EXCEPT ![c] = 0]
  /\ Goto(c, [task[c] EXCEPT !.at = "put", !.took = value[c]])
  /\ UNCHANGED <<published, due, cancelled, readers, probe>>

\* Mutant: a value that is there is kept.
PutFirst(c) ==
  /\ task[c].at = "put"
  /\ value' = [value EXCEPT ![c] = IF task[c].took = 0 THEN task[c].got ELSE task[c].took]
  /\ Goto(c, AtSelect)
  /\ UNCHANGED <<published, due, cancelled, readers, probe>>
\* The same version once more is no change, and so it is for SONG_LIST's task, which
\* keeps what is there if the fetched list has the hash of the first one: a version
\* here is a list up to its hash.
Put(c) ==
  /\ task[c].at = "put"
  /\ value' = [value EXCEPT ![c] = task[c].got]
  /\ Goto(c, AtSelect)
  /\ UNCHANGED <<published, due, cancelled, readers, probe>>

----------------------------------------------------------------------------
(* get_args, and the start of a worker *)

Wants(r) == Args[next[r]]

\* Mutant: a reader that does not look at the lock.
GrabAnyway(r) ==
  /\ next[r] \in DOMAIN Args /\ holding[r] = Free
  /\ next[r] = 1 => ~cancelled
  /\ holding' = [holding EXCEPT ![r] = Wants(r)]
  /\ UNCHANGED <<published, value, tasks, next, seen, probe>>
\* read_spinning
Grab(r) ==
  /\ next[r] \in DOMAIN Args /\ holding[r] = Free /\ ~Writing(Wants(r))
  /\ next[r] = 1 => ~cancelled
  /\ holding' = [holding EXCEPT ![r] = Wants(r)]
  /\ UNCHANGED <<published, value, tasks, next, seen, probe>>

Look(r) ==
  /\ seen' = [seen EXCEPT ![r][holding[r]] = value[holding[r]]]
  /\ holding' = [holding EXCEPT ![r] = Free]
  /\ UNCHANGED <<published, value, tasks, probe>>

\* Without one of them it begins again a second later.
ReadArg(r) ==
  /\ holding[r] # Free
  /\ next' = [next EXCEPT ![r] = IF value[holding[r]] = 0 THEN 1 ELSE @ + 1]
  /\ Look(r)

\* The rest of the iteration.
Iterate(r) ==
  /\ next[r] \notin DOMAIN Args
  /\ next' = [next EXCEPT ![r] = 1]
  /\ UNCHANGED <<published, value, tasks, holding, seen, probe>>

----------------------------------------------------------------------------
(* try_open_transaction: try_read, and the guard is kept while begin() is *)
(* awaited                                                                *)

Open(t) ==
  /\ holding[t] = Free /\ ~Writing(Pool)
  /\ holding' = [holding EXCEPT ![t] = Pool]
  /\ UNCHANGED <<published, value, tasks, next, seen, probe>>

Begun(t) == holding[t] # Free /\ Look(t) /\ UNCHANGED next

----------------------------------------------------------------------------
(* /readyz: batch_check_initialized, until it has once answered "ready" *)

Asked == Append(Args, Pool)[checked + 1]

CheckReady ==
  /\ ~ready /\ IsInitialized(Asked)
  /\ IF Asked = Pool THEN checked' = 0 /\ ready' = TRUE
                     ELSE checked' = checked + 1 /\ UNCHANGED ready
  /\ UNCHANGED <<published, value, tasks, readers>>

AnswerNotReady ==
  /\ ~ready /\ checked > 0 /\ ~IsInitialized(Asked)
  /\ checked' = 0
  /\ UNCHANGED <<published, value, tasks, readers, ready>>

----------------------------------------------------------------------------

TaskStep(c) ==
  \/ RunTick(c) \/ Stop(c)
  \/ Fetch(c) \/ FetchFails(c) \/ WriteFails(c) \/ Take(c) \/ Put(c)

LoopStep(r) == Grab(r) \/ ReadArg(r) \/ Iterate(r)

Next ==
  \/ \E c \in Synced : Publish(c)
  \/ \E c \in Cell : Elapse(c) \/ TaskStep(c)
  \/ \E r \in Loop : LoopStep(r)
  \/ \E t \in Transaction : Open(t) \/ Begun(t)
  \/ Cancel \/ CheckReady \/ AnswerNotReady

\* A try_write that is made for ever is made between two reads now and then: a
\* read guard is out for moments, tries are seconds apart.
MeetsNoReader(c) == []<><<WriteFails(c)>>_vars => []<><<Take(c)>>_vars

\* Intervals tick and tasks run. Strong: a fetch that is tried for ever succeeds,
\* a spinning reader finds the lock free, and select! chooses at random.
Fairness ==
  /\ \A c \in Cell :
       /\ WF_vars(Elapse(c)) /\ WF_vars(TaskStep(c))
       /\ SF_vars(Fetch(c)) /\ MeetsNoReader(c) /\ SF_vars(Stop(c))
  /\ \A r \in Loop : SF_vars(Grab(r)) /\ WF_vars(ReadArg(r) \/ Iterate(r))

Spec == Init /\ [][Next]_vars /\ Fairness

----------------------------------------------------------------------------
(* Properties *)

TypeOK ==
  /\ published \in [Synced -> Version] /\ value \in [Cell -> Version]
  /\ task \in [Cell -> Task] /\ due \in [Cell -> BOOLEAN] /\ cancelled \in BOOLEAN
  /\ holding \in [Reader -> Cell \cup {Free}] /\ next \in [Loop -> 1 .. Len(Args) + 1]
  /\ seen \in [Reader -> [Cell -> Version]]
  /\ checked \in 0 .. Len(Args) /\ ready \in BOOLEAN

\* What is stored while the value is out: what was taken.
Stored(c) == IF Writing(c) THEN task[c].took ELSE value[c]

Register ==
  INSTANCE Registers WITH Once <- {Pool}, stored <- [c \in Cell |-> Stored(c)]

\* Although a write empties the cell for a moment, readers never notice: a value
\* that was once stored is never missed and never older than one read before, and
\* a pool is not replaced, although it is opened after an await.
IsRegister == Register!Spec

\* A process that answered once that it is ready stays so: no value of it is ever
\* found missing again, although /readyz looks at one after the other.
ReadyMeansReadable == ready => \A c \in Cell : Stored(c) # 0

\* A run of a task, from its tick to the next select!: what is left of it at most.
Ahead(c) ==
  CASE task[c].at = "fetch" -> 3 * (Tries(c) - task[c].retry)
    [] task[c].at = "write" -> 3 * (Tries(c) - task[c].retry) - 1
    [] task[c].at = "put"   -> 3 * (Tries(c) - task[c].retry) - 2
    [] OTHER                -> 0

\* Whatever a task meets with, each step of a run brings it nearer to its select!,
\* where it can be cancelled: failing fetches and locked cells hold up no process
\* that stops for longer than resource_update_retries tries.
RunsDescend ==
  [][\A c \in Cell :
       task[c].at # "select" /\ task'[c] # task[c] =>
         Ahead(c) \in Nat /\ Ahead(c)' \in Nat /\ Ahead(c)' < Ahead(c)]_vars

\* Once every source serves something, whatever one publishes reaches every loop
\* that is not stopped, past failing fetches, locked cells and missed ticks.
LoopsCatchUp ==
  \A r \in Loop : \A c \in Synced : \A v \in 1 .. MaxVersion :
    (published[c] >= v /\ \A d \in Synced : published[d] > 0)
      ~> (cancelled \/ seen[r][c] >= v)

\* The tasks of a cancelled process end, although ticks go on and a tick may be
\* chosen over the cancellation.
TasksEnd == cancelled ~> \A c \in Cell : task[c].at = "ended"
=============================================================================
