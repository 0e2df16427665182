---------------------------- MODULE AccountLease ----------------------------
(***************************************************************************)
(* How workers share the accounts of account_table: a worker locks one,    *)
(* publishes it in ACCOUNT_ROW, where its loop and its refresh task find   *)
(* it, logs in and clears the friend list, keeps the lease alive, and      *)
(* gives the account back when it stops or when its start fails.           *)
(*                                                                         *)
(* Time passes in ticks no shorter than the refresh gap.  Only the parts   *)
(* of a worker that touch the account are here: its loop just uses the     *)
(* account it read at the start of an iteration until the iteration ends.  *)
(***************************************************************************)
EXTENDS Integers

CONSTANTS
  Worker,
  Account,
  None,
  LeaseTime,  \* worker_account_lease_time_secs, in ticks
  MaxRate,    \* rate of a new account
  MaxFaults,  \* bound on failures, on runs of cuscuta_init that are too slow, and on
              \* releases by an operator
  Ctl         \* whether an operator runs `cuscutactl accounts release`

\* A lease outlasts two refreshes: 60 and 5 seconds by default.
ASSUME ConstantsAssumption ==
  /\ None \notin Account
  /\ LeaseTime \in Nat /\ LeaseTime >= 2
  /\ MaxRate \in Nat /\ MaxFaults \in Nat
  /\ Ctl \in BOOLEAN

VARIABLES
  \* account_table
  state,      \* "Idle" or "Using"
  lease,      \* ticks until lease_time; 0 when it has passed
  rate,
  loggedIn,   \* accounts with user_id and temp_token
  \* per worker process
  init,       \* where cuscuta_init stands
  inited,     \* init_token: a start of this process succeeded
  row,        \* ACCOUNT_ROW
  ready,      \* whether that row carries user_id and temp_token
  using,      \* account of the loop's current iteration
  cancelled,  \* halt_token
  released,   \* halt_progress is over
  checked,    \* what an operator's release has seen to be expired
  \* history: fresh is read by Tick, the others by properties only
  fresh,      \* workers whose lease was extended since the last tick
  lost,       \* <<w, a>>: w had a when a was released or its lease ran out
  foul,       \* a worker missed a refresh, or somebody released an account he
              \* did not have
  faults

table == <<state, lease, rate, loggedIn>>
process == <<init, inited, row, ready, using, cancelled, released>>
history == <<fresh, lost, foul>>
vars == <<table, process, checked, history, faults>>

Has(w, a) == row[w] = a \/ using[w] = a
Holders(S) == {p \in Worker \X S : Has(p[1], p[2])}
Alive(w) == init[w] # "down"
Fault == faults < MaxFaults /\ faults' = faults + 1

Init ==
  /\ state = [a \in Account |-> "Idle"]
  /\ lease = [a \in Account |-> 0]
  /\ rate = [a \in Account |-> MaxRate]
  /\ loggedIn = {}
  /\ init = [w \in Worker |-> "down"] /\ inited = [w \in Worker |-> FALSE]
  /\ row = [w \in Worker |-> None] /\ ready = [w \in Worker |-> FALSE]
  /\ using = [w \in Worker |-> None]
  /\ cancelled = [w \in Worker |-> FALSE] /\ released = [w \in Worker |-> FALSE]
  /\ checked = None
  /\ fresh = {} /\ lost = {} /\ foul = FALSE
  /\ faults = 0

----------------------------------------------------------------------------
(* try_lock_account, try_release_account *)

\* Mutants: a lease that ran out does not free the account; one that was not
\* refreshed at once does.
LockableIdle(a) == rate[a] > 0 /\ state[a] = "Idle"
LockableUsed(a) == rate[a] > 0 /\ (state[a] = "Idle" \/ lease[a] < LeaseTime)
Lockable(a) == rate[a] > 0 /\ (state[a] = "Idle" \/ lease[a] = 0)

\* Rows that other transactions hold are skipped, so it is not always the
\* account with the lowest id.
Lock(a) ==
  /\ Lockable(a)
  /\ state' = [state EXCEPT ![a] = "Using"]
  /\ lease' = [lease EXCEPT ![a] = LeaseTime]
  /\ UNCHANGED <<rate, loggedIn>>

\* Whoever has the account now.
Release(w, a) ==
  /\ state' = [state EXCEPT ![a] = "Idle"]
  /\ lost' = lost \cup Holders({a})
  /\ foul' = (foul \/ <<w, a>> \in lost)
  /\ UNCHANGED <<lease, rate, loggedIn, fresh>>

----------------------------------------------------------------------------
(* cuscuta_init.  It is run from a select! that takes any branch that is   *)
(* ready: when a run has lasted longer than the interval of 10 seconds, it *)
(* may be run again though its token, or that of the service, was          *)
(* cancelled.                                                              *)

Goto(w, from, to) == init[w] \in from /\ init' = [init EXCEPT ![w] = to]

\* Level::Halt
Halt(w) == cancelled' = [cancelled EXCEPT ![w] = TRUE]

Start(w) ==
  /\ Goto(w, {"down"}, "lock")
  /\ UNCHANGED <<table, inited, row, ready, using, cancelled, released, checked, history, faults>>

\* The run came to an end and its tokens are cancelled, but the next tick is
\* ready as well.  The process may have an account already: it gets a second one,
\* and its row is replaced; or it is halted because there is none.
InitAgain(w) ==
  /\ Goto(w, {"done", "over"}, "lock")
  /\ Fault
  /\ UNCHANGED <<table, inited, row, ready, using, cancelled, released, checked, history>>

\* The loop may find the account from now on.
TryLock(w, a) ==
  /\ Goto(w, {"lock"}, "login")
  /\ Lock(a)
  /\ row' = [row EXCEPT ![w] = a]
  /\ ready' = [ready EXCEPT ![w] = a \in loggedIn]
  /\ fresh' = fresh \cup {w} /\ lost' = lost \ {<<w, a>>}
  /\ UNCHANGED <<inited, using, cancelled, released, checked, foul, faults>>

\* ACCOUNT_ROW was being read: nobody remembers the account any more.  What the
\* row still has from an earlier run is undone.
PublishFails(w, a) ==
  /\ IF row[w] = None THEN init[w] = "lock" /\ UNCHANGED init ELSE Goto(w, {"lock"}, "undo")
  /\ Lock(a)
  /\ Fault
  /\ UNCHANGED <<inited, row, ready, using, cancelled, released, checked, history>>

\* None is free, or the free ones are skipped: a worker is refreshing their lease
\* or releasing them, or another one is locking them.
NoAccount(w) ==
  /\ \A a \in Account : Lockable(a) =>
       \E v \in Worker : row[v] = a \/ (v # w /\ init[v] = "lock")
  /\ Goto(w, {"lock"}, "over")
  /\ Halt(w)
  /\ UNCHANGED <<table, inited, row, ready, using, released, checked, history, faults>>

\* check_and_update_token: an account that has its login keeps it, at first.
Login(w) ==
  /\ Goto(w, {"login", "relogin"}, "clean")
  /\ loggedIn' = loggedIn \cup {row[w]}
  /\ UNCHANGED <<state, lease, rate, inited, row, ready, using, cancelled, released,
                 checked, history, faults>>

\* The service refuses the account, its password or its token: a second try logs
\* in again, and there is no third.
Refuse(w) ==
  /\ \/ Goto(w, {"login"}, "relogin") /\ UNCHANGED cancelled
     \/ Goto(w, {"relogin"}, "over") /\ Halt(w)
  /\ rate' = [rate EXCEPT ![row[w]] = @ - 1]
  /\ loggedIn' \in {loggedIn, loggedIn \cup {row[w]}}
  /\ UNCHANGED <<state, lease, inited, row, ready, using, released, checked, history, faults>>

\* The friends were removed; the row is published again, now with its login.
CleanFriends(w) ==
  /\ Goto(w, {"clean"}, "done")
  /\ inited' = [inited EXCEPT ![w] = TRUE]
  /\ ready' = [ready EXCEPT ![w] = TRUE]
  /\ UNCHANGED <<table, row, using, cancelled, released, checked, history, faults>>

\* Level::Retry.  Before an account is locked there is something to undo only in a
\* later run: the account of the run before.
InitFails(w) ==
  /\ row[w] # None
  /\ Goto(w, {"lock", "login", "relogin", "clean"}, "undo")
  /\ Fault
  /\ UNCHANGED <<table, inited, row, ready, using, cancelled, released, checked, history>>

\* A bad hash, a friend that cannot be removed, too many failures to undo.
InitHalts(w) ==
  /\ Goto(w, {"login", "relogin", "clean", "undo", "undone"}, "over")
  /\ Halt(w)
  /\ Fault
  /\ UNCHANGED <<table, inited, row, ready, using, released, checked, history>>

\* try_failed_resume.  In a later run the loop may be using the account.
Undo(w) ==
  /\ Goto(w, {"undo"}, "undone")
  /\ Release(w, row[w])
  /\ UNCHANGED <<inited, row, ready, using, cancelled, released, checked, faults>>

\* The next run, or none if a token is cancelled.
Ended(w) ==
  \/ Goto(w, {"undone"}, "lock")
  \/ (inited[w] \/ cancelled[w]) /\ Goto(w, {"undone"}, "over")

\* Mutant: a write of None is no write, as quick_fetch.rs:42 has it.
ClearKeeps(w) ==
  /\ Ended(w)
  /\ UNCHANGED <<table, inited, row, ready, using, cancelled, released, checked, history, faults>>
Clear(w) ==
  /\ Ended(w)
  /\ row' = [row EXCEPT ![w] = None] /\ ready' = [ready EXCEPT ![w] = FALSE]
  /\ fresh' = fresh \ {w}
  /\ UNCHANGED <<table, inited, using, cancelled, released, checked, lost, foul, faults>>

\* ACCOUNT_ROW was being read: the account is released once more.
ClearFails(w) ==
  /\ Goto(w, {"undone"}, "undo")
  /\ UNCHANGED <<table, inited, row, ready, using, cancelled, released, checked, history, faults>>

----------------------------------------------------------------------------
(* worker_loop and update_lease_time *)

BeginIteration(w) ==
  /\ ~cancelled[w] /\ using[w] = None
  /\ row[w] # None /\ ready[w]
  /\ using' = [using EXCEPT ![w] = row[w]]
  /\ UNCHANGED <<table, init, inited, row, ready, cancelled, released, checked, history, faults>>

EndIteration(w) ==
  /\ using[w] # None
  /\ using' = [using EXCEPT ![w] = None]
  /\ UNCHANGED <<table, init, inited, row, ready, cancelled, released, checked, history, faults>>

\* The loop returned with an api error, and resume_state is done.
LoopReturns(w) ==
  /\ using[w] # None
  /\ using' = [using EXCEPT ![w] = None]
  /\ Halt(w)
  /\ Fault
  /\ UNCHANGED <<table, init, inited, row, ready, released, checked, history>>

\* Whoever has the account in the table by now.
Refresh(w) ==
  /\ row[w] # None
  /\ lease' = [lease EXCEPT ![row[w]] = LeaseTime]
  /\ fresh' = fresh \cup {w}
  /\ UNCHANGED <<state, rate, loggedIn, process, checked, lost, foul, faults>>

----------------------------------------------------------------------------
(* main: shutdown_signal and halt_progress *)

Terminate(w) ==
  /\ Alive(w) /\ ~cancelled[w]
  /\ Halt(w)
  /\ UNCHANGED <<table, init, inited, row, ready, using, released, checked, history, faults>>

\* The loop may be in the middle of an iteration.
HaltRelease(w) ==
  /\ cancelled[w] /\ ~released[w]
  /\ released' = [released EXCEPT ![w] = TRUE]
  /\ IF row[w] = None THEN UNCHANGED <<table, history>> ELSE Release(w, row[w])
  /\ UNCHANGED <<init, inited, row, ready, using, cancelled, checked, faults>>

HaltReleaseFails(w) ==
  /\ cancelled[w] /\ ~released[w]
  /\ released' = [released EXCEPT ![w] = TRUE]
  /\ Fault
  /\ UNCHANGED <<table, init, inited, row, ready, using, cancelled, checked, history>>

\* main returns and takes every task with it; the pod is started again.
Exit(w) ==
  /\ init' = [init EXCEPT ![w] = "down"] /\ inited' = [inited EXCEPT ![w] = FALSE]
  /\ row' = [row EXCEPT ![w] = None] /\ ready' = [ready EXCEPT ![w] = FALSE]
  /\ using' = [using EXCEPT ![w] = None]
  /\ cancelled' = [cancelled EXCEPT ![w] = FALSE]
  /\ released' = [released EXCEPT ![w] = FALSE]
  /\ fresh' = fresh \ {w} /\ lost' = lost \ ({w} \X Account)
  /\ UNCHANGED <<table, checked, foul>>

Return(w) == released[w] /\ Exit(w) /\ UNCHANGED faults
Crash(w) == Alive(w) /\ Exit(w) /\ Fault

----------------------------------------------------------------------------
(* Time *)

Pass ==
  /\ lease' = [a \in Account |-> IF lease[a] > 0 THEN lease[a] - 1 ELSE 0]
  /\ lost' = lost \cup Holders({a \in Account : lease'[a] = 0})
  /\ fresh' = {}
  /\ UNCHANGED <<state, rate, loggedIn, process, checked>>

\* Refreshes get through; the task of a cancelled worker has stopped.
Missing == {w \in Worker : row[w] # None /\ ~cancelled[w]} \ fresh

Tick ==
  /\ Missing = {}
  /\ \E a \in Account : lease[a] > 0
  /\ Pass
  /\ UNCHANGED <<foul, faults>>

\* A stalled worker, or a database it cannot reach.
TickLate ==
  /\ Missing # {}
  /\ Pass
  /\ foul' = TRUE
  /\ Fault

----------------------------------------------------------------------------
(* cuscutactl accounts: release, in two statements, and rate *)

CtlCheck(a) ==
  /\ Ctl /\ checked = None
  /\ state[a] = "Using" /\ lease[a] = 0
  /\ checked' = a
  /\ Fault
  /\ UNCHANGED <<table, process, history>>

Seize(a) ==
  /\ state' = [state EXCEPT ![a] = "Idle"]
  /\ lost' = lost \cup Holders({a})
  /\ foul' = (foul \/ ~ Holders({a}) \subseteq lost)
  /\ UNCHANGED <<lease, rate, loggedIn, process, fresh>>

CtlRelease(a) ==
  /\ checked = a
  /\ checked' = None
  /\ Seize(a)
  /\ UNCHANGED faults

\* With --force.
CtlForce(a) ==
  /\ Ctl /\ state[a] = "Using"
  /\ Seize(a)
  /\ Fault
  /\ UNCHANGED checked

\* cuscutactl accounts rate: an account that was refused too often is given
\* another chance.
CtlRate(a) ==
  /\ Ctl /\ rate[a] <= 0
  /\ rate' = [rate EXCEPT ![a] = MaxRate]
  /\ UNCHANGED <<state, lease, loggedIn, process, checked, history, faults>>

----------------------------------------------------------------------------

WorkerStep(w) ==
  \/ Start(w) \/ (\E a \in Account : TryLock(w, a)) \/ NoAccount(w)
  \/ Login(w) \/ Refuse(w) \/ CleanFriends(w) \/ Undo(w) \/ Clear(w)
  \/ BeginIteration(w) \/ EndIteration(w) \/ Refresh(w)
  \/ Terminate(w) \/ HaltRelease(w) \/ Return(w)

FaultStep(w) ==
  \/ (\E a \in Account : PublishFails(w, a))
  \/ InitAgain(w) \/ InitFails(w) \/ InitHalts(w) \/ ClearFails(w)
  \/ LoopReturns(w) \/ HaltReleaseFails(w) \/ Crash(w)

Next ==
  \/ \E w \in Worker : WorkerStep(w) \/ FaultStep(w)
  \/ Tick \/ TickLate
  \/ \E a \in Account : CtlCheck(a) \/ CtlRelease(a) \/ CtlForce(a) \/ CtlRate(a)

KeepAlive(w) == ~cancelled[w] /\ Refresh(w)

\* Time passes, and the refresh task of a worker runs until it is cancelled.
Spec == Init /\ [][Next]_vars /\ WF_vars(Tick) /\ \A w \in Worker : WF_vars(KeepAlive(w))

----------------------------------------------------------------------------
(* Properties *)

TypeOK ==
  /\ state \in [Account -> {"Idle", "Using"}]
  /\ lease \in [Account -> 0 .. LeaseTime]
  /\ rate \in [Account -> Int] /\ loggedIn \in SUBSET Account
  /\ init \in [Worker -> {"down", "lock", "login", "relogin", "clean", "done",
                          "undo", "undone", "over"}]
  /\ inited \in [Worker -> BOOLEAN]
  /\ row \in [Worker -> Account \cup {None}]
  /\ ready \in [Worker -> BOOLEAN]
  /\ using \in [Worker -> Account \cup {None}]
  /\ cancelled \in [Worker -> BOOLEAN] /\ released \in [Worker -> BOOLEAN]
  /\ checked \in Account \cup {None}
  /\ fresh \in SUBSET Worker /\ lost \in SUBSET (Worker \X Account)
  /\ foul \in BOOLEAN
  /\ faults \in 0 .. MaxFaults

\* The loop adds and removes friends, and so does the start of a worker.
Uses(w, a) == using[w] = a \/ (row[w] = a /\ init[w] \in {"login", "relogin", "clean"})

\* Two workers use an account at once only if one of them was deprived of it: it
\* was released, or its lease ran out, while that worker had it.
SoleUser ==
  \A a \in Account : \A w, v \in Worker :
    w # v /\ Uses(w, a) /\ Uses(v, a) => {<<w, a>>, <<v, a>>} \cap lost # {}

\* The worker will not begin to use the account again.
Leaving(w, a) == cancelled[w] \/ init[w] \in {"undo", "undone"} \/ row[w] # a

\* As long as refreshes get through, and nobody releases what he does not have,
\* that happens only when one of them is halting, its start has failed, or cuscuta_init
\* was run again and it ends its last iteration with the account it had before.
SharedOnlyWhenLeaving ==
  ~foul =>
    \A a \in Account : \A w, v \in Worker :
      w # v /\ Uses(w, a) /\ Uses(v, a) => Leaving(w, a) \/ Leaving(v, a)

\* An account nobody has comes back, whatever became of the worker that had it.
AccountsComeBack ==
  \A a \in Account :
    (\A w \in Worker : row[w] # a) ~>
      (Lockable(a) \/ rate[a] <= 0 \/ \E w \in Worker : row[w] = a)

\* As the comment of cuscutactl's release has it.
RefusesActiveLease == [][\A a \in Account : CtlRelease(a) => lease[a] = 0]_vars
=============================================================================
