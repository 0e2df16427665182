------------------------- MODULE AccountLeaseProofs -------------------------
(***************************************************************************)
(* Safety of AccountLease, for any workers, accounts and lease.            *)
(*                                                                         *)
(* OwnInv says what a worker that was not deprived of its account may rely *)
(* on: the table shows the account in use, and everybody else who thinks   *)
(* he has it was deprived of it.  With the rows and leases that FreshInv   *)
(* ties together, DeprivedInv follows: while nothing foul happens only a   *)
(* worker that is leaving is ever deprived of its account.                 *)
(***************************************************************************)
EXTENDS AccountLease, TLAPS

\* A worker whose start goes on has a row.
RowInv ==
  \A w \in Worker :
    init[w] \in {"login", "relogin", "clean", "undo", "undone"} => row[w] \in Account

OwnInv ==
  \A a \in Account : \A w \in Worker :
    Has(w, a) /\ <<w, a>> \notin lost =>
      /\ state[a] = "Using" /\ lease[a] > 0
      /\ \A v \in Worker : v # w /\ Has(v, a) => <<v, a>> \in lost

FreshInv ==
  \A w \in fresh : row[w] \in Account /\ lease[row[w]] = LeaseTime

DeprivedInv ==
  ~foul => \A a \in Account : \A w \in Worker :
             Has(w, a) /\ <<w, a>> \in lost => Leaving(w, a)

Inv == TypeOK /\ RowInv /\ OwnInv /\ FreshInv /\ DeprivedInv

----------------------------------------------------------------------------
(* Types *)

\* A step, by the action taken.
LEMMA StepCases ==
  ASSUME [Next]_vars
  PROVE  \/ \E w \in Worker :
              \/ Start(w) \/ NoAccount(w) \/ Login(w) \/ Refuse(w) \/ CleanFriends(w)
              \/ Undo(w) \/ Clear(w) \/ BeginIteration(w) \/ EndIteration(w)
              \/ Refresh(w) \/ Terminate(w) \/ HaltRelease(w) \/ Return(w)
              \/ InitAgain(w) \/ InitFails(w) \/ InitHalts(w) \/ ClearFails(w) \/ LoopReturns(w)
              \/ HaltReleaseFails(w) \/ Crash(w)
         \/ \E w \in Worker, a \in Account : TryLock(w, a) \/ PublishFails(w, a)
         \/ Tick \/ TickLate
         \/ \E a \in Account : CtlCheck(a) \/ CtlRelease(a) \/ CtlForce(a) \/ CtlRate(a)
         \/ UNCHANGED vars
  BY Zenon DEF Next, WorkerStep, FaultStep

\* A failure is counted.
LEMMA FaultCounted ==
  ASSUME TypeOK, Fault
  PROVE  faults' \in 0 .. MaxFaults
  BY ConstantsAssumption DEF TypeOK, Fault
\* What locking does to the table.
LEMMA LockTable ==
  ASSUME TypeOK, NEW a \in Account, Lock(a)
  PROVE  /\ state' = [state EXCEPT ![a] = "Using"] /\ state' \in [Account -> {"Idle", "Using"}]
         /\ lease' = [lease EXCEPT ![a] = LeaseTime] /\ lease' \in [Account -> 0 .. LeaseTime]
         /\ rate' = rate /\ loggedIn' = loggedIn
         /\ lease[a] = 0 \/ state[a] = "Idle"
  BY ConstantsAssumption DEF TypeOK, Lock, Lockable

LEMMA TypeInit == Init => TypeOK /\ RowInv
<1> SUFFICES ASSUME Init PROVE TypeOK /\ RowInv
  OBVIOUS
<1> USE DEF Init
<1>1. /\ state \in [Account -> {"Idle", "Using"}] /\ lease \in [Account -> 0 .. LeaseTime]
      /\ rate \in [Account -> Int] /\ loggedIn \in SUBSET Account
  BY ConstantsAssumption
<1>2. /\ row \in [Worker -> Account \cup {None}] /\ using \in [Worker -> Account \cup {None}]
      /\ inited \in [Worker -> BOOLEAN] /\ ready \in [Worker -> BOOLEAN] /\ cancelled \in [Worker -> BOOLEAN]
      /\ released \in [Worker -> BOOLEAN]
  OBVIOUS
<1>3. init \in [Worker -> {"down", "lock", "login", "relogin", "clean", "done",
                          "undo", "undone", "over"}]
  OBVIOUS
<1>4. RowInv
  BY DEF RowInv
<1>5. checked \in Account \cup {None} /\ fresh \in SUBSET Worker
      /\ lost \in SUBSET (Worker \X Account) /\ faults \in 0 .. MaxFaults
  BY ConstantsAssumption
<1>6. foul \in BOOLEAN
  BY Zenon
<1>7. QED
  BY <1>1, <1>2, <1>3, <1>4, <1>5, <1>6 DEF TypeOK

LEMMA ReleaseType ==
  ASSUME TypeOK, NEW w \in Worker, NEW a \in Account, Release(w, a)
  PROVE  /\ state' \in [Account -> {"Idle", "Using"}]
         /\ lost' \in SUBSET (Worker \X Account) /\ foul' \in BOOLEAN
         /\ UNCHANGED <<lease, rate, loggedIn, fresh>>
<1>1. foul' \in BOOLEAN
  BY Zenon DEF Release, TypeOK
<1>2. QED
  BY <1>1 DEF Release, TypeOK, Holders

LEMMA SeizeType ==
  ASSUME TypeOK, NEW a \in Account, Seize(a)
  PROVE  /\ state' \in [Account -> {"Idle", "Using"}]
         /\ lost' \in SUBSET (Worker \X Account) /\ foul' \in BOOLEAN
         /\ UNCHANGED <<lease, rate, loggedIn, process, fresh>>
<1>1. foul' \in BOOLEAN
  BY Zenon DEF Seize, TypeOK
<1>2. QED
  BY <1>1 DEF Seize, TypeOK, Holders

LEMMA PassType ==
  ASSUME TypeOK, Pass
  PROVE  /\ lease' \in [Account -> 0 .. LeaseTime]
         /\ lost' \in SUBSET (Worker \X Account) /\ fresh' = {}
         /\ UNCHANGED <<state, rate, loggedIn, process, checked>>
<1>2. \A a \in Account : (IF lease[a] > 0 THEN lease[a] - 1 ELSE 0) \in 0 .. LeaseTime
  BY ConstantsAssumption DEF TypeOK
<1>3. lease' \in [Account -> 0 .. LeaseTime]
  BY <1>2 DEF Pass
<1>4. lost' \in SUBSET (Worker \X Account)
  BY DEF Pass, TypeOK, Holders
<1>5. QED
  BY <1>3, <1>4 DEF Pass

LEMMA TypeNext == TypeOK /\ RowInv /\ [Next]_vars => TypeOK' /\ RowInv'
<1> SUFFICES ASSUME TypeOK, RowInv, [Next]_vars PROVE TypeOK' /\ RowInv'
  OBVIOUS
<1> USE ConstantsAssumption DEF TypeOK, RowInv, table, process, history
<1>1. ASSUME NEW w \in Worker, NEW a \in Account, TryLock(w, a) PROVE TypeOK' /\ RowInv'
  <2>1. Lock(a)
    BY <1>1 DEF TryLock
  <2>2. QED
    BY <1>1, <2>1, LockTable DEF TryLock, Goto
<1>2. ASSUME NEW w \in Worker, NEW a \in Account, PublishFails(w, a) PROVE TypeOK' /\ RowInv'
  <2>1. Lock(a) /\ faults' \in 0 .. MaxFaults
    BY <1>2, FaultCounted DEF PublishFails
  <2>2. /\ init' = init \/ (row[w] \in Account /\ init' = [init EXCEPT ![w] = "undo"])
        /\ UNCHANGED <<inited, row, ready, using, cancelled, released, checked, history>>
    BY <1>2 DEF PublishFails, Goto
  <2>3. init' \in [Worker -> {"down", "lock", "login", "relogin", "clean", "done",
                               "undo", "undone", "over"}] /\ RowInv'
    BY <2>2
  <2>4. TypeOK'
    BY <2>1, <2>2, <2>3, LockTable
  <2>5. QED
    BY <2>3, <2>4
<1>3. ASSUME NEW w \in Worker,
             \/ Start(w) \/ NoAccount(w) \/ CleanFriends(w) \/ Clear(w) \/ ClearFails(w)
             \/ Terminate(w)
      PROVE  TypeOK' /\ RowInv'
  <2>1. CASE Clear(w)
    <3>1. init' \in {[init EXCEPT ![w] = "lock"], [init EXCEPT ![w] = "over"]}
      BY <2>1, Zenon DEF Clear, Ended, Goto
    <3>2. QED
      BY <2>1, <3>1 DEF Clear
  <2>2. CASE CleanFriends(w)
    BY <2>2 DEF CleanFriends, Goto
  <2>3. CASE Start(w) \/ NoAccount(w) \/ ClearFails(w) \/ Terminate(w)
    BY <2>3 DEF Start, NoAccount, ClearFails, Terminate, Goto, Halt
  <2>4. QED
    BY <1>3, <2>1, <2>2, <2>3
<1>4. ASSUME NEW w \in Worker, Login(w) PROVE TypeOK' /\ RowInv'
  BY <1>4 DEF Login, Goto
<1>5. ASSUME NEW w \in Worker, Refuse(w) PROVE TypeOK' /\ RowInv'
  <2>1. row[w] \in Account /\ loggedIn' \in SUBSET Account /\ rate' \in [Account -> Int]
    BY <1>5 DEF Refuse, Goto
  <2>2. QED
    BY <1>5, <2>1 DEF Refuse, Goto, Halt
<1>6. ASSUME NEW w \in Worker,
             InitAgain(w) \/ InitFails(w) \/ InitHalts(w) \/ LoopReturns(w) \/ HaltReleaseFails(w)
      PROVE  TypeOK' /\ RowInv'
  <2>1. faults' \in 0 .. MaxFaults
    BY <1>6, FaultCounted DEF InitAgain, InitFails, InitHalts, LoopReturns, HaltReleaseFails
  <2>2. CASE InitAgain(w) \/ InitFails(w)
    BY <2>1, <2>2 DEF InitAgain, InitFails, Goto
  <2>3. CASE InitHalts(w)
    BY <2>1, <2>3 DEF InitHalts, Goto, Halt
  <2>4. CASE LoopReturns(w) \/ HaltReleaseFails(w)
    BY <2>1, <2>4 DEF LoopReturns, HaltReleaseFails, Halt
  <2>5. QED
    BY <1>6, <2>2, <2>3, <2>4
<1>7. ASSUME NEW w \in Worker, Undo(w) PROVE TypeOK' /\ RowInv'
  <2>1. row[w] \in Account /\ Release(w, row[w])
    BY <1>7 DEF Undo, Goto
  <2>2. QED
    BY <1>7, <2>1, ReleaseType DEF Undo, Goto
<1>8. ASSUME NEW w \in Worker, BeginIteration(w) \/ EndIteration(w) PROVE TypeOK' /\ RowInv'
  BY <1>8 DEF BeginIteration, EndIteration
<1>9. ASSUME NEW w \in Worker, Refresh(w) PROVE TypeOK' /\ RowInv'
  BY <1>9 DEF Refresh
<1>10. ASSUME NEW w \in Worker, HaltRelease(w) PROVE TypeOK' /\ RowInv'
  <2>1. CASE row[w] = None
    BY <1>10, <2>1 DEF HaltRelease
  <2>2. CASE row[w] # None
    <3>1. row[w] \in Account /\ Release(w, row[w])
      BY <1>10, <2>2 DEF HaltRelease
    <3>2. QED
      BY <1>10, <3>1, ReleaseType DEF HaltRelease
  <2>3. QED
    BY <2>1, <2>2
<1>11. ASSUME NEW w \in Worker, Return(w) \/ Crash(w) PROVE TypeOK' /\ RowInv'
  <2>1. Exit(w) /\ faults' \in 0 .. MaxFaults
    BY <1>11, FaultCounted DEF Return, Crash
  <2>2. QED
    BY <2>1 DEF Exit
<1>12. ASSUME Tick \/ TickLate PROVE TypeOK' /\ RowInv'
  <2>1. Pass /\ foul' \in BOOLEAN /\ faults' \in 0 .. MaxFaults
    BY <1>12, FaultCounted DEF Tick, TickLate
  <2>2. QED
    BY <2>1, PassType
<1>13. ASSUME NEW a \in Account, CtlCheck(a) \/ CtlRelease(a) \/ CtlForce(a) \/ CtlRate(a)
       PROVE  TypeOK' /\ RowInv'
  <2>1. CASE CtlCheck(a)
    BY <2>1, FaultCounted DEF CtlCheck
  <2>2. CASE CtlRelease(a)
    <3>1. /\ state' \in [Account -> {"Idle", "Using"}] /\ lost' \in SUBSET (Worker \X Account)
          /\ foul' \in BOOLEAN /\ UNCHANGED <<lease, rate, loggedIn, process, fresh>>
      BY <2>2, SeizeType DEF CtlRelease
    <3>2. QED
      BY <2>2, <3>1 DEF CtlRelease
  <2>3. CASE CtlForce(a)
    <3>1. /\ state' \in [Account -> {"Idle", "Using"}] /\ lost' \in SUBSET (Worker \X Account)
          /\ foul' \in BOOLEAN /\ UNCHANGED <<lease, rate, loggedIn, process, fresh>>
      BY <2>3, SeizeType DEF CtlForce
    <3>2. faults' \in 0 .. MaxFaults
      BY <2>3, FaultCounted DEF CtlForce
    <3>3. QED
      BY <2>3, <3>1, <3>2 DEF CtlForce
  <2>4. CASE CtlRate(a)
    <3>1. rate' \in [Account -> Int]
      BY <2>4 DEF CtlRate
    <3>2. QED
      BY <2>4, <3>1 DEF CtlRate
  <2>5. QED
    BY <1>13, <2>1, <2>2, <2>3, <2>4
<1>14. CASE UNCHANGED vars
  BY <1>14 DEF vars
<1>15. QED
  BY StepCases, <1>1, <1>2, <1>3, <1>4, <1>5, <1>6, <1>7, <1>8, <1>9, <1>10, <1>11, <1>12,
     <1>13, <1>14
----------------------------------------------------------------------------
(* Who has an account *)

\* A step that gives nobody an account, deprives nobody and leaves the leases
\* as they are keeps the invariants, if it calls nobody back who was leaving.
LEMMA QuietStep ==
  ASSUME Inv, UNCHANGED <<state, lease, lost, foul>>,
         \A w \in Worker : using'[w] # None => using'[w] \in {using[w], row[w]},
         \A w \in Worker : row'[w] # None => row'[w] = row[w],
         \A w \in Worker : cancelled[w] => cancelled'[w],
         \A w \in Worker : init[w] \in {"undo", "undone"} =>
           init'[w] \in {"undo", "undone"} \/ cancelled'[w] \/ row'[w] = None,
         fresh' \in SUBSET fresh, \A w \in fresh' : row'[w] = row[w]
  PROVE  OwnInv' /\ FreshInv' /\ DeprivedInv'
<1> USE ConstantsAssumption DEF Inv
<1>1. \A a \in Account : \A w \in Worker : Has(w, a)' => Has(w, a)
  BY DEF Has
<1>2. OwnInv'
  BY <1>1 DEF OwnInv
<1>3. FreshInv'
  BY DEF FreshInv
<1>4. \A a \in Account : \A w \in Worker : Leaving(w, a) => Leaving(w, a)'
  BY DEF Leaving
<1>5. DeprivedInv'
  BY <1>1, <1>4 DEF DeprivedInv
<1>6. QED
  BY <1>2, <1>3, <1>5

\* An account that may be locked has nobody who was not deprived of it.
LEMMA LockableIsFree ==
  ASSUME Inv, NEW a \in Account, Lock(a)
  PROVE  \A w \in Worker : Has(w, a) => <<w, a>> \in lost
  BY ConstantsAssumption, LockTable DEF Inv, OwnInv, TypeOK

LEMMA LockStep ==
  ASSUME Inv, NEW w \in Worker, NEW a \in Account, TryLock(w, a)
  PROVE  OwnInv' /\ FreshInv' /\ DeprivedInv'
<1> USE ConstantsAssumption DEF Inv
<1>1. Lock(a)
  BY DEF TryLock
<1>2. /\ state' = [state EXCEPT ![a] = "Using"] /\ lease' = [lease EXCEPT ![a] = LeaseTime]
      /\ row' = [row EXCEPT ![w] = a] /\ using' = using /\ lost' = lost \ {<<w, a>>}
      /\ state \in [Account -> {"Idle", "Using"}] /\ lease \in [Account -> 0 .. LeaseTime]
      /\ row \in [Worker -> Account \cup {None}]
  BY <1>1, LockTable DEF TryLock, TypeOK
<1>3. \A b \in Account : \A v \in Worker : Has(v, b)' /\ <<v, b>> # <<w, a>> => Has(v, b)
  BY <1>2 DEF Has
<1>4. \A v \in Worker : v # w /\ Has(v, a)' => <<v, a>> \in lost'
  BY <1>1, <1>2, <1>3, LockableIsFree
<1>5. ASSUME NEW b \in Account, NEW v \in Worker, Has(v, b)', <<v, b>> \notin lost'
      PROVE  /\ state'[b] = "Using" /\ lease'[b] > 0
             /\ \A u \in Worker : u # v /\ Has(u, b)' => <<u, b>> \in lost'
  <2>1. CASE b = a
    BY <1>2, <1>4, <1>5, <2>1
  <2>2. CASE b # a
    BY <1>2, <1>3, <1>5, <2>2 DEF OwnInv
  <2>3. QED
    BY <2>1, <2>2
<1>6. OwnInv'
  BY <1>5 DEF OwnInv
<1>7. FreshInv'
  BY <1>2 DEF TryLock, FreshInv, TypeOK
<1>8. ASSUME NEW b \in Account, NEW v \in Worker, ~foul', Has(v, b)', <<v, b>> \in lost'
      PROVE  Leaving(v, b)'
  <2>1. Has(v, b) /\ <<v, b>> \in lost /\ <<v, b>> # <<w, a>> /\ ~foul
    BY <1>2, <1>3, <1>8 DEF TryLock
  <2>2. CASE v = w
    BY <1>2, <2>1, <2>2 DEF Leaving
  <2>3. CASE v # w
    <3>1. Leaving(v, b)
      BY <2>1 DEF DeprivedInv
    <3>2. init'[v] = init[v] /\ cancelled'[v] = cancelled[v] /\ row'[v] = row[v]
      BY <1>2, <2>3 DEF TryLock, Goto, TypeOK
    <3>3. QED
      BY <3>1, <3>2 DEF Leaving
  <2>4. QED
    BY <2>2, <2>3
<1>9. DeprivedInv'
  BY <1>8 DEF DeprivedInv
<1>10. QED
  BY <1>6, <1>7, <1>9
\* A release keeps the invariants if those it deprives are leaving.
LEMMA ReleaseStep ==
  ASSUME Inv, NEW a \in Account,
         state' = [state EXCEPT ![a] = "Idle"], lost' = lost \cup Holders({a}),
         UNCHANGED <<lease, fresh, row, using>>,
         ~foul' => ~foul,
         \A b \in Account : \A w \in Worker : Leaving(w, b) => Leaving(w, b)',
         ~foul' => \A w \in Worker : Has(w, a) => Leaving(w, a)'
  PROVE  OwnInv' /\ FreshInv' /\ DeprivedInv'
<1> USE DEF Inv
<1>1. \A b \in Account : \A w \in Worker : Has(w, b)' <=> Has(w, b)
  BY DEF Has
<1>2. \A b \in Account : \A w \in Worker :
        <<w, b>> \in lost' <=> <<w, b>> \in lost \/ (b = a /\ Has(w, b))
  BY DEF Holders
<1>3. OwnInv'
  BY <1>1, <1>2 DEF OwnInv, TypeOK
<1>4. FreshInv'
  BY DEF FreshInv
<1>5. DeprivedInv'
  BY <1>1, <1>2 DEF DeprivedInv
<1>6. QED
  BY <1>3, <1>4, <1>5

\* A worker that releases what it has deprives nobody else.
LEMMA OwnRelease ==
  ASSUME Inv, NEW w \in Worker, NEW a \in Account, row[w] = a, Release(w, a),
         row' = row, using' = using, Leaving(w, a)',
         \A b \in Account : \A v \in Worker : Leaving(v, b) => Leaving(v, b)'
  PROVE  OwnInv' /\ FreshInv' /\ DeprivedInv'
<1>1. /\ state' = [state EXCEPT ![a] = "Idle"] /\ lost' = lost \cup Holders({a})
      /\ UNCHANGED <<lease, fresh>>
      /\ ~foul' => ~foul /\ <<w, a>> \notin lost
  BY DEF Release
<1>2. ASSUME ~foul', NEW v \in Worker, Has(v, a) PROVE Leaving(v, a)'
  <2>1. CASE v = w
    BY <2>1
  <2>2. CASE v # w
    <3>1. <<v, a>> \in lost
      BY <1>1, <1>2, <2>2 DEF Inv, OwnInv, Has
    <3>2. QED
      BY <1>1, <1>2, <3>1 DEF Inv, DeprivedInv
  <2>3. QED
    BY <2>1, <2>2
<1>3. QED
  BY <1>1, <1>2, ReleaseStep

LEMMA PassStep ==
  ASSUME Inv, Tick \/ TickLate
  PROVE  OwnInv' /\ FreshInv' /\ DeprivedInv'
<1> USE ConstantsAssumption DEF Inv
<1>1. Pass /\ fresh' = {} /\ UNCHANGED <<state, process>>
  BY DEF Tick, TickLate, Pass
<1>2. \A a \in Account : lease[a] \in 0 .. LeaseTime
                         /\ lease'[a] = IF lease[a] > 0 THEN lease[a] - 1 ELSE 0
  BY <1>1 DEF Pass, TypeOK
<1>3. \A a \in Account : \A w \in Worker : Has(w, a)' <=> Has(w, a)
  BY <1>1 DEF Has, process
<1>4. \A a \in Account : \A w \in Worker :
        <<w, a>> \in lost' <=> <<w, a>> \in lost \/ (Has(w, a) /\ lease'[a] = 0)
  BY <1>1 DEF Pass, Holders
<1>5. ASSUME NEW a \in Account, NEW w \in Worker, Has(w, a)', <<w, a>> \notin lost'
      PROVE  /\ state'[a] = "Using" /\ lease'[a] > 0
             /\ \A v \in Worker : v # w /\ Has(v, a)' => <<v, a>> \in lost'
  <2>1. Has(w, a) /\ <<w, a>> \notin lost /\ lease'[a] # 0
    BY <1>3, <1>4, <1>5
  <2>2. state[a] = "Using" /\ lease'[a] > 0
    BY <1>2, <2>1 DEF OwnInv
  <2>3. \A v \in Worker : v # w /\ Has(v, a)' => <<v, a>> \in lost'
    BY <1>3, <1>4, <2>1 DEF OwnInv
  <2>4. QED
    BY <1>1, <2>2, <2>3
<1>6. OwnInv'
  BY <1>5 DEF OwnInv
<1>7. FreshInv'
  BY <1>1 DEF FreshInv
<1>8. ASSUME NEW a \in Account, NEW w \in Worker, ~foul', Has(w, a)', <<w, a>> \in lost'
      PROVE  Leaving(w, a)'
  <2>1. Tick /\ ~foul
    BY <1>8 DEF Tick, TickLate
  <2>2. Leaving(w, a) => Leaving(w, a)'
    BY <1>1 DEF Leaving, process
  <2>3. CASE <<w, a>> \in lost
    BY <1>3, <1>8, <2>1, <2>2, <2>3 DEF DeprivedInv
  <2>4. CASE lease'[a] = 0 /\ ~Leaving(w, a)
    <3>1. row[w] = a /\ w \in fresh
      BY <2>1, <2>4 DEF Tick, Missing, Leaving
    <3>2. lease[a] = LeaseTime
      BY <3>1 DEF FreshInv
    <3>3. QED
      BY <1>2, <2>4, <3>2
  <2>5. QED
    BY <1>4, <1>8, <2>2, <2>3, <2>4
<1>9. DeprivedInv'
  BY <1>8 DEF DeprivedInv
<1>10. QED
  BY <1>6, <1>7, <1>9
\* A lease that is extended, by a worker that has it or for nobody.
LEMMA LeaseStep ==
  ASSUME Inv, NEW a \in Account, lease' = [lease EXCEPT ![a] = LeaseTime],
         UNCHANGED <<row, using, lost, foul>>,
         \A b \in Account : \A w \in Worker : Leaving(w, b) => Leaving(w, b)',
         state' = state \/ state' = [state EXCEPT ![a] = "Using"],
         \A w \in fresh' : w \in fresh \/ (w \in Worker /\ row[w] = a)
  PROVE  OwnInv' /\ FreshInv' /\ DeprivedInv'
<1> USE ConstantsAssumption DEF Inv
<1>1. /\ lease \in [Account -> 0 .. LeaseTime] /\ state \in [Account -> {"Idle", "Using"}]
      /\ row \in [Worker -> Account \cup {None}] /\ fresh \subseteq Worker
  BY DEF TypeOK
<1>2. \A b \in Account : \A w \in Worker : Has(w, b)' <=> Has(w, b)
  BY DEF Has
<1>3. OwnInv'
  BY <1>1, <1>2 DEF OwnInv
<1>4. FreshInv'
  BY <1>1 DEF FreshInv
<1>5. DeprivedInv'
  BY <1>2 DEF DeprivedInv
<1>6. QED
  BY <1>3, <1>4, <1>5

LEMMA ExitStep ==
  ASSUME Inv, NEW w \in Worker, Exit(w)
  PROVE  OwnInv' /\ FreshInv' /\ DeprivedInv'
<1> USE ConstantsAssumption DEF Inv
<1>1. /\ row' = [row EXCEPT ![w] = None] /\ using' = [using EXCEPT ![w] = None]
      /\ init' = [init EXCEPT ![w] = "down"] /\ cancelled' = [cancelled EXCEPT ![w] = FALSE]
      /\ fresh' = fresh \ {w} /\ lost' = lost \ ({w} \X Account)
      /\ UNCHANGED <<state, lease, foul>>
  BY DEF Exit, table
<1>2. \A a \in Account : ~Has(w, a)'
  BY <1>1 DEF Has, TypeOK
<1>3. \A v \in Worker : v # w => /\ row'[v] = row[v] /\ using'[v] = using[v]
                                /\ init'[v] = init[v] /\ cancelled'[v] = cancelled[v]
  BY <1>1 DEF TypeOK
<1>4. \A a \in Account : \A v \in Worker :
        v # w => /\ Has(v, a)' <=> Has(v, a)
                 /\ <<v, a>> \in lost' <=> <<v, a>> \in lost
                 /\ Leaving(v, a)' <=> Leaving(v, a)
  BY <1>1, <1>3 DEF Has, Leaving
<1>5. OwnInv'
  BY <1>1, <1>2, <1>4 DEF OwnInv
<1>6. FreshInv'
  BY <1>1, <1>3 DEF FreshInv, TypeOK
<1>7. DeprivedInv'
  BY <1>1, <1>2, <1>4 DEF DeprivedInv
<1>8. QED
  BY <1>5, <1>6, <1>7

LEMMA InvInit == Init => Inv
<1> SUFFICES ASSUME Init PROVE Inv
  OBVIOUS
<1>1. OwnInv /\ FreshInv
  BY ConstantsAssumption DEF Init, OwnInv, FreshInv, Has
<1>2. DeprivedInv
  BY DEF Init, DeprivedInv
<1>3. QED
  BY <1>1, <1>2, TypeInit DEF Inv

LEMMA InvNext == Inv /\ [Next]_vars => Inv'
<1> SUFFICES ASSUME Inv, [Next]_vars PROVE OwnInv' /\ FreshInv' /\ DeprivedInv'
  BY TypeNext DEF Inv
<1> USE DEF table, process, history
<1>0. TypeOK /\ RowInv
  BY DEF Inv
<1>1. ASSUME NEW w \in Worker, NEW a \in Account, TryLock(w, a)
      PROVE  OwnInv' /\ FreshInv' /\ DeprivedInv'
  BY <1>1, LockStep
<1>2. ASSUME NEW w \in Worker, NEW a \in Account, PublishFails(w, a)
      PROVE  OwnInv' /\ FreshInv' /\ DeprivedInv'
  <2>1. /\ lease' = [lease EXCEPT ![a] = LeaseTime] /\ state' = [state EXCEPT ![a] = "Using"]
        /\ UNCHANGED <<row, using, cancelled, lost, foul, fresh>>
    BY <1>2 DEF PublishFails, Lock
  <2>2. \A v \in Worker : init'[v] = init[v] \/ init'[v] = "undo"
    BY <1>0, <1>2 DEF PublishFails, Goto, TypeOK
  <2>3. \A v \in Worker : init[v] \in {"undo", "undone"} => init'[v] \in {"undo", "undone"}
    BY <2>2
  <2>4. \A b \in Account : \A v \in Worker : Leaving(v, b) => Leaving(v, b)'
    BY <2>1, <2>3 DEF Leaving
  <2>5. QED
    BY <2>1, <2>4, LeaseStep
<1>3. ASSUME NEW w \in Worker,
             \/ Start(w) \/ NoAccount(w) \/ Login(w) \/ Refuse(w) \/ CleanFriends(w)
             \/ InitAgain(w) \/ InitFails(w) \/ InitHalts(w) \/ Clear(w) \/ ClearFails(w)
      PROVE  OwnInv' /\ FreshInv' /\ DeprivedInv'
  <2>1. /\ UNCHANGED <<state, lease, lost, foul, using>>
        /\ fresh' \in {fresh, fresh \ {w}}
    BY <1>3 DEF Start, NoAccount, Login, Refuse, CleanFriends, InitAgain, InitFails, InitHalts,
                Clear, ClearFails
  <2>2. /\ row' = row \/ row' = [row EXCEPT ![w] = None]
        /\ row' = row \/ fresh' = fresh \ {w}
        /\ cancelled' = cancelled \/ cancelled' = [cancelled EXCEPT ![w] = TRUE]
    BY <1>3 DEF Start, NoAccount, Login, Refuse, CleanFriends, InitAgain, InitFails, InitHalts,
                Clear, ClearFails, Halt
  <2>3. \A v \in Worker : v # w => init'[v] = init[v]
    BY <1>0, <1>3 DEF Start, NoAccount, Login, Refuse, CleanFriends, InitAgain, InitFails, InitHalts,
                Clear, ClearFails, Ended, Goto, TypeOK
  <2>4. init[w] \in {"undo", "undone"} =>
          init'[w] \in {"undo", "undone"} \/ cancelled'[w] \/ row'[w] = None
    BY <1>0, <1>3 DEF Start, NoAccount, Login, Refuse, CleanFriends, InitAgain, InitFails, InitHalts,
                Clear, ClearFails, Ended, Goto, Halt, TypeOK
  <2>5. \A v \in Worker : /\ row'[v] # None => row'[v] = row[v]
                          /\ cancelled[v] => cancelled'[v]
    BY <1>0, <2>2 DEF TypeOK
  <2>6. \A v \in Worker : init[v] \in {"undo", "undone"} =>
          init'[v] \in {"undo", "undone"} \/ cancelled'[v] \/ row'[v] = None
    BY <2>3, <2>4
  <2>7. fresh' \in SUBSET fresh /\ \A v \in fresh' : row'[v] = row[v]
    BY <1>0, <2>1, <2>2 DEF TypeOK
  <2>8. QED
    BY <2>1, <2>5, <2>6, <2>7, QuietStep
<1>4. ASSUME NEW w \in Worker,
             \/ BeginIteration(w) \/ EndIteration(w) \/ LoopReturns(w) \/ Terminate(w)
             \/ HaltReleaseFails(w)
      PROVE  OwnInv' /\ FreshInv' /\ DeprivedInv'
  <2>1. UNCHANGED <<state, lease, lost, foul, row, init, fresh>>
    BY <1>4 DEF BeginIteration, EndIteration, LoopReturns, Terminate, HaltReleaseFails
  <2>2. /\ \/ using' = using
           \/ using' = [using EXCEPT ![w] = row[w]] \/ using' = [using EXCEPT ![w] = None]
        /\ cancelled' = cancelled \/ cancelled' = [cancelled EXCEPT ![w] = TRUE]
    BY <1>4 DEF BeginIteration, EndIteration, LoopReturns, Terminate, HaltReleaseFails, Halt
  <2>3. \A v \in Worker : /\ using'[v] # None => using'[v] \in {using[v], row[v]}
                          /\ cancelled[v] => cancelled'[v]
    BY <1>0, <2>2 DEF TypeOK
  <2>4. QED
    BY <2>1, <2>3, QuietStep
<1>5. ASSUME NEW w \in Worker, Undo(w) PROVE OwnInv' /\ FreshInv' /\ DeprivedInv'
  <2>1. row[w] \in Account /\ Release(w, row[w]) /\ row' = row /\ using' = using
    BY <1>0, <1>5 DEF Undo, Goto, RowInv
  <2>2. /\ Leaving(w, row[w])'
        /\ \A b \in Account : \A v \in Worker : Leaving(v, b) => Leaving(v, b)'
    BY <1>0, <1>5 DEF Undo, Goto, Leaving, TypeOK
  <2>3. QED
    BY <2>1, <2>2, OwnRelease
<1>6. ASSUME NEW w \in Worker, HaltRelease(w) PROVE OwnInv' /\ FreshInv' /\ DeprivedInv'
  <2>1. CASE row[w] = None
    BY <1>6, <2>1, QuietStep DEF HaltRelease
  <2>2. CASE row[w] # None
    <3>1. row[w] \in Account /\ Release(w, row[w]) /\ row' = row /\ using' = using
      BY <1>0, <1>6, <2>2 DEF HaltRelease, TypeOK
    <3>2. /\ Leaving(w, row[w])'
          /\ \A b \in Account : \A v \in Worker : Leaving(v, b) => Leaving(v, b)'
      BY <1>6 DEF HaltRelease, Leaving
    <3>3. QED
      BY <3>1, <3>2, OwnRelease
  <2>3. QED
    BY <2>1, <2>2
<1>7. ASSUME NEW w \in Worker, Refresh(w) PROVE OwnInv' /\ FreshInv' /\ DeprivedInv'
  <2>1. row[w] \in Account
    BY <1>0, <1>7 DEF Refresh, TypeOK
  <2>2. QED
    BY <1>7, <2>1, LeaseStep DEF Refresh, Leaving
<1>8. ASSUME NEW w \in Worker, Return(w) \/ Crash(w)
      PROVE  OwnInv' /\ FreshInv' /\ DeprivedInv'
  BY <1>8, ExitStep DEF Return, Crash
<1>9. ASSUME Tick \/ TickLate PROVE OwnInv' /\ FreshInv' /\ DeprivedInv'
  BY <1>9, PassStep
<1>10. ASSUME NEW a \in Account, CtlCheck(a) \/ CtlRate(a)
       PROVE  OwnInv' /\ FreshInv' /\ DeprivedInv'
  BY <1>10, QuietStep DEF CtlCheck, CtlRate
<1>11. ASSUME NEW a \in Account, CtlRelease(a) \/ CtlForce(a)
       PROVE  OwnInv' /\ FreshInv' /\ DeprivedInv'
  <2>0. Seize(a)
    BY <1>11 DEF CtlRelease, CtlForce
  <2>1. /\ state' = [state EXCEPT ![a] = "Idle"] /\ lost' = lost \cup Holders({a})
        /\ UNCHANGED <<lease, fresh, row, using>>
        /\ \A b \in Account : \A w \in Worker : Leaving(w, b) => Leaving(w, b)'
    BY <2>0 DEF Seize, Leaving
  <2>2. ~foul' => ~foul /\ Holders({a}) \subseteq lost
    BY <2>0 DEF Seize
  <2>3. ASSUME ~foul', NEW w \in Worker, Has(w, a) PROVE Leaving(w, a)'
    <3>1. <<w, a>> \in lost
      BY <2>2, <2>3 DEF Holders
    <3>2. QED
      BY <2>1, <2>2, <2>3, <3>1 DEF Inv, DeprivedInv
  <2>4. QED
    BY <2>1, <2>2, <2>3, ReleaseStep
<1>12. CASE UNCHANGED vars
  BY <1>12, QuietStep DEF vars
<1>13. QED
  BY StepCases, <1>1, <1>2, <1>3, <1>4, <1>5, <1>6, <1>7, <1>8, <1>9, <1>10, <1>11, <1>12

LEMMA Invariant == Spec => []Inv
  BY InvInit, InvNext, PTL DEF Spec

----------------------------------------------------------------------------

\* Every variable keeps its type.
THEOREM TypeCorrect == Spec => []TypeOK
<1>1. Inv => TypeOK
  BY DEF Inv
<1>2. QED
  BY <1>1, Invariant, PTL

\* However many workers and accounts there are, and whatever stalls, crashes or
\* fails, try_lock_account gives an account to a worker only when all others that
\* still use it were deprived of it.
THEOREM AccountsAreExclusive == Spec => []SoleUser
<1>1. ASSUME Inv PROVE SoleUser
  <2>1. SUFFICES ASSUME NEW a \in Account, NEW w \in Worker, NEW v \in Worker,
                        w # v, Uses(w, a), Uses(v, a), <<w, a>> \notin lost
                 PROVE  <<v, a>> \in lost
    BY DEF SoleUser
  <2>2. Has(w, a) /\ Has(v, a)
    BY <2>1 DEF Uses, Has
  <2>3. QED
    BY <1>1, <2>1, <2>2 DEF Inv, OwnInv
<1>2. QED
  BY <1>1, Invariant, PTL

\* With a lease of two refreshes or more, refreshes that get through, and no
\* release by one who does not have the account, two workers share an account
\* only while one of them finishes its last iteration with it or undoes its start.
THEOREM SharingIsBrief == Spec => []SharedOnlyWhenLeaving
<1>1. ASSUME Inv PROVE SharedOnlyWhenLeaving
  <2>1. SUFFICES ASSUME ~foul, NEW a \in Account, NEW w \in Worker, NEW v \in Worker,
                        w # v, Uses(w, a), Uses(v, a)
                 PROVE  Leaving(w, a) \/ Leaving(v, a)
    BY DEF SharedOnlyWhenLeaving
  <2>2. Has(w, a) /\ Has(v, a)
    BY <2>1 DEF Uses, Has
  <2>3. <<w, a>> \in lost \/ <<v, a>> \in lost
    BY <1>1, <2>1, <2>2 DEF Inv, OwnInv
  <2>4. QED
    BY <1>1, <2>1, <2>2, <2>3 DEF Inv, DeprivedInv
<1>2. QED
  BY <1>1, Invariant, PTL
=============================================================================
