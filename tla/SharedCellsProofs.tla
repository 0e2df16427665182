------------------------- MODULE SharedCellsProofs -------------------------
(***************************************************************************)
(* Proofs about SharedCells: types, the lock and the order of values, that *)
(* each shared value is a register, and how long a run of a task takes.    *)
(***************************************************************************)
EXTENDS SharedCells, TLAPS

LEMMA ArgsType ==
  /\ Len(Args) \in Nat /\ DOMAIN Args = 1 .. Len(Args)
  /\ \A i \in 1 .. Len(Args) : Args[i] \in Synced
  /\ Synced \subseteq Cell /\ Pool \in Cell /\ Free \notin Cell
  /\ \A c \in Cell : c # Pool => c \in Synced
  BY ConstantsAssumption DEF Cell, Synced

LEMMA StartType == AtSelect \in Task /\ 0 \in Version
  BY ConstantsAssumption DEF Task, AtSelect, Version

LEMMA TypeInit == Init => TypeOK
<1> SUFFICES ASSUME Init PROVE TypeOK
  OBVIOUS
<1>1. 1 \in 1 .. Len(Args) + 1 /\ 0 \in 0 .. Len(Args)
  BY ArgsType
<1>2. QED
  BY <1>1, StartType DEF Init, TypeOK

\* Where a task may go, and what it finds when it gets there: fetched versions are
\* no older than the stored one and no newer than what is published; a pool is
\* opened only where there is none; a lock is held by a writer or by readers.
TaskInv(c) ==
  /\ task[c].at \in {"write", "put"} => task[c].got > 0 /\ task[c].got >= Stored(c)
  /\ c = Pool => /\ task[c].at \in {"fetch", "write", "put"} => Stored(c) = 0
                 /\ task[c].at \in {"write", "put"} => task[c].got = 1
  /\ c # Pool => /\ Stored(c) <= published[c]
                 /\ task[c].at \in {"write", "put"} => task[c].got <= published[c]
  /\ task[c].at = "put" => ~Reading(c)

\* A loop holds guards only of its arguments.
LoopInv == \A r \in Loop : holding[r] # Free => next[r] \in DOMAIN Args

CellInv == TypeOK /\ LoopInv /\ \A c \in Cell : TaskInv(c)

\* A step of the task of one cell leaves the other cells alone.
LEMMA OtherCells ==
  ASSUME CellInv, NEW c \in Cell, NEW d \in Cell, d # c,
         NEW t, NEW v, task' = [task EXCEPT ![c] = t], value' = [value EXCEPT ![c] = v],
         UNCHANGED <<published, holding>>
  PROVE  TaskInv(d)' /\ Stored(d)' = Stored(d)
  BY DEF CellInv, TypeOK, TaskInv, Stored, Writing, Reading

\* So does one that changes only the tasks and the interval.
LEMMA TaskMoves ==
  ASSUME CellInv, NEW c \in Cell, NEW t \in Task, Goto(c, t),
         t.at # "put", task[c].at # "put", t.at # "write",
         c = Pool /\ t.at = "fetch" => value[c] = 0,
         due' \in [Cell -> BOOLEAN],
         UNCHANGED <<published, value, cancelled, readers, probe>>
  PROVE  CellInv' /\ \A d \in Cell : Stored(d)' = Stored(d)
<1>1. task' = [task EXCEPT ![c] = t] /\ task'[c] = t /\ task' \in [Cell -> Task]
  BY DEF CellInv, TypeOK, Goto
<1>2. TypeOK'
  BY <1>1 DEF CellInv, TypeOK, readers, probe
<1>3. TaskInv(c)' /\ Stored(c)' = Stored(c)
  BY <1>1 DEF CellInv, TypeOK, TaskInv, Stored, Writing, readers
<1>4. \A d \in Cell : d # c => TaskInv(d)' /\ Stored(d)' = Stored(d)
  BY <1>1, OtherCells DEF readers, CellInv, TypeOK, TaskInv, Stored, Writing, Reading
<1>5. LoopInv'
  BY DEF CellInv, LoopInv, readers
<1>6. QED
  BY <1>2, <1>3, <1>4, <1>5 DEF CellInv

----------------------------------------------------------------------------

LEMMA RetryType ==
  ASSUME NEW n \in Nat
  PROVE  [AtSelect EXCEPT !.at = "fetch", !.retry = n] \in Task
  BY StartType DEF Task, AtSelect

\* What a step may do to the registers: nothing, a store or a read.
Stays == UNCHANGED seen /\ \A c \in Cell : Stored(c)' = Stored(c)

Stores ==
  /\ UNCHANGED <<seen, checked, ready>>
  /\ \E c \in Cell : /\ \A d \in Cell : d # c => Stored(d)' = Stored(d)
                     /\ Stored(c)' \in Version /\ Stored(c)' > Stored(c)
                     /\ c = Pool => Stored(c) = 0

Reads ==
  /\ UNCHANGED <<checked, ready>> /\ \A c \in Cell : Stored(c)' = Stored(c)
  /\ \E r \in Reader, c \in Cell : seen' = [seen EXCEPT ![r][c] = Stored(c)]

LEMMA StepCases ==
  [Next]_vars <=>
    \/ \E c \in Synced : Publish(c)
    \/ \E c \in Cell : \/ Elapse(c) \/ RunTick(c) \/ Stop(c) \/ Fetch(c) \/ FetchFails(c)
                       \/ WriteFails(c) \/ Take(c) \/ Put(c)
    \/ \E r \in Loop : Grab(r) \/ ReadArg(r) \/ Iterate(r)
    \/ \E t \in Transaction : Open(t) \/ Begun(t)
    \/ Cancel \/ CheckReady \/ AnswerNotReady \/ UNCHANGED vars
  BY DEF Next, TaskStep, LoopStep

LEMMA Again ==
  ASSUME CellInv, NEW c \in Cell, task[c].at \in {"fetch", "write"}, TryAgain(c)
  PROVE  CellInv' /\ Stays
<1> DEFINE n == task[c].retry + 1
           t == IF n < Tries(c) THEN [AtSelect EXCEPT !.at = "fetch", !.retry = n] ELSE AtSelect
<1>1. n \in Nat
  BY DEF CellInv, TypeOK, Task
<1>2. t \in Task /\ t.at \in {"fetch", "select"}
  <2>1. [AtSelect EXCEPT !.at = "fetch", !.retry = n].at = "fetch" /\ AtSelect.at = "select"
    BY DEF AtSelect
  <2>2. QED
    BY <1>1, <2>1, StartType, RetryType
<1>3. Goto(c, t) /\ UNCHANGED <<published, value, due, cancelled, readers, probe>>
  BY DEF TryAgain
<1>4. c = Pool => value[c] = 0
  BY DEF CellInv, TaskInv, Stored, Writing
<1>5. due' \in [Cell -> BOOLEAN] /\ UNCHANGED seen
  BY <1>3 DEF CellInv, TypeOK, readers
<1> HIDE DEF t, n
<1>6. QED
  BY <1>2, <1>3, <1>4, <1>5, TaskMoves DEF Stays

\* The guard of a reader comes or goes.
LEMMA GuardMoves ==
  ASSUME CellInv, TypeOK', LoopInv', UNCHANGED <<published, value, task>>,
         \A r \in Reader : holding'[r] = holding[r] \/ holding'[r] = Free \/ ~Writing(holding'[r])
  PROVE  CellInv' /\ \A c \in Cell : Stored(c)' = Stored(c)
  BY ArgsType DEF CellInv, TaskInv, Stored, Writing, Reading

\* /readyz asks for the pool last.
LEMMA AskedCell ==
  ASSUME TypeOK
  PROVE  /\ Asked = IF checked = Len(Args) THEN Pool ELSE Args[checked + 1]
         /\ Asked # Pool => checked + 1 \in 0 .. Len(Args)
         /\ 0 \in 0 .. Len(Args)
  BY ArgsType, ConstantsAssumption DEF Asked, TypeOK

\* Every step keeps the invariant and leaves the registers alone, stores or reads.
LEMMA StepEffect ==
  ASSUME CellInv, [Next]_vars
  PROVE  CellInv' /\ (Stays \/ Stores \/ Reads)
<1>a. CellInv' /\ Stays => CellInv' /\ (Stays \/ Stores \/ Reads)
  OBVIOUS
<1>1. ASSUME NEW c \in Synced, Publish(c) PROVE CellInv' /\ Stays
  <2>1. UNCHANGED <<value, task, due, cancelled, holding, next, seen, checked, ready>>
    BY <1>1 DEF Publish, tasks, readers, probe
  <2>2. published' \in [Synced -> Version] /\ \A d \in Synced : published'[d] >= published[d]
    BY <1>1, ConstantsAssumption DEF Publish, CellInv, TypeOK, Version
  <2>3. TypeOK' /\ Stays
    BY <2>1, <2>2 DEF CellInv, TypeOK, Stays, Stored, Writing
  <2>4. ASSUME NEW d \in Cell PROVE TaskInv(d)'
    <3>1. TaskInv(d) /\ task[d].got \in Version /\ Stored(d) \in Version
      BY DEF CellInv, TypeOK, Task, Stored
    <3>2. CASE d = Pool
      BY <2>1, <3>1, <3>2 DEF TaskInv, Stored, Writing, Reading
    <3>3. CASE d # Pool
      <4>1. d \in Synced /\ published[d] \in Version /\ published'[d] \in Version
            /\ published'[d] >= published[d]
        BY <2>2, <3>3, ArgsType DEF CellInv, TypeOK
      <4>2. QED
        BY <2>1, <3>1, <3>3, <4>1 DEF TaskInv, Stored, Writing, Reading, Version
    <3>4. QED
      BY <3>2, <3>3
  <2>5. QED
    BY <2>1, <2>3, <2>4 DEF CellInv, LoopInv
<1>2. ASSUME NEW c \in Cell, Elapse(c) PROVE CellInv' /\ Stays
  BY <1>2 DEF Elapse, CellInv, LoopInv, TypeOK, TaskInv, Stays, Stored, Writing, Reading, readers, probe
<1>3. ASSUME NEW c \in Cell, RunTick(c) PROVE CellInv' /\ Stays
  <2>1. /\ due' \in [Cell -> BOOLEAN] /\ task[c].at = "select"
        /\ UNCHANGED <<published, value, cancelled, readers, probe>>
    BY <1>3 DEF RunTick, CellInv, TypeOK
  <2>2. CASE c = Pool /\ IsInitialized(c)
    BY <1>3, <2>1, <2>2
       DEF RunTick, CellInv, LoopInv, TypeOK, TaskInv, Stays, Stored, Writing, Reading, readers, probe
  <2>3. CASE ~(c = Pool /\ IsInitialized(c))
    <3> DEFINE t == [AtSelect EXCEPT !.at = "fetch"]
    <3>1. t \in Task /\ t.at = "fetch" /\ Goto(c, t)
      BY <1>3, <2>3, StartType DEF RunTick, Task, AtSelect
    <3>2. c = Pool => value[c] = 0
      BY <2>1, <2>3 DEF IsInitialized, Writing
    <3> HIDE DEF t
    <3>3. QED
      BY <2>1, <3>1, <3>2, TaskMoves DEF Stays, readers
  <2>4. QED
    BY <2>2, <2>3
<1>4. ASSUME NEW c \in Cell, Stop(c) PROVE CellInv' /\ Stays
  <2> DEFINE t == [AtSelect EXCEPT !.at = "ended"]
  <2>1. t \in Task /\ t.at = "ended" /\ Goto(c, t) /\ task[c].at = "select"
    BY <1>4, StartType DEF Stop, Task, AtSelect
  <2>2. due' \in [Cell -> BOOLEAN] /\ UNCHANGED <<published, value, cancelled, readers, probe>>
    BY <1>4 DEF Stop, CellInv, TypeOK
  <2> HIDE DEF t
  <2>3. QED
    BY <2>1, <2>2, TaskMoves DEF Stays, readers
<1>5. ASSUME NEW c \in Cell, Fetch(c) PROVE CellInv' /\ Stays
  <2> DEFINE t == [task[c] EXCEPT !.at = "write", !.got = Offer(c)]
  <2>1. /\ task[c] \in Task /\ task[c].at = "fetch" /\ Offer(c) > 0 /\ Goto(c, t)
        /\ UNCHANGED <<published, value, due, cancelled, readers, probe>>
    BY <1>5 DEF Fetch, CellInv, TypeOK
  <2>2. TaskInv(c) /\ value[c] \in Version /\ Stored(c) = value[c]
    BY <2>1 DEF CellInv, TypeOK, Stored, Writing
  <2>3. /\ Offer(c) \in Version /\ Offer(c) >= value[c]
        /\ c = Pool => value[c] = 0 /\ Offer(c) = 1
        /\ c # Pool => Offer(c) = published[c] /\ published[c] \in Version
    BY <2>1, <2>2, ArgsType, ConstantsAssumption DEF Offer, TaskInv, CellInv, TypeOK, Version
  <2>4. t \in Task /\ t.at = "write" /\ t.got = Offer(c)
    BY <2>1, <2>3 DEF Task
  <2> HIDE DEF t
  <2>5. task' = [task EXCEPT ![c] = t] /\ task'[c] = t /\ task' \in [Cell -> Task]
    BY <2>1, <2>4 DEF Goto, CellInv, TypeOK
  <2>6. TypeOK'
    BY <2>1, <2>5 DEF CellInv, TypeOK, readers, probe
  <2>7. Stored(c)' = Stored(c) /\ TaskInv(c)'
    <3>1. Stored(c)' = value[c]
      BY <2>1, <2>4, <2>5 DEF Stored, Writing
    <3>2. QED
      BY <2>1, <2>2, <2>3, <2>4, <2>5, <3>1 DEF TaskInv, Version
  <2>8. \A d \in Cell : d # c => TaskInv(d)' /\ Stored(d)' = Stored(d)
    <3>1. value' = [value EXCEPT ![c] = value[c]]
      BY <2>1 DEF CellInv, TypeOK
    <3>2. QED
      BY <2>1, <2>5, <3>1, OtherCells DEF readers
  <2>9. QED
    BY <2>1, <2>6, <2>7, <2>8 DEF CellInv, LoopInv, Stays, readers
<1>6. ASSUME NEW c \in Cell, FetchFails(c) \/ WriteFails(c) PROVE CellInv' /\ Stays
  BY <1>6, Again DEF FetchFails, WriteFails
<1>7. ASSUME NEW c \in Cell, Take(c) PROVE CellInv' /\ Stays
  <2> DEFINE t == [task[c] EXCEPT !.at = "put", !.took = value[c]]
  <2>1. /\ task[c] \in Task /\ task[c].at = "write" /\ ~Reading(c) /\ Goto(c, t)
        /\ value' = [value EXCEPT ![c] = 0] /\ value[c] \in Version
        /\ UNCHANGED <<published, due, cancelled, readers, probe>>
    BY <1>7 DEF Take, CellInv, TypeOK
  <2>2. t \in Task /\ t.at = "put" /\ t.took = value[c] /\ t.got = task[c].got
    BY <2>1 DEF Task
  <2> HIDE DEF t
  <2>3. task' = [task EXCEPT ![c] = t] /\ task'[c] = t /\ task' \in [Cell -> Task]
    BY <2>1, <2>2 DEF Goto, CellInv, TypeOK
  <2>4. TypeOK'
    BY <2>1, <2>3, StartType DEF CellInv, TypeOK, readers, probe
  <2>5. Stored(c) = value[c] /\ Stored(c)' = value[c] /\ TaskInv(c)
    BY <2>1, <2>2, <2>3 DEF Stored, Writing, CellInv
  <2>6. TaskInv(c)'
    BY <2>1, <2>2, <2>3, <2>5 DEF TaskInv, Reading, readers
  <2>7. \A d \in Cell : d # c => TaskInv(d)' /\ Stored(d)' = Stored(d)
    BY <2>1, <2>3, OtherCells DEF readers
  <2>8. QED
    BY <2>1, <2>4, <2>5, <2>6, <2>7 DEF CellInv, LoopInv, Stays, readers
<1>8. ASSUME NEW c \in Cell, Put(c) PROVE CellInv' /\ (Stays \/ Stores)
  <2>1. /\ task[c] \in Task /\ task[c].at = "put" /\ TaskInv(c)
        /\ task' = [task EXCEPT ![c] = AtSelect] /\ task'[c] = AtSelect /\ task' \in [Cell -> Task]
        /\ value' = [value EXCEPT ![c] = task[c].got] /\ value'[c] = task[c].got
        /\ UNCHANGED <<published, due, cancelled, readers, probe>>
    BY <1>8, StartType DEF Put, Goto, CellInv, TypeOK
  <2>2. TypeOK'
    BY <2>1 DEF CellInv, TypeOK, Task, readers, probe
  <2>3. Stored(c)' = task[c].got /\ AtSelect.at = "select"
    BY <2>1 DEF Stored, Writing, AtSelect
  <2>4. TaskInv(c)'
    BY <2>1, <2>3 DEF TaskInv
  <2>5. \A d \in Cell : d # c => TaskInv(d)' /\ Stored(d)' = Stored(d)
    BY <2>1, OtherCells DEF readers
  <2>6. /\ Stored(c) \in Version /\ Stored(c)' \in Version /\ Stored(c)' >= Stored(c)
        /\ c = Pool => Stored(c) = 0
    BY <2>1, <2>3 DEF TaskInv, Task, Stored, CellInv, TypeOK
  <2>7. CellInv' /\ UNCHANGED <<seen, checked, ready>>
    BY <2>1, <2>2, <2>4, <2>5 DEF CellInv, LoopInv, readers, probe
  <2>8. CASE Stored(c)' = Stored(c)
    BY <2>5, <2>7, <2>8 DEF Stays
  <2>9. CASE Stored(c)' # Stored(c)
    <3>1. Stored(c)' > Stored(c)
      BY <2>6, <2>9 DEF Version
    <3>2. QED
      BY <2>5, <2>6, <2>7, <3>1 DEF Stores
  <2>10. QED
    BY <2>8, <2>9
<1>9. ASSUME NEW r \in Loop, Grab(r) PROVE CellInv' /\ Stays
  <2>1. /\ Wants(r) \in Cell /\ ~Writing(Wants(r)) /\ r \in Reader
        /\ holding' = [holding EXCEPT ![r] = Wants(r)]
        /\ UNCHANGED <<published, value, tasks, next, seen, probe>>
    BY <1>9, ArgsType DEF Grab, Wants, Reader
  <2>2. TypeOK'
    BY <2>1 DEF CellInv, TypeOK, tasks, probe
  <2>3. LoopInv'
    BY <1>9, <2>1 DEF Grab, LoopInv, CellInv, TypeOK
  <2>4. QED
    BY <2>1, <2>2, <2>3, GuardMoves DEF CellInv, TypeOK, Stays, tasks
<1>10. ASSUME NEW t \in Transaction, Open(t) PROVE CellInv' /\ Stays
  <2>1. /\ Pool \in Cell /\ ~Writing(Pool) /\ t \in Reader
        /\ holding' = [holding EXCEPT ![t] = Pool]
        /\ UNCHANGED <<published, value, tasks, next, seen, probe>>
    BY <1>10, ArgsType DEF Open, Reader
  <2>2. TypeOK'
    BY <2>1 DEF CellInv, TypeOK, tasks, probe
  <2>3. LoopInv'
    BY <2>1, ConstantsAssumption DEF LoopInv, CellInv, TypeOK
  <2>4. QED
    BY <2>1, <2>2, <2>3, GuardMoves DEF CellInv, TypeOK, Stays, tasks
<1>11. ASSUME NEW r \in Reader, holding[r] # Free, Look(r),
              next' \in [Loop -> 1 .. Len(Args) + 1],
              \A q \in Loop : q # r => next'[q] = next[q]
       PROVE  CellInv' /\ Reads
  <2>1. /\ holding[r] \in Cell
        /\ holding' = [holding EXCEPT ![r] = Free]
        /\ seen' = [seen EXCEPT ![r][holding[r]] = value[holding[r]]]
        /\ UNCHANGED <<published, value, tasks, probe>>
    BY <1>11 DEF Look, CellInv, TypeOK
  <2>2. TypeOK'
    BY <1>11, <2>1 DEF CellInv, TypeOK, tasks, probe
  <2>3. Stored(holding[r]) = value[holding[r]]
    BY <2>1 DEF CellInv, TaskInv, Reading, Stored, Writing
  <2>4. CellInv' /\ \A c \in Cell : Stored(c)' = Stored(c)
    <3>1. LoopInv'
      BY <1>11, <2>1 DEF LoopInv, CellInv, TypeOK
    <3>2. QED
      BY <2>1, <2>2, <3>1, GuardMoves DEF CellInv, TypeOK, tasks
  <2>5. QED
    BY <2>1, <2>3, <2>4 DEF Reads, probe
<1>12. ASSUME NEW r \in Loop, ReadArg(r) PROVE CellInv' /\ Reads
  <2>1. r \in Reader /\ holding[r] # Free /\ Look(r)
    BY <1>12 DEF ReadArg, Reader
  <2>2. next' \in [Loop -> 1 .. Len(Args) + 1] /\ \A q \in Loop : q # r => next'[q] = next[q]
    <3>1. next[r] \in 1 .. Len(Args)
      BY <2>1, ArgsType DEF CellInv, LoopInv
    <3>2. QED
      BY <1>12, <3>1, ArgsType DEF ReadArg, CellInv, TypeOK
  <2>3. QED
    BY <1>11, <2>1, <2>2
<1>13. ASSUME NEW t \in Transaction, Begun(t) PROVE CellInv' /\ Reads
  <2>1. /\ t \in Reader /\ holding[t] # Free /\ Look(t) /\ UNCHANGED next
        /\ next \in [Loop -> 1 .. Len(Args) + 1]
    BY <1>13 DEF Begun, Reader, CellInv, TypeOK
  <2>2. QED
    BY <1>11, <2>1
<1>14. ASSUME NEW r \in Loop, Iterate(r) PROVE CellInv' /\ Stays
  BY <1>14, ArgsType
     DEF Iterate, CellInv, LoopInv, TypeOK, TaskInv, Stays, Stored, Writing, Reading, tasks, probe
<1>15. ASSUME Cancel PROVE CellInv' /\ Stays
  BY <1>15 DEF Cancel, CellInv, LoopInv, TypeOK, TaskInv, Stays, Stored, Writing, Reading, readers, probe
<1>16. ASSUME CheckReady \/ AnswerNotReady PROVE CellInv' /\ Stays
  <2>1. checked' \in 0 .. Len(Args) /\ ready' \in BOOLEAN
    BY <1>16, AskedCell DEF CheckReady, AnswerNotReady, CellInv, TypeOK
  <2>2. UNCHANGED <<published, value, tasks, readers>>
    BY <1>16 DEF CheckReady, AnswerNotReady
  <2>3. QED
    BY <2>1, <2>2 DEF CellInv, LoopInv, TypeOK, TaskInv, Stays, Stored, Writing, Reading, tasks, readers
<1>17. ASSUME UNCHANGED vars PROVE CellInv' /\ Stays
  BY <1>17 DEF vars, CellInv, LoopInv, TypeOK, TaskInv, Stays, Stored, Writing, Reading, tasks, readers, probe
<1>18. QED
  BY <1>a, <1>1, <1>2, <1>3, <1>4, <1>5, <1>6, <1>7, <1>8, <1>9, <1>10, <1>12, <1>13, <1>14,
     <1>15, <1>16, <1>17, StepCases

LEMMA CellInit == Init => CellInv
<1> SUFFICES ASSUME Init PROVE CellInv
  OBVIOUS
<1>1. /\ TypeOK /\ \A c \in Cell : value[c] = 0 /\ task[c].at = "select"
      /\ \A c \in Synced : published[c] = 0
      /\ \A r \in Loop : holding[r] = Free
  BY TypeInit DEF Init, AtSelect, Reader
<1>2. \A c \in Cell : c # Pool => published[c] = 0
  BY <1>1, ArgsType
<1>3. QED
  BY <1>1, <1>2 DEF CellInv, LoopInv, TaskInv, Stored, Writing

LEMMA CellNext == CellInv /\ [Next]_vars => CellInv'
  BY StepEffect

\* Cells, tasks, guards and what readers saw have their types, for any arguments,
\* readers, retries and versions.
THEOREM TypeCorrect == Spec => []TypeOK
<1>1. CellInv => TypeOK
  BY DEF CellInv
<1>2. QED
  BY CellInit, CellNext, <1>1, PTL DEF Spec

----------------------------------------------------------------------------
(* Registers *)

\* A step of the process is a step of the registers, or none.
LEMMA RegisterStep == CellInv /\ [Next]_vars => [Register!Next]_(Register!vars)
<1> SUFFICES ASSUME CellInv, [Next]_vars PROVE Register!Next \/ UNCHANGED Register!vars
  OBVIOUS
<1>0. CellInv' /\ (Stays \/ Stores \/ Reads)
  BY StepEffect
<1>1. CASE Stays
  <2>1. [c \in Cell |-> Stored(c)]' = [c \in Cell |-> Stored(c)]
    BY <1>1 DEF Stays
  <2>2. QED
    BY <1>1, <2>1 DEF Stays, Register!vars
<1>2. CASE Stores
  <2>1. PICK c \in Cell : /\ \A d \in Cell : d # c => Stored(d)' = Stored(d)
                          /\ Stored(c)' \in Version /\ Stored(c)' > Stored(c)
                          /\ c = Pool => Stored(c) = 0
    BY <1>2 DEF Stores
  <2>2. [d \in Cell |-> Stored(d)]' = [[d \in Cell |-> Stored(d)] EXCEPT ![c] = Stored(c)']
    BY <2>1
  <2>3. Register!Store(c)
    BY <1>2, <2>1, <2>2 DEF Register!Store, Stores
  <2>4. QED
    BY <2>3 DEF Register!Next
<1>3. CASE Reads
  <2>1. PICK r \in Reader, c \in Cell : seen' = [seen EXCEPT ![r][c] = Stored(c)]
    BY <1>3 DEF Reads
  <2>2. [d \in Cell |-> Stored(d)]' = [d \in Cell |-> Stored(d)]
    BY <1>3 DEF Reads
  <2>3. Register!Read(r, c)
    BY <2>1, <2>2 DEF Register!Read
  <2>4. QED
    BY <2>3 DEF Register!Next
<1>4. QED
  BY <1>0, <1>1, <1>2, <1>3

LEMMA RegisterInit == Init => Register!Init
<1> SUFFICES ASSUME Init PROVE Register!Init
  OBVIOUS
<1>1. \A c \in Cell : Stored(c) = 0
  BY DEF Init, Stored, Writing, AtSelect
<1>2. QED
  BY <1>1 DEF Init, Register!Init

\* A shared value is a register, whatever reads, writes, retries and opens it.
THEOREM CellsAreRegisters == Spec => IsRegister
  BY CellInit, CellNext, RegisterInit, RegisterStep, PTL DEF Spec, IsRegister, Register!Spec

----------------------------------------------------------------------------
(* Readiness *)

\* What /readyz has looked at stays.
ReadyInv ==
  /\ \A i \in 1 .. checked : Stored(Args[i]) # 0
  /\ ready => \A c \in Cell : Stored(c) # 0

LEMMA ReadyInit == Init => ReadyInv
  BY DEF Init, ReadyInv

\* Only /readyz touches its own variables.
LEMMA OtherSteps == [Next]_vars => UNCHANGED <<checked, ready>> \/ CheckReady \/ AnswerNotReady
  BY DEF Next, TaskStep, LoopStep, Publish, Elapse, RunTick, Stop, Fetch, FetchFails, WriteFails,
         TryAgain, Take, Put, Grab, ReadArg, Iterate, Look, Open, Begun, Cancel, vars, probe

LEMMA ReadyNext == CellInv /\ ReadyInv /\ [Next]_vars => ReadyInv'
<1> SUFFICES ASSUME CellInv, ReadyInv, [Next]_vars PROVE ReadyInv'
  OBVIOUS
<1>0. /\ CellInv' /\ (Stays \/ Stores \/ Reads)
      /\ \A c \in Cell : Stored(c) \in Version
      /\ checked \in 0 .. Len(Args) /\ checked' \in 0 .. Len(Args)
      /\ \A i \in 1 .. Len(Args) : Args[i] \in Cell
  BY StepEffect, ArgsType DEF CellInv, TypeOK, Task, Stored
<1>1. \A c \in Cell : Stored(c) # 0 => Stored(c)' # 0
  <2>1. CASE Stores
    <3>1. PICK d \in Cell : (\A c \in Cell : c # d => Stored(c)' = Stored(c))
                             /\ Stored(d)' \in Version /\ Stored(d)' > Stored(d)
      BY <2>1 DEF Stores
    <3>2. Stored(d)' # 0
      BY <1>0, <3>1 DEF Version
    <3>3. QED
      BY <3>1, <3>2
  <2>2. CASE Stays \/ Reads
    BY <2>2 DEF Stays, Reads
  <2>3. QED
    BY <1>0, <2>1, <2>2
<1>2. CASE UNCHANGED <<checked, ready>>
  BY <1>0, <1>1, <1>2 DEF ReadyInv
<1>3. CASE CheckReady
  <2>1. Stored(Asked) # 0
    BY <1>3 DEF CheckReady, IsInitialized, Stored
  <2>2. Asked = IF checked = Len(Args) THEN Pool ELSE Args[checked + 1]
    BY AskedCell DEF CellInv
  <2>3. CASE Asked = Pool
    <3>1. checked = Len(Args)
      <4>1. checked \in 0 .. Len(Args) /\ Len(Args) \in Nat
        BY <1>0, ArgsType
      <4>2. ASSUME checked # Len(Args) PROVE Args[checked + 1] # Pool
        <5>1. checked + 1 \in 1 .. Len(Args)
          BY <4>1, <4>2
        <5>2. Args[checked + 1] \in Synced
          BY <5>1, ArgsType
        <5>3. QED
          BY <5>2, ConstantsAssumption
      <4>3. QED
        BY <2>2, <2>3, <4>2
    <3>2. \A c \in Cell : Stored(c) # 0
      BY <1>0, <2>1, <2>3, <3>1 DEF ReadyInv, Cell, Synced, ConstantsAssumption
    <3>3. QED
      BY <1>1, <1>3, <2>3, <3>2 DEF ReadyInv, CheckReady
  <2>4. CASE Asked # Pool
    <3>1. checked' = checked + 1 /\ UNCHANGED ready /\ Asked = Args[checked + 1]
      BY <1>3, <2>2, <2>4 DEF CheckReady
    <3>2. \A i \in 1 .. checked' : Stored(Args[i]) # 0
      BY <1>0, <2>1, <3>1 DEF ReadyInv
    <3>3. QED
      BY <1>0, <1>1, <3>1, <3>2 DEF ReadyInv
  <2>5. QED
    BY <2>3, <2>4
<1>4. CASE AnswerNotReady
  BY <1>0, <1>1, <1>4 DEF ReadyInv, AnswerNotReady
<1>5. QED
  BY <1>2, <1>3, <1>4, OtherSteps

\* A process that was ready once never misses a value again.
THEOREM ReadyStays == Spec => []ReadyMeansReadable
<1>1. ReadyInv => ReadyMeansReadable
  BY DEF ReadyInv, ReadyMeansReadable
<1>2. QED
  BY CellInit, CellNext, ReadyInit, ReadyNext, <1>1, PTL DEF Spec

----------------------------------------------------------------------------
(* How long a run of a task takes *)

\* A task never begins a try it does not have.
RetryInv ==
  \A c \in Cell : task[c].at \in {"fetch", "write", "put"} => task[c].retry < Tries(c)

\* What a step does to the task of a cell: nothing, or one of these.
Moves(c) ==
  \/ task[c].at = "select" /\ task'[c].at \in {"fetch", "ended"} /\ task'[c].retry = 0
  \/ task[c].at = "fetch" /\ task'[c].at = "write" /\ task'[c].retry = task[c].retry
  \/ task[c].at = "write" /\ task'[c].at = "put" /\ task'[c].retry = task[c].retry
  \/ /\ task[c].at \in {"fetch", "write"} /\ task'[c].at = "fetch"
     /\ task'[c].retry = task[c].retry + 1 /\ task'[c].retry < Tries(c)
  \/ task[c].at \in {"fetch", "write", "put"} /\ task'[c].at = "select"

LEMMA TriesType == \A c : Tries(c) \in Nat \ {0}
  BY ConstantsAssumption DEF Tries

LEMMA MovesOnly ==
  ASSUME TypeOK, [Next]_vars, NEW c \in Cell
  PROVE  task'[c] = task[c] \/ Moves(c)
<1> USE DEF TypeOK, Moves, Goto
<1>1. ASSUME \/ \E d \in Synced : Publish(d)
             \/ \E d \in Cell : Elapse(d)
             \/ \E r \in Loop : Grab(r) \/ ReadArg(r) \/ Iterate(r)
             \/ \E t \in Transaction : Open(t) \/ Begun(t)
             \/ Cancel \/ CheckReady \/ AnswerNotReady \/ UNCHANGED vars
      PROVE  task' = task
  BY <1>1 DEF Publish, Elapse, Grab, ReadArg, Iterate, Look, Open, Begun, Cancel, CheckReady,
              AnswerNotReady, vars, tasks
<1>2. ASSUME NEW d \in Cell, NEW t, Goto(d, t) PROVE task'[c] = IF c = d THEN t ELSE task[c]
  BY <1>2
<1>3. /\ AtSelect.at = "select" /\ AtSelect.retry = 0
      /\ [AtSelect EXCEPT !.at = "fetch"].at = "fetch"
      /\ [AtSelect EXCEPT !.at = "fetch"].retry = 0
      /\ [AtSelect EXCEPT !.at = "ended"].at = "ended"
      /\ [AtSelect EXCEPT !.at = "ended"].retry = 0
      /\ \A n : /\ [AtSelect EXCEPT !.at = "fetch", !.retry = n].at = "fetch"
                /\ [AtSelect EXCEPT !.at = "fetch", !.retry = n].retry = n
  BY DEF AtSelect
<1>4. ASSUME NEW d \in Cell, RunTick(d) \/ Stop(d) PROVE task'[c] = task[c] \/ Moves(c)
  BY <1>2, <1>3, <1>4 DEF RunTick, Stop
<1>5. ASSUME NEW d \in Cell, Put(d) PROVE task'[c] = task[c] \/ Moves(c)
  BY <1>2, <1>3, <1>5 DEF Put
<1>6. ASSUME NEW d \in Cell, Fetch(d) PROVE task'[c] = task[c] \/ Moves(c)
  <2>1. PICK t : t = [task[d] EXCEPT !.at = "write", !.got = Offer(d)]
    OBVIOUS
  <2>2. t.at = "write" /\ t.retry = task[d].retry
    BY <2>1 DEF Task
  <2>3. QED
    BY <1>2, <1>6, <2>1, <2>2 DEF Fetch
<1>7. ASSUME NEW d \in Cell, Take(d) PROVE task'[c] = task[c] \/ Moves(c)
  <2>1. PICK t : t = [task[d] EXCEPT !.at = "put", !.took = value[d]]
    OBVIOUS
  <2>2. t.at = "put" /\ t.retry = task[d].retry
    BY <2>1 DEF Task
  <2>3. QED
    BY <1>2, <1>7, <2>1, <2>2 DEF Take
<1>8. ASSUME NEW d \in Cell, FetchFails(d) \/ WriteFails(d) PROVE task'[c] = task[c] \/ Moves(c)
  <2>1. PICK n : n = task[d].retry + 1
    OBVIOUS
  <2>2. task[d].at \in {"fetch", "write"} /\ TryAgain(d)
    BY <1>8 DEF FetchFails, WriteFails
  <2>3. CASE n < Tries(d)
    <3>1. PICK t : t = [AtSelect EXCEPT !.at = "fetch", !.retry = n]
      OBVIOUS
    <3>2. t.at = "fetch" /\ t.retry = n /\ Goto(d, t)
      BY <1>3, <2>1, <2>2, <2>3, <3>1 DEF TryAgain
    <3>3. QED
      BY <1>2, <2>1, <2>2, <2>3, <3>2
  <2>4. CASE ~(n < Tries(d))
    <3>1. Goto(d, AtSelect)
      BY <2>1, <2>2, <2>4 DEF TryAgain
    <3>2. QED
      BY <1>2, <1>3, <2>2, <3>1
  <2>5. QED
    BY <2>3, <2>4
<1>9. QED
  BY <1>1, <1>4, <1>5, <1>6, <1>7, <1>8, StepCases

LEMMA RetryNext == TypeOK /\ RetryInv /\ [Next]_vars => RetryInv'
<1> SUFFICES ASSUME TypeOK, RetryInv, [Next]_vars, NEW c \in Cell,
                    task'[c].at \in {"fetch", "write", "put"}
             PROVE  task'[c].retry < Tries(c)
  BY DEF RetryInv, Tries
<1>1. Tries(c) \in Nat \ {0} /\ task[c] \in Task
  BY TriesType DEF TypeOK
<1>2. QED
  BY <1>1, MovesOnly DEF RetryInv, Moves

LEMMA RunsNext ==
  TypeOK /\ RetryInv /\ [Next]_vars =>
    \A c \in Cell : task[c].at # "select" /\ task'[c] # task[c] =>
      Ahead(c) \in Nat /\ Ahead(c)' \in Nat /\ Ahead(c)' < Ahead(c)
<1> SUFFICES ASSUME TypeOK, RetryInv, [Next]_vars, NEW c \in Cell,
                    task[c].at # "select", task'[c] # task[c]
             PROVE  Ahead(c) \in Nat /\ Ahead(c)' \in Nat /\ Ahead(c)' < Ahead(c)
  OBVIOUS
<1>1. Tries(c) \in Nat \ {0} /\ Tries(c)' = Tries(c) /\ task[c].retry \in Nat
  BY TriesType DEF Tries, TypeOK, Task
<1>2. Moves(c)
  BY MovesOnly
<1>3. task[c].at \in {"fetch", "write", "put"} => task[c].retry < Tries(c)
  BY DEF RetryInv
<1>4. CASE task[c].at = "fetch"
  BY <1>1, <1>2, <1>3, <1>4 DEF Moves, Ahead
<1>5. CASE task[c].at = "write"
  BY <1>1, <1>2, <1>3, <1>5 DEF Moves, Ahead
<1>6. CASE task[c].at = "put"
  BY <1>1, <1>2, <1>3, <1>6 DEF Moves, Ahead
<1>7. QED
  BY <1>2, <1>4, <1>5, <1>6 DEF Moves

\* Every run of a task is over after at most three steps per try, whatever the
\* fetches and the locks do; then the task can be cancelled.
THEOREM RunsAreShort == Spec => RunsDescend
<1>1. Init => RetryInv
  BY DEF Init, RetryInv, AtSelect
<1>2. TypeOK /\ RetryInv /\ [Next]_vars =>
        [\A c \in Cell : task[c].at # "select" /\ task'[c] # task[c] =>
           Ahead(c) \in Nat /\ Ahead(c)' \in Nat /\ Ahead(c)' < Ahead(c)]_vars
  BY RunsNext
<1>3. QED
  BY <1>1, <1>2, RetryNext, TypeCorrect, PTL DEF Spec, RunsDescend
=============================================================================
