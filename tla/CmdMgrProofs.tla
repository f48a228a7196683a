---------------------------- MODULE CmdMgrProofs ----------------------------
(***************************************************************************)
(* Proofs about CmdMgr for every number of ids, pids and timer events.     *)
(***************************************************************************)
EXTENDS CmdMgr, TLAPS, WellFoundedInduction

USE DBAssumption, CmdAssumption

(* The records a step writes are records of the right shape. *)

\* A new task is a task record.
LEMMA NewTaskType ==
  ASSUME NEW c \in Configs, NEW n \in Nat
  PROVE  NewTask(c, n) \in Task
BY DEF NewTask, Task

\* Counting a run keeps the shape of a record.
LEMMA StartedRecordType ==
  ASSUME NEW t \in Ids, NEW p \in Pids, store[t] \in Task
  PROVE  StartedRecord(t, p) \in Task
<1>1. store[t].timesExecuted + 1 \in Nat
  BY DEF Task
<1> DEFINE n == store[t].timesExecuted + 1
<1>2. [store[t] EXCEPT !.pid = p, !.timesExecuted = n, !.status = "RUNNING"] \in Task
  <2> HIDE DEF n
  <2> QED BY <1>1 DEF Task, n
<1> QED BY <1>2 DEF StartedRecord

\* So does recording an exit.
LEMMA ExitRecordType ==
  ASSUME NEW t \in Ids, NEW c \in ExitCodes, store[t] \in Task
  PROVE  ExitRecord(t, c) \in Task
BY DEF ExitRecord, Task

\* How often an id was handed out stays a number.
LEMMA NextIdType == TaskDBTypeOK /\ NextId \in Ids => born[NextId] + 1 \in Nat
BY DEF TaskDBTypeOK

(* What each operation of TaskDB does to the type of the table of tasks. *)

\* createTask, both writes done.
LEMMA CreateType ==
  ASSUME TaskDBTypeOK, NEW c \in Configs, DBCreateTask(c)
  PROVE  TaskDBTypeOK'
<1>1. NewTask(c, born[NextId] + 1) \in Task
  BY NewTaskType, NextIdType DEF DBCreateTask, ListNewId
<1> QED BY <1>1, NextIdType DEF TaskDBTypeOK, DBCreateTask, ListNewId

\* createTask, the second write lost.
LEMMA CreateTornType ==
  ASSUME TaskDBTypeOK, DBCreateTaskTorn
  PROVE  TaskDBTypeOK'
BY NextIdType DEF TaskDBTypeOK, DBCreateTaskTorn, ListNewId

\* updateTask.
LEMMA UpdateType ==
  ASSUME TaskDBTypeOK, NEW t \in Ids, NEW r \in Task, DBUpdateTask(t, r)
  PROVE  TaskDBTypeOK'
BY DEF TaskDBTypeOK, DBUpdateTask

\* getTask finds a record.
LEMMA GetType ==
  ASSUME TaskDBTypeOK, NEW t \in Ids, CanGet(t)
  PROVE  store[t] \in Task
BY DEF TaskDBTypeOK, CanGet

(* Type correctness of the steps shared by several actions. *)

MemTypeOK ==
  /\ procs \in [Pids -> Child \cup {NoProc}]
  /\ pid2RunningTask \in [Pids -> Ids \cup {0}]
  /\ taskId2RunningTask \in [Ids -> Pids \cup {NoPid}]

\* A fork adds a child.
LEMMA ForkType ==
  ASSUME TypeOK, NEW t \in Ids, NEW p \in Pids, Fork(t, p)
  PROVE  procs' \in [Pids -> Child \cup {NoProc}]
<1>1. [state |-> "alive", task |-> t, born |-> born[t], code |-> 0] \in Child
  BY DEF TypeOK, TaskDBTypeOK, Child
<1> QED BY <1>1 DEF TypeOK, Fork

\* A kill leaves every process a child or none.
LEMMA KillType ==
  ASSUME TypeOK, NEW p \in Pids, Kill(p)
  PROVE  procs' \in [Pids -> Child \cup {NoProc}]
<1>1. procs[p].state = "alive" => [procs[p] EXCEPT !.state = "killed"] \in Child
  BY DEF TypeOK, Child, NoProc
<1> QED BY <1>1 DEF TypeOK, Kill

\* startTask, however far it gets.
LEMMA DoStartType ==
  ASSUME TypeOK, NEW t \in Ids, DoStart(t)
  PROVE  TaskDBTypeOK' /\ MemTypeOK' /\ faults' \in 0 .. MaxFaults
<1>1. PICK p \in Pids : StartAs(t, p)
  BY DEF DoStart
<1>2. store[t] \in Task
  BY GetType DEF TypeOK, DoStart, CanStart
<1>3. StartedRecord(t, p) \in Task
  BY <1>2, StartedRecordType
<1>4. TaskDBTypeOK'
  <2>1. CASE DBUpdateTask(t, StartedRecord(t, p))
    BY <2>1, <1>3, UpdateType DEF TypeOK
  <2>2. CASE UNCHANGED dbVars
    BY <2>2 DEF TypeOK, TaskDBTypeOK, dbVars
  <2> QED BY <1>1, <2>1, <2>2 DEF StartAs
<1>5. MemTypeOK'
  BY <1>1, ForkType DEF StartAs, TypeOK, MemTypeOK, RunningTaskAdd
<1>6. faults' \in 0 .. MaxFaults
  BY <1>1 DEF StartAs, TypeOK, Fault
<1> QED BY <1>4, <1>5, <1>6

\* The end of the process.
LEMMA TerminateType ==
  ASSUME TypeOK, Terminate, faults' \in 0 .. MaxFaults
  PROVE  TypeOK'
BY DEF TypeOK, Terminate, TaskDBTypeOK, dbVars

\* What the SIGCHLD callback writes and schedules.
LEMMA RecordExitType ==
  ASSUME TypeOK, NEW t \in Ids, NEW c \in ExitCodes, CanGet(t), RecordExit(t, c)
  PROVE  /\ TaskDBTypeOK'
         /\ timers' \in [Evs -> Ids \cup {0}]
         /\ taskId2Event' \in [Ids -> Evs \cup {NoEv}]
<1>1. ExitRecord(t, c) \in Task
  BY GetType, ExitRecordType DEF TypeOK
<1>2. TaskDBTypeOK'
  BY <1>1, UpdateType DEF TypeOK, RecordExit
<1>3. CASE Schedule(t)
  BY <1>2, <1>3 DEF TypeOK, Schedule
<1>4. CASE UNCHANGED schedVars
  BY <1>2, <1>4 DEF TypeOK, schedVars
<1> QED BY <1>3, <1>4 DEF RecordExit

-----------------------------------------------------------------------------
(* The type invariant *)

\* The types hold at the start.
LEMMA InitType == Init => TypeOK
<1> SUFFICES ASSUME Init PROVE TypeOK
  OBVIOUS
<1>1. TaskDBTypeOK
  BY DEF Init, TaskDBInit, TaskDBTypeOK
<1>2. faults \in 0 .. MaxFaults
  BY CmdAssumption DEF Init
<1>3. up \in BOOLEAN
  BY DEF Init
<1> QED BY <1>1, <1>2, <1>3 DEF Init, TypeOK

\* Every handler keeps the types.
LEMMA NextType == TypeOK /\ [Next]_vars => TypeOK'
<1> SUFFICES ASSUME TypeOK, [Next]_vars PROVE TypeOK'
  OBVIOUS
<1>1. ASSUME NEW c \in Configs, CreateTask(c) PROVE TypeOK'
  <2>1. TaskDBTypeOK'
    BY <1>1, CreateType, CreateTornType DEF CreateTask, TypeOK
  <2>2. UNCHANGED <<tableVars, schedVars, up>> /\ faults' \in 0 .. MaxFaults
    BY <1>1 DEF CreateTask, TypeOK, Fault
  <2> QED BY <2>1, <2>2 DEF TypeOK, tableVars, schedVars
<1>2. ASSUME NEW t \in Ids, StartTask(t) PROVE TypeOK'
  <2>1. DoStart(t) /\ UNCHANGED <<schedVars, up>>
    BY <1>2 DEF StartTask
  <2> QED BY <2>1, DoStartType DEF TypeOK, MemTypeOK, schedVars
<1>3. ASSUME NEW t \in Ids, StopTask(t) PROVE TypeOK'
  <2>1. taskId2RunningTask[t] \in Pids
    BY <1>3 DEF StopTask, isTaskRunning, TypeOK
  <2>2. procs' \in [Pids -> Child \cup {NoProc}]
    BY <1>3, <2>1, KillType DEF StopTask
  <2> QED BY <1>3, <2>2 DEF StopTask, TypeOK, TaskDBTypeOK, dbVars, schedVars
<1>4. ASSUME NEW t \in Ids, DeleteTask(t) PROVE TypeOK'
  <2>1. procs' \in [Pids -> Child \cup {NoProc}]
    <3>1. CASE isTaskRunning(t)
      <4>1. taskId2RunningTask[t] \in Pids
        BY <3>1 DEF isTaskRunning, TypeOK
      <4> QED BY <1>4, <3>1, <4>1, KillType DEF DeleteTask
    <3>2. CASE ~isTaskRunning(t)
      BY <1>4, <3>2 DEF DeleteTask, TypeOK
    <3> QED BY <3>1, <3>2
  <2>2. /\ TaskDBTypeOK'
        /\ timers' \in [Evs -> Ids \cup {0}]
        /\ taskId2Event' \in [Ids -> Evs \cup {NoEv}]
        /\ faults' \in 0 .. MaxFaults
    <3>1. CASE DBDeleteTask(t) /\ SchedRemoveAndFree(t, {}) /\ UNCHANGED faults
      BY <3>1 DEF TypeOK, TaskDBTypeOK, DBDeleteTask, SchedRemoveAndFree
    <3>2. CASE UNCHANGED <<dbVars, schedVars>> /\ Fault
      BY <3>2 DEF TypeOK, TaskDBTypeOK, dbVars, schedVars, Fault
    <3> QED BY <1>4, <3>1, <3>2 DEF DeleteTask
  <2> QED BY <1>4, <2>1, <2>2 DEF DeleteTask, TypeOK
<1>5. ASSUME NEW e \in Evs, OnTimerEvent(e) PROVE TypeOK'
  <2>1. timers[e] \in Ids
    BY <1>5 DEF OnTimerEvent, TypeOK
  <2>2. TaskDBTypeOK' /\ MemTypeOK' /\ faults' \in 0 .. MaxFaults
    <3>1. CASE DoStart(timers[e])
      BY <2>1, <3>1, DoStartType
    <3>2. CASE UNCHANGED <<dbVars, tableVars>> /\ (UNCHANGED faults \/ Fault)
      BY <3>2 DEF TypeOK, TaskDBTypeOK, MemTypeOK, dbVars, tableVars, Fault
    <3> QED BY <1>5, <3>1, <3>2 DEF OnTimerEvent
  <2>3. timers' \in [Evs -> Ids \cup {0}] /\ taskId2Event' \in [Ids -> Evs \cup {NoEv}]
    BY <1>5 DEF OnTimerEvent, SchedRemoveAndFree, TypeOK
  <2> QED BY <1>5, <2>2, <2>3 DEF OnTimerEvent, TypeOK, MemTypeOK
<1>6. ASSUME NEW p \in Pids, OnSIGCHILD(p) PROVE TypeOK'
  <2>1. CASE Reap(p)
    <3>1. MemTypeOK'
      BY <2>1 DEF Reap, RunningTaskRemoveByPid, TypeOK, MemTypeOK
    <3>2. procs[p].code \in ExitCodes
      BY <1>6 DEF OnSIGCHILD, Zombie, TypeOK, Child, NoProc
    <3>3. CASE hasTask(pid2RunningTask[p])
      <4>1. pid2RunningTask[p] \in Ids /\ CanGet(pid2RunningTask[p])
        BY <2>1, <3>3 DEF Reap, CannotReap, TypeOK
      <4>2. RecordExit(pid2RunningTask[p], procs[p].code)
        BY <2>1, <3>3 DEF Reap
      <4> QED BY <2>1, <3>1, <3>2, <4>1, <4>2, RecordExitType DEF Reap, TypeOK, MemTypeOK
    <3>4. CASE ~hasTask(pid2RunningTask[p])
      BY <2>1, <3>1, <3>4 DEF Reap, TypeOK, MemTypeOK, TaskDBTypeOK, dbVars, schedVars
    <3> QED BY <3>3, <3>4
  <2>2. CASE Terminate /\ (UNCHANGED faults \/ Fault)
    BY <2>2, TerminateType DEF TypeOK, Fault
  <2> QED BY <1>6, <2>1, <2>2 DEF OnSIGCHILD
<1>7. ASSUME NEW p \in Pids, NEW c \in ExitCodes, ScriptExits(p, c) PROVE TypeOK'
  <2>1. procs[p] \in Child
    BY <1>7 DEF ScriptExits, TypeOK, NoProc
  <2>2. [procs[p] EXCEPT !.state = "exited", !.code = c] \in Child
    BY <2>1 DEF Child
  <2> QED BY <1>7, <2>2 DEF ScriptExits, TypeOK, TaskDBTypeOK, dbVars, schedVars
<1>8. CASE Die
  BY <1>8, TerminateType DEF Die, TypeOK
<1>9. CASE Restart
  BY <1>9 DEF Restart, TaskDBOpen, TypeOK, TaskDBTypeOK, tableVars, schedVars
<1>10. CASE UNCHANGED vars
  BY <1>10 DEF vars, dbVars, tableVars, schedVars, TypeOK, TaskDBTypeOK
<1> QED BY <1>1, <1>2, <1>3, <1>4, <1>5, <1>6, <1>7, <1>8, <1>9, <1>10 DEF Next

\* The variables keep their types: every record the handlers write is a task
\* record, every table maps ids, pids and events to each other.
THEOREM TypeCorrect == Spec => []TypeOK
BY InitType, NextType, PTL DEF Spec

-----------------------------------------------------------------------------
(* The id handed to a new task is not listed *)

\* A bounded set of naturals has a largest element, which is what Max chooses.
LEMMA MaxOfBounded ==
  ASSUME NEW N \in Nat, NEW S \in SUBSET (0 .. N), S # {}
  PROVE  Max(S) \in S /\ \A y \in S : Max(S) >= y
<1> DEFINE T == {n \in 0 .. N : N - n \in S}
<1>1. T \subseteq Nat /\ T # {}
  <2>1. PICK x \in S : TRUE
    OBVIOUS
  <2>2. N - x \in 0 .. N /\ N - (N - x) = x
    BY <2>1
  <2>3. N - x \in T
    BY <2>2
  <2>4. T \subseteq Nat
    OBVIOUS
  <2> QED BY <2>3, <2>4
<1>2. PICK m \in T : \A n \in T : ~(<<n, m>> \in OpToRel(<, Nat))
  <2> HIDE DEF T
  <2> QED BY <1>1, NatLessThanWellFounded, WFMin
<1>3. \A n \in T : ~(n < m)
  BY <1>1, <1>2 DEF OpToRel
<1>4. \A y \in S : N - m >= y
  <2> SUFFICES ASSUME NEW y \in S PROVE N - m >= y
    OBVIOUS
  <2>1. y \in 0 .. N /\ N - y \in 0 .. N /\ N - (N - y) = y
    OBVIOUS
  <2>2. N - y \in T
    BY <2>1
  <2>3. ~(N - y < m)
    BY <1>3, <2>2
  <2> QED BY <2>1, <2>3, m \in 0 .. N
<1>5. N - m \in S
  BY <1>2
<1> QED BY <1>4, <1>5 DEF Max

\* The id createTask hands out is not in the list.
LEMMA NextIdUnlisted == TaskDBTypeOK => ~hasTask(NextId)
<1> SUFFICES ASSUME TaskDBTypeOK PROVE NextId \notin idSet
  BY DEF hasTask
<1> DEFINE S == idSet \cup {0}
<1>1. S \in SUBSET (0 .. MaxId) /\ S # {}
  BY DEF TaskDBTypeOK, Ids
<1>2. Max(S) \in S /\ \A y \in S : Max(S) >= y
  <2> HIDE DEF S
  <2> QED BY <1>1, MaxOfBounded
<1>3. Max(S) \in 0 .. MaxId
  BY <1>1, <1>2
<1>4. \A y \in idSet : Max(S) >= y
  BY <1>2
<1> HIDE DEF S
<1>5. idSet \subseteq 0 .. MaxId
  BY DEF TaskDBTypeOK, Ids
<1>6. \A y \in idSet : y # Max(S) + 1
  BY <1>3, <1>4, <1>5
<1> QED BY <1>6 DEF NextId, S

-----------------------------------------------------------------------------
(* The inductive invariant *)

\* A process that is down has lost its children and its events.
DownIsEmpty ==
  ~up => /\ \A p \in Pids : procs[p] = NoProc
         /\ \A t \in Ids : taskId2Event[t] = NoEv

\* No process and no record was made for a future holder of an id.
BornBounded ==
  /\ \A p \in Pids : procs[p] # NoProc => procs[p].born <= born[procs[p].task]
  /\ \A t \in Ids : store[t] # NoRecord => store[t].born <= born[t]

\* A record that counts a run describes a task that can be run.
RanIsRunnable ==
  \A t \in Ids : store[t] # NoRecord /\ store[t].timesExecuted > 0 =>
    store[t].conf.scriptType \in Interpreters

\* What a step that leaves the events alone has to keep; what it does to the
\* events is MappedEventPending and PeriodicTaskArmed.
CoreInv ==
  /\ TypeOK
  /\ RunningTableMatchesChildren
  /\ DownIsEmpty
  /\ BornBounded
  /\ StatusTruthful
  /\ LiveScriptHasTask
  /\ RanIsRunnable

IndInv == CoreInv /\ MappedEventPending /\ PeriodicTaskArmed

\* Before a start the process id and the task are in neither table.
LEMMA StartIsFresh ==
  ASSUME CoreInv, NEW t \in Ids, NEW p \in Pids, CanStart(t), procs[p] = NoProc
  PROVE  /\ pid2RunningTask[p] = 0
         /\ taskId2RunningTask[t] = NoPid
         /\ \A q \in Pids : pid2RunningTask[q] # t
         /\ \A x \in Ids : taskId2RunningTask[x] # p
<1>1. pid2RunningTask[p] = 0
  BY DEF CoreInv, RunningTableMatchesChildren, NoProc
<1>2. taskId2RunningTask[t] = NoPid
  BY DEF CanStart, isTaskRunning
<1>3. 0 \notin Ids /\ p # NoPid
  BY DEF Ids
<1>4. \A q \in Pids : pid2RunningTask[q] # t
  BY <1>2, <1>3 DEF CoreInv, RunningTableMatchesChildren
<1>5. \A x \in Ids : taskId2RunningTask[x] # p
  BY <1>1, <1>3 DEF CoreInv, RunningTableMatchesChildren, isTaskRunning
<1> QED BY <1>1, <1>2, <1>4, <1>5

\* A start, by a command or a timer, keeps everything but the events in order.
LEMMA DoStartCore ==
  ASSUME CoreInv, NEW t \in Ids, up, DoStart(t), TypeOK', up' = up
  PROVE  CoreInv'
<1>1. PICK p \in Pids : StartAs(t, p)
  BY DEF DoStart
<1>2. CanStart(t) /\ hasTask(t) /\ store[t] \in Task
  BY GetType DEF DoStart, CanStart, CanGet, CoreInv, TypeOK
<1>3. procs[p] = NoProc
  BY <1>1 DEF StartAs, Fork
<1>4. /\ pid2RunningTask[p] = 0
      /\ taskId2RunningTask[t] = NoPid
      /\ \A q \in Pids : pid2RunningTask[q] # t
      /\ \A x \in Ids : taskId2RunningTask[x] # p
  BY <1>2, <1>3, StartIsFresh
<1>5. /\ procs'[p] = [state |-> "alive", task |-> t, born |-> born[t], code |-> 0]
      /\ \A q \in Pids : q # p => procs'[q] = procs[q]
  BY <1>1 DEF StartAs, Fork, CoreInv, TypeOK
<1>6. UNCHANGED <<idSet, born>>
  BY <1>1 DEF StartAs, DBUpdateTask, dbVars
<1>7. \/ /\ RunningTaskAdd(t, p)
         /\ store' = [store EXCEPT ![t] = StartedRecord(t, p)]
         /\ faults' = faults
      \/ RunningTaskAdd(t, p) /\ UNCHANGED store /\ faults' # 0
      \/ UNCHANGED <<pid2RunningTask, taskId2RunningTask, store>> /\ faults' # 0
  BY <1>1 DEF StartAs, DBUpdateTask, dbVars, Fault, CoreInv, TypeOK
<1>8. RunningTableMatchesChildren'
  <2>1. 0 \notin Ids /\ p # NoPid /\ procs'[p] # NoProc
    BY <1>5 DEF Ids, NoProc
  <2>2. CASE RunningTaskAdd(t, p)
    <3>1. /\ pid2RunningTask'[p] = t /\ taskId2RunningTask'[t] = p
          /\ \A q \in Pids : q # p => pid2RunningTask'[q] = pid2RunningTask[q]
          /\ \A x \in Ids : x # t => taskId2RunningTask'[x] = taskId2RunningTask[x]
      BY <2>2 DEF RunningTaskAdd, CoreInv, TypeOK
    <3>2. ASSUME NEW q \in Pids, pid2RunningTask'[q] # 0
          PROVE  /\ procs'[q].task = pid2RunningTask'[q]
                 /\ taskId2RunningTask'[pid2RunningTask'[q]] = q
      <4>1. CASE q = p
        BY <1>5, <3>1, <4>1
      <4>2. CASE q # p
        BY <1>4, <1>5, <3>1, <3>2, <4>2 DEF CoreInv, TypeOK, RunningTableMatchesChildren
      <4> QED BY <4>1, <4>2
    <3>3. ASSUME NEW x \in Ids, isTaskRunning(x)'
          PROVE  pid2RunningTask'[taskId2RunningTask'[x]] = x
      <4>1. CASE x = t
        BY <3>1, <4>1
      <4>2. CASE x # t
        <5>1. taskId2RunningTask[x] \in Pids \ {p} /\ isTaskRunning(x)
          BY <1>4, <3>1, <3>3, <4>2 DEF CoreInv, TypeOK, isTaskRunning
        <5> QED BY <3>1, <4>2, <5>1 DEF CoreInv, RunningTableMatchesChildren
      <4> QED BY <4>1, <4>2
    <3>4. ASSUME faults' = 0, NEW q \in Pids, procs'[q] # NoProc
          PROVE  pid2RunningTask'[q] # 0
      BY <1>5, <1>7, <2>1, <3>1, <3>4 DEF CoreInv, RunningTableMatchesChildren
    <3> QED BY <3>2, <3>3, <3>4 DEF RunningTableMatchesChildren
  <2>3. CASE UNCHANGED <<pid2RunningTask, taskId2RunningTask>> /\ faults' # 0
    BY <1>4, <1>5, <2>1, <2>3 DEF CoreInv, RunningTableMatchesChildren, isTaskRunning
  <2> QED BY <1>7, <2>2, <2>3
<1>9. /\ store'[t] = store[t] \/ store'[t] = StartedRecord(t, p)
      /\ \A x \in Ids : x # t => store'[x] = store[x]
      /\ StartedRecord(t, p) # NoRecord
      /\ StartedRecord(t, p).born = store[t].born
      /\ StartedRecord(t, p).conf = store[t].conf
      /\ StartedRecord(t, p).status = "RUNNING"
  BY <1>2, <1>7 DEF CoreInv, TypeOK, TaskDBTypeOK, StartedRecord, NoRecord, Task
<1>10. BornBounded'
  BY <1>2, <1>5, <1>6, <1>9 DEF CoreInv, TypeOK, TaskDBTypeOK, BornBounded, CanStart, CanGet
<1>11. DownIsEmpty'
  BY DEF DownIsEmpty
<1>12. LiveScriptHasTask'
  BY <1>2, <1>5, <1>6, <1>7 DEF CoreInv, LiveScriptHasTask, hasTask
<1>13. RanIsRunnable'
  BY <1>2, <1>9 DEF CoreInv, RanIsRunnable, CanStart
<1>14. StatusTruthful'
  <2> SUFFICES ASSUME NEW x \in Ids, up', hasTask(x)'
               PROVE  /\ HasOwnRecord(x)' /\ store'[x].status = "RUNNING" => RunsOwnScript(x)'
                      /\ faults' = 0 => HasOwnRecord(x)'
                                        /\ (RunsOwnScript(x)' => store'[x].status = "RUNNING")
    BY DEF StatusTruthful
  <2>1. /\ HasOwnRecord(x) /\ store[x].status = "RUNNING" => RunsOwnScript(x)
        /\ faults = 0 => HasOwnRecord(x) /\ (RunsOwnScript(x) => store[x].status = "RUNNING")
    BY <1>6 DEF CoreInv, StatusTruthful, hasTask
  <2>2. CASE x = t
    <3>1. p # NoPid
      OBVIOUS
    <3>2. HasOwnRecord(x)' = HasOwnRecord(x)
      BY <1>2, <1>6, <1>9, <2>2 DEF HasOwnRecord, CanStart, CanGet
    <3>3. CASE RunningTaskAdd(t, p)
      <4>1. RunsOwnScript(x)'
        BY <1>5, <1>6, <2>2, <3>1, <3>3
           DEF RunsOwnScript, isTaskRunning, RunningTaskAdd, CoreInv, TypeOK
      <4>2. faults' = 0 => faults = 0 /\ store'[t] = StartedRecord(t, p)
        BY <1>7 DEF CoreInv, TypeOK, TaskDBTypeOK
      <4> QED BY <1>9, <2>1, <2>2, <3>2, <4>1, <4>2
    <3>4. CASE UNCHANGED <<pid2RunningTask, taskId2RunningTask, store>> /\ faults' # 0
      <4>1. ~RunsOwnScript(x)
        BY <1>4, <2>2 DEF RunsOwnScript, isTaskRunning
      <4> QED BY <2>1, <3>2, <3>4, <4>1
    <3> QED BY <1>7, <3>3, <3>4
  <2>3. CASE x # t
    <3>1. taskId2RunningTask'[x] = taskId2RunningTask[x] /\ store'[x] = store[x]
      BY <1>7, <1>9, <2>3 DEF RunningTaskAdd, CoreInv, TypeOK
    <3>2. taskId2RunningTask[x] # p /\ taskId2RunningTask[x] \in Pids \cup {NoPid}
      BY <1>4 DEF CoreInv, TypeOK
    <3>3. HasOwnRecord(x)' = HasOwnRecord(x)
      BY <1>6, <3>1 DEF HasOwnRecord
    <3>4. RunsOwnScript(x)' = RunsOwnScript(x)
      BY <1>5, <1>6, <3>1, <3>2 DEF RunsOwnScript, isTaskRunning
    <3>5. faults' = 0 => faults = 0
      BY <1>7
    <3> QED BY <2>1, <3>1, <3>3, <3>4, <3>5
  <2> QED BY <2>2, <2>3
<1> QED BY <1>8, <1>10, <1>11, <1>12, <1>13, <1>14 DEF CoreInv

\* Steps of startTask: what PeriodicTaskArmed needs to know of them.
LEMMA DoStartDue ==
  ASSUME CoreInv, NEW t \in Ids, up, DoStart(t), up' = up
  PROVE  /\ idSet' = idSet
         /\ \A x \in Ids : DueAgain(x)' => x # t /\ DueAgain(x)
<1>1. PICK p \in Pids : StartAs(t, p)
  BY DEF DoStart
<1>2. p # NoPid
  OBVIOUS
<1>3. idSet' = idSet
  BY <1>1 DEF StartAs, DBUpdateTask, dbVars
<1>4. ASSUME NEW x \in Ids, DueAgain(x)'
      PROVE  x # t /\ DueAgain(x)
  <2>1. faults' = 0 /\ faults \in Nat
    BY <1>4 DEF DueAgain, CoreInv, TypeOK
  <2>2. faults = 0 /\ RunningTaskAdd(t, p) /\ store' = [store EXCEPT ![t] = StartedRecord(t, p)]
    BY <1>1, <2>1 DEF StartAs, DBUpdateTask, Fault
  <2>3. x # t
    BY <1>2, <1>4, <2>2 DEF DueAgain, isTaskRunning, RunningTaskAdd, CoreInv, TypeOK
  <2>4. taskId2RunningTask'[x] = taskId2RunningTask[x] /\ store'[x] = store[x]
    BY <2>2, <2>3 DEF RunningTaskAdd, CoreInv, TypeOK, TaskDBTypeOK
  <2> QED BY <1>3, <1>4, <2>2, <2>3, <2>4 DEF DueAgain, isTaskRunning, hasTask, RunsAgain
<1> QED BY <1>3, <1>4

\* The START_TASK command keeps the inductive invariant.
LEMMA StartStep ==
  ASSUME IndInv, TypeOK', NEW t \in Ids, StartTask(t)
  PROVE  IndInv'
<1>1. up /\ DoStart(t) /\ UNCHANGED <<timers, taskId2Event>> /\ up' = up
  BY DEF StartTask, schedVars
<1>2. CoreInv'
  BY <1>1, DoStartCore DEF IndInv
<1>3. idSet' = idSet /\ \A x \in Ids : DueAgain(x)' => DueAgain(x)
  BY <1>1, DoStartDue DEF IndInv
<1>4. MappedEventPending'
  BY <1>1, <1>3 DEF IndInv, MappedEventPending, hasTask
<1>5. PeriodicTaskArmed'
  BY <1>1, <1>3 DEF IndInv, PeriodicTaskArmed
<1> QED BY <1>2, <1>4, <1>5 DEF IndInv

\* After ScheduledTaskHelper::remove every other task keeps its event.
LEMMA SchedRemoveStep ==
  ASSUME IndInv, NEW t \in Ids, NEW S \in SUBSET {e \in Evs : timers[e] = t},
         SchedRemoveAndFree(t, S)
  PROVE  /\ taskId2Event'[t] = NoEv
         /\ \A x \in Ids : x # t => taskId2Event'[x] = taskId2Event[x]
         /\ \A e \in Evs : timers[e] # t => timers'[e] = timers[e]
<1>1. taskId2Event[t] # NoEv => timers[taskId2Event[t]] = t
  BY DEF IndInv, MappedEventPending
<1>2. \A e \in Evs : e = taskId2Event[t] => timers[e] = t
  BY <1>1
<1> QED BY <1>2 DEF SchedRemoveAndFree, IndInv, CoreInv, TypeOK

\* Freeing the mapped event of one task leaves those of the others pending.
LEMMA SchedRemoveMapped ==
  ASSUME IndInv, NEW t \in Ids, NEW S \in SUBSET {e \in Evs : timers[e] = t},
         SchedRemoveAndFree(t, S), \A x \in Ids : x # t /\ hasTask(x) => hasTask(x)'
  PROVE  MappedEventPending'
<1> SUFFICES ASSUME NEW x \in Ids, taskId2Event'[x] # NoEv
             PROVE  timers'[taskId2Event'[x]] = x /\ hasTask(x)'
  BY DEF MappedEventPending
<1>1. x # t /\ taskId2Event'[x] = taskId2Event[x]
  BY SchedRemoveStep
<1>2. timers[taskId2Event[x]] = x /\ hasTask(x) /\ taskId2Event[x] \in Evs
  BY <1>1 DEF IndInv, CoreInv, TypeOK, MappedEventPending
<1> QED BY <1>1, <1>2, SchedRemoveStep

\* The timer callback keeps the inductive invariant.
LEMMA TimerStep ==
  ASSUME IndInv, TypeOK', NEW e \in Evs, OnTimerEvent(e)
  PROVE  IndInv'
<1> DEFINE t == timers[e]
<1>1. t \in Ids /\ up /\ up' = up /\ SchedRemoveAndFree(t, {e})
  BY DEF OnTimerEvent, IndInv, CoreInv, TypeOK
<1>2. {e} \in SUBSET {f \in Evs : timers[f] = t}
  OBVIOUS
<1>3. \/ DoStart(t)
      \/ ~CanStart(t) /\ UNCHANGED <<dbVars, tableVars, faults>>
      \/ UNCHANGED <<dbVars, tableVars>> /\ Fault
  BY DEF OnTimerEvent
<1> HIDE DEF t
<1>4. CoreInv'
  <2>1. CASE DoStart(t)
    BY <1>1, <2>1, DoStartCore DEF IndInv
  <2>2. CASE UNCHANGED <<dbVars, tableVars>> /\ (UNCHANGED faults \/ Fault)
    <3>1. faults' = 0 => faults = 0
      BY <2>2 DEF Fault, IndInv, CoreInv, TypeOK
    <3> QED BY <1>1, <2>2, <3>1
            DEF IndInv, CoreInv, dbVars, tableVars, RunningTableMatchesChildren, DownIsEmpty,
                BornBounded, StatusTruthful, LiveScriptHasTask, RanIsRunnable, hasTask,
                HasOwnRecord, RunsOwnScript, isTaskRunning
  <2> QED BY <1>3, <2>1, <2>2
<1>5. idSet' = idSet
  BY <1>1, <1>3, DoStartDue DEF dbVars, IndInv
<1>6. MappedEventPending'
  BY <1>1, <1>2, <1>5, SchedRemoveMapped DEF hasTask
<1>7. \A x \in Ids : DueAgain(x)' => x # t /\ DueAgain(x)
  <2>1. CASE DoStart(t)
    BY <1>1, <2>1, DoStartDue DEF IndInv
  <2>2. CASE ~CanStart(t) /\ UNCHANGED <<dbVars, tableVars, faults>>
    <3>1. \A x \in Ids : DueAgain(x)' => DueAgain(x)
      BY <1>1, <2>2 DEF dbVars, tableVars, DueAgain, hasTask, isTaskRunning, RunsAgain
    <3>2. DueAgain(t) => HasOwnRecord(t)
      BY <1>1 DEF DueAgain, IndInv, CoreInv, StatusTruthful
    <3>3. DueAgain(t) => CanStart(t)
      BY <1>1, <3>2 DEF DueAgain, CanStart, CanGet, HasOwnRecord, IndInv, CoreInv, RanIsRunnable
    <3> QED BY <2>2, <3>1, <3>3
  <2>3. CASE Fault
    BY <2>3 DEF Fault, DueAgain, IndInv, CoreInv, TypeOK
  <2> QED BY <1>3, <2>1, <2>2, <2>3
<1>8. PeriodicTaskArmed'
  BY <1>1, <1>2, <1>7, SchedRemoveStep DEF IndInv, PeriodicTaskArmed
<1> QED BY <1>4, <1>6, <1>8 DEF IndInv

\* The CREATE_TASK command keeps the inductive invariant.
LEMMA CreateStep ==
  ASSUME IndInv, TypeOK', NEW c \in Configs, CreateTask(c)
  PROVE  IndInv'
<1> DEFINE n == NextId
<1>1. /\ UNCHANGED <<procs, pid2RunningTask, taskId2RunningTask, timers, taskId2Event, up>>
      /\ faults' = 0 => faults = 0
      /\ up
  BY DEF CreateTask, tableVars, schedVars, Fault, IndInv, CoreInv, TypeOK
<1>2. /\ n \in Ids /\ ~hasTask(n)
      /\ idSet' = idSet \cup {n}
      /\ born' = [born EXCEPT ![n] = @ + 1]
      /\ born[n] \in Nat
      /\ \/ store' = [store EXCEPT ![n] = NewTask(c, born[n] + 1)]
         \/ store' = store /\ faults' # 0
  BY NextIdUnlisted
     DEF CreateTask, DBCreateTask, DBCreateTaskTorn, ListNewId, Fault, IndInv, CoreInv, TypeOK,
         TaskDBTypeOK
<1> HIDE DEF n
<1>3. /\ born'[n] = born[n] + 1
      /\ \A x \in Ids : x # n => born'[x] = born[x] /\ store'[x] = store[x]
      /\ \A x \in Ids : x # n => (hasTask(x)' <=> hasTask(x))
      /\ \A x \in Ids : hasTask(x) => hasTask(x)'
      /\ \A x \in Ids : born[x] \in Nat /\ born'[x] \in Nat /\ born[x] <= born'[x]
      /\ store'[n] = NewTask(c, born[n] + 1) \/ (store'[n] = store[n] /\ faults' # 0)
  BY <1>2 DEF IndInv, CoreInv, TypeOK, TaskDBTypeOK, hasTask
<1>4. \A p \in Pids : procs[p] # NoProc => procs[p].task \in Ids /\ procs[p].born \in Nat
  BY DEF IndInv, CoreInv, TypeOK, Child
<1>5. NewTask(c, born[n] + 1) # NoRecord
      /\ NewTask(c, born[n] + 1).born = born[n] + 1
      /\ NewTask(c, born[n] + 1).status = "IDLE"
      /\ NewTask(c, born[n] + 1).timesExecuted = 0
  BY DEF NewTask, NoRecord
<1>6. \A x \in Ids : store[x] # NoRecord => store[x].born \in Nat /\ store[x].born <= born[x]
  BY DEF IndInv, CoreInv, TypeOK, TaskDBTypeOK, Task, BornBounded
<1>7. RunningTableMatchesChildren' /\ DownIsEmpty'
  BY <1>1 DEF IndInv, CoreInv, RunningTableMatchesChildren, DownIsEmpty, isTaskRunning
<1>8. BornBounded'
  <2>1. ASSUME NEW p \in Pids, procs'[p] # NoProc PROVE procs'[p].born <= born'[procs'[p].task]
    <3>1. procs[p].born <= born[procs[p].task] /\ procs[p].task \in Ids /\ procs[p].born \in Nat
      BY <1>1, <1>4, <2>1 DEF IndInv, CoreInv, BornBounded
    <3> QED BY <1>1, <1>3, <3>1
  <2>2. ASSUME NEW x \in Ids, store'[x] # NoRecord PROVE store'[x].born <= born'[x]
    <3>1. CASE x = n
      BY <1>2, <1>3, <1>5, <1>6, <2>2, <3>1
    <3>2. CASE x # n
      BY <1>3, <1>6, <2>2, <3>2
    <3> QED BY <3>1, <3>2
  <2> QED BY <2>1, <2>2 DEF BornBounded
<1>9. ASSUME NEW p \in Pids, procs[p] # NoProc PROVE procs[p].born # born'[n] \/ procs[p].task # n
  BY <1>2, <1>3, <1>4, <1>9 DEF IndInv, CoreInv, BornBounded
<1>10. StatusTruthful'
  <2> SUFFICES ASSUME NEW x \in Ids, hasTask(x)'
               PROVE  /\ HasOwnRecord(x)' /\ store'[x].status = "RUNNING" => RunsOwnScript(x)'
                      /\ faults' = 0 => HasOwnRecord(x)'
                                        /\ (RunsOwnScript(x)' => store'[x].status = "RUNNING")
    BY DEF StatusTruthful
  <2>1. CASE x = n
    <3>1. ~RunsOwnScript(x)'
      <4> SUFFICES ASSUME taskId2RunningTask[n] # NoPid
                   PROVE  procs[taskId2RunningTask[n]].born # born'[n]
        BY <1>1, <2>1 DEF RunsOwnScript, isTaskRunning
      <4> DEFINE q == taskId2RunningTask[n]
      <4>1. q \in Pids /\ pid2RunningTask[q] = n /\ n # 0
        BY <1>2 DEF IndInv, CoreInv, TypeOK, RunningTableMatchesChildren, isTaskRunning, Ids
      <4>2. procs[q].task = n /\ procs[q] # NoProc
        BY <4>1 DEF IndInv, CoreInv, RunningTableMatchesChildren, NoProc
      <4> QED BY <1>9, <4>1, <4>2
    <3>2. ~(HasOwnRecord(x)' /\ store'[x].status = "RUNNING")
      <4>1. CASE store'[n] = store[n]
        BY <1>2, <1>3, <1>6, <2>1, <4>1 DEF HasOwnRecord
      <4> QED BY <1>3, <1>5, <2>1, <4>1
    <3>3. faults' = 0 => HasOwnRecord(x)'
      BY <1>3, <1>5, <2>1 DEF HasOwnRecord
    <3> QED BY <3>1, <3>2, <3>3
  <2>2. CASE x # n
    <3>1. hasTask(x) /\ HasOwnRecord(x)' = HasOwnRecord(x) /\ RunsOwnScript(x)' = RunsOwnScript(x)
      BY <1>1, <1>3, <2>2 DEF HasOwnRecord, RunsOwnScript, isTaskRunning
    <3> QED BY <1>1, <1>3, <2>2, <3>1 DEF IndInv, CoreInv, StatusTruthful
  <2> QED BY <2>1, <2>2
<1>11. LiveScriptHasTask'
  <2> SUFFICES ASSUME faults' = 0, NEW p \in Pids, procs[p].state = "alive"
               PROVE  hasTask(procs[p].task)' /\ procs[p].born = born'[procs[p].task]
    BY <1>1 DEF LiveScriptHasTask
  <2>1. hasTask(procs[p].task) /\ procs[p].born = born[procs[p].task]
    BY <1>1 DEF IndInv, CoreInv, LiveScriptHasTask
  <2>2. procs[p].task # n
    BY <1>2, <2>1
  <2>3. procs[p].task \in Ids
    BY <1>4 DEF NoProc
  <2> QED BY <1>1, <1>3, <2>1, <2>2, <2>3
<1>12. RanIsRunnable'
  BY <1>3, <1>5 DEF IndInv, CoreInv, RanIsRunnable
<1>13. MappedEventPending'
  BY <1>1, <1>3 DEF IndInv, MappedEventPending
<1>14. PeriodicTaskArmed'
  <2> SUFFICES ASSUME NEW x \in Ids, DueAgain(x)' PROVE DueAgain(x)
    BY <1>1 DEF IndInv, PeriodicTaskArmed
  <2>1. faults' = 0 /\ hasTask(x)' /\ ~isTaskRunning(x)' /\ store'[x].timesExecuted > 0
        /\ RunsAgain(store'[x])
    BY DEF DueAgain, RunsAgain
  <2>2. x # n
    BY <1>3, <1>5, <2>1
  <2> QED BY <1>1, <1>3, <2>1, <2>2 DEF DueAgain, isTaskRunning
<1> QED BY <1>7, <1>8, <1>10, <1>11, <1>12, <1>13, <1>14 DEF IndInv, CoreInv

\* A pid that is no child is in no state a child can be in.
LEMMA NoProcState == NoProc.state = "none"
BY DEF NoProc

\* A kill or an exit changes the state of a child, nothing else about it.
LEMMA ScriptEnded ==
  ASSUME IndInv, NEW p \in Pids,
         \/ Kill(p)
         \/ \E c \in ExitCodes : procs[p].state = "alive"
              /\ procs' = [procs EXCEPT ![p] = [@ EXCEPT !.state = "exited", !.code = c]]
  PROVE  \A q \in Pids :
           /\ procs'[q].task = procs[q].task
           /\ procs'[q].born = procs[q].born
           /\ procs'[q] = NoProc <=> procs[q] = NoProc
           /\ procs'[q].state = "alive" => procs[q].state = "alive" /\ q # p
<1> SUFFICES ASSUME NEW q \in Pids
             PROVE  /\ procs'[q].task = procs[q].task
                    /\ procs'[q].born = procs[q].born
                    /\ procs'[q] = NoProc <=> procs[q] = NoProc
                    /\ procs'[q].state = "alive" => procs[q].state = "alive" /\ q # p
  OBVIOUS
<1>1. procs \in [Pids -> Child \cup {NoProc}]
  BY DEF IndInv, CoreInv, TypeOK
<1>2. CASE q # p
  BY <1>1, <1>2 DEF Kill
<1>3. CASE q = p /\ procs[p].state # "alive"
  BY <1>1, <1>3 DEF Kill
<1>4. CASE q = p /\ procs[p].state = "alive"
  <2>1. procs[p] \in Child
    <3>1. procs[p] # NoProc
      BY <1>4, NoProcState
    <3> QED BY <1>1, <3>1
  <2>2. \/ procs'[p] = [procs[p] EXCEPT !.state = "killed"]
        \/ \E c \in ExitCodes : procs'[p] = [procs[p] EXCEPT !.state = "exited", !.code = c]
    BY <1>1, <1>4 DEF Kill
  <2>3. procs'[p].task = procs[p].task /\ procs'[p].born = procs[p].born
        /\ procs'[p].state \in {"exited", "killed"} /\ procs[p].state = "alive"
    BY <1>4, <2>1, <2>2 DEF Child
  <2>4. procs'[p] # NoProc /\ procs[p] # NoProc
    BY <2>3, NoProcState
  <2>5. procs'[p].state # "alive"
    BY <2>3
  <2> QED BY <1>4, <2>3, <2>4, <2>5
<1> QED BY <1>2, <1>3, <1>4

\* A step that only ends scripts keeps everything but the events in order.
LEMMA ScriptEndsStep ==
  ASSUME IndInv, TypeOK', up' = up,
         UNCHANGED <<pid2RunningTask, taskId2RunningTask>>,
         \A x \in Ids : store'[x] = store[x] /\ born'[x] = born[x]
                        /\ (hasTask(x)' => hasTask(x)),
         faults' = 0 => faults = 0,
         \A q \in Pids : /\ procs'[q].task = procs[q].task
                         /\ procs'[q].born = procs[q].born
                         /\ procs'[q] = NoProc <=> procs[q] = NoProc,
         ~up => UNCHANGED taskId2Event,
         LiveScriptHasTask'
  PROVE  CoreInv'
<1>1. \A q \in Pids : procs[q] # NoProc => procs[q].task \in Ids
  BY DEF IndInv, CoreInv, TypeOK, Child
<1>2. RunningTableMatchesChildren'
  BY DEF IndInv, CoreInv, RunningTableMatchesChildren, isTaskRunning
<1>3. DownIsEmpty'
  BY DEF IndInv, CoreInv, DownIsEmpty
<1>4. BornBounded'
  BY <1>1 DEF IndInv, CoreInv, BornBounded
<1>5. RanIsRunnable'
  BY DEF IndInv, CoreInv, RanIsRunnable
<1>6. \A x \in Ids : HasOwnRecord(x)' = HasOwnRecord(x) /\ RunsOwnScript(x)' = RunsOwnScript(x)
  BY DEF HasOwnRecord, RunsOwnScript, isTaskRunning, IndInv, CoreInv, TypeOK
<1>7. StatusTruthful'
  BY <1>6 DEF IndInv, CoreInv, StatusTruthful
<1> QED BY <1>2, <1>3, <1>4, <1>5, <1>7 DEF CoreInv

\* The STOP_TASK command keeps the inductive invariant.
LEMMA StopStep ==
  ASSUME IndInv, TypeOK', NEW t \in Ids, StopTask(t)
  PROVE  IndInv'
<1>1. taskId2RunningTask[t] \in Pids
  BY DEF StopTask, isTaskRunning, IndInv, CoreInv, TypeOK
<1>2. /\ Kill(taskId2RunningTask[t])
      /\ UNCHANGED <<idSet, store, born, pid2RunningTask, taskId2RunningTask, timers,
                     taskId2Event, up, faults>>
  BY DEF StopTask, dbVars, schedVars
<1>3. \A q \in Pids :
         /\ procs'[q].task = procs[q].task
         /\ procs'[q].born = procs[q].born
         /\ procs'[q] = NoProc <=> procs[q] = NoProc
         /\ procs'[q].state = "alive" => procs[q].state = "alive"
  BY <1>1, <1>2, ScriptEnded
<1>4. LiveScriptHasTask'
  BY <1>2, <1>3 DEF IndInv, CoreInv, LiveScriptHasTask, hasTask
<1>5. CoreInv'
  BY <1>2, <1>3, <1>4, ScriptEndsStep DEF hasTask
<1>6. MappedEventPending' /\ PeriodicTaskArmed'
  BY <1>2 DEF IndInv, MappedEventPending, PeriodicTaskArmed, DueAgain, hasTask, isTaskRunning,
              RunsAgain
<1> QED BY <1>5, <1>6 DEF IndInv

\* The exit of a script keeps the inductive invariant.
LEMMA ScriptExitsStep ==
  ASSUME IndInv, TypeOK', NEW p \in Pids, NEW c \in ExitCodes, ScriptExits(p, c)
  PROVE  IndInv'
<1>1. UNCHANGED <<idSet, store, born, pid2RunningTask, taskId2RunningTask, timers,
                  taskId2Event, up, faults>>
  BY DEF ScriptExits, dbVars, schedVars
<1>2. \A q \in Pids :
         /\ procs'[q].task = procs[q].task
         /\ procs'[q].born = procs[q].born
         /\ procs'[q] = NoProc <=> procs[q] = NoProc
         /\ procs'[q].state = "alive" => procs[q].state = "alive"
  BY ScriptEnded DEF ScriptExits
<1>3. LiveScriptHasTask'
  BY <1>1, <1>2 DEF IndInv, CoreInv, LiveScriptHasTask, hasTask
<1>4. CoreInv'
  BY <1>1, <1>2, <1>3, ScriptEndsStep DEF hasTask
<1>5. MappedEventPending' /\ PeriodicTaskArmed'
  BY <1>1 DEF IndInv, MappedEventPending, PeriodicTaskArmed, DueAgain, hasTask, isTaskRunning,
              RunsAgain
<1> QED BY <1>4, <1>5 DEF IndInv

\* The DELETE_TASK command keeps the inductive invariant.
LEMMA DeleteStep ==
  ASSUME IndInv, TypeOK', NEW t \in Ids, DeleteTask(t)
  PROVE  IndInv'
<1>1. /\ UNCHANGED <<store, born, pid2RunningTask, taskId2RunningTask, up>>
      /\ up
      /\ faults' = 0 => faults = 0
      /\ \/ idSet' = idSet \ {t} /\ SchedRemoveAndFree(t, {})
         \/ UNCHANGED <<idSet, timers, taskId2Event>> /\ faults' # 0
  BY DEF DeleteTask, DBDeleteTask, dbVars, schedVars, Fault, IndInv, CoreInv, TypeOK
<1>2. \A q \in Pids :
         /\ procs'[q].task = procs[q].task
         /\ procs'[q].born = procs[q].born
         /\ procs'[q] = NoProc <=> procs[q] = NoProc
         /\ procs'[q].state = "alive" => procs[q].state = "alive" /\ q # taskId2RunningTask[t]
  <2>1. CASE isTaskRunning(t)
    <3>1. taskId2RunningTask[t] \in Pids
      BY <2>1 DEF isTaskRunning, IndInv, CoreInv, TypeOK
    <3> QED BY <2>1, <3>1, ScriptEnded DEF DeleteTask
  <2>2. CASE ~isTaskRunning(t)
    BY <2>2 DEF DeleteTask, isTaskRunning
  <2> QED BY <2>1, <2>2
<1>3. LiveScriptHasTask'
  <2> SUFFICES ASSUME faults' = 0, NEW q \in Pids, procs'[q].state = "alive"
               PROVE  procs'[q].task \in idSet' /\ procs'[q].born = born'[procs'[q].task]
    BY DEF LiveScriptHasTask, hasTask
  <2>1. procs[q].state = "alive" /\ faults = 0 /\ procs[q] # NoProc
    BY <1>1, <1>2 DEF NoProc
  <2>2. procs[q].task \in idSet /\ procs[q].born = born[procs[q].task]
    BY <2>1 DEF IndInv, CoreInv, LiveScriptHasTask, hasTask
  <2>3. taskId2RunningTask[procs[q].task] = q
    BY <2>1 DEF IndInv, CoreInv, RunningTableMatchesChildren
  <2>4. procs[q].task # t
    BY <1>2, <2>3
  <2> QED BY <1>1, <1>2, <2>2, <2>4
<1>4. \A x \in Ids : /\ hasTask(x)' => hasTask(x)
                     /\ x # t /\ hasTask(x) => hasTask(x)'
  BY <1>1 DEF hasTask
<1>5. CoreInv'
  BY <1>1, <1>2, <1>3, <1>4, ScriptEndsStep
<1>6. MappedEventPending'
  <2>1. CASE SchedRemoveAndFree(t, {})
    BY <1>4, <2>1, SchedRemoveMapped
  <2>2. CASE UNCHANGED <<idSet, timers, taskId2Event>>
    BY <2>2 DEF IndInv, MappedEventPending, hasTask
  <2> QED BY <1>1, <2>1, <2>2
<1>7. PeriodicTaskArmed'
  <2> SUFFICES ASSUME NEW x \in Ids, DueAgain(x)' PROVE \E e \in Evs : timers'[e] = x
    BY DEF PeriodicTaskArmed
  <2>1. faults' = 0 /\ hasTask(x)' /\ ~isTaskRunning(x)' /\ store'[x].timesExecuted > 0
        /\ RunsAgain(store'[x])
    BY DEF DueAgain, RunsAgain
  <2>2. idSet' = idSet \ {t} /\ SchedRemoveAndFree(t, {}) /\ x # t
    BY <1>1, <2>1 DEF hasTask
  <2>3. DueAgain(x)
    BY <1>1, <1>4, <2>1 DEF DueAgain, isTaskRunning
  <2>4. PICK e \in Evs : timers[e] = x
    BY <2>3 DEF IndInv, PeriodicTaskArmed
  <2> QED BY <2>2, <2>4, SchedRemoveStep
<1> QED BY <1>5, <1>6, <1>7 DEF IndInv

\* The process ends: nothing is left that could contradict anything.
LEMMA TerminateStep ==
  ASSUME IndInv, TypeOK', Terminate
  PROVE  IndInv'
<1>1. /\ \A p \in Pids : procs'[p] = NoProc /\ pid2RunningTask'[p] = 0
      /\ \A t \in Ids : taskId2RunningTask'[t] = NoPid /\ taskId2Event'[t] = NoEv
      /\ ~up'
      /\ UNCHANGED <<store, born>>
  BY DEF Terminate, dbVars
<1>2. \A p \in Pids : procs'[p].state # "alive"
  BY <1>1, NoProcState
<1>3. RunningTableMatchesChildren' /\ DownIsEmpty' /\ StatusTruthful' /\ LiveScriptHasTask'
  BY <1>1, <1>2 DEF RunningTableMatchesChildren, DownIsEmpty, StatusTruthful, LiveScriptHasTask,
                    isTaskRunning
<1>4. BornBounded' /\ RanIsRunnable'
  BY <1>1 DEF IndInv, CoreInv, BornBounded, RanIsRunnable
<1>5. MappedEventPending' /\ PeriodicTaskArmed'
  BY <1>1 DEF MappedEventPending, PeriodicTaskArmed, DueAgain
<1> QED BY <1>3, <1>4, <1>5 DEF IndInv, CoreInv

\* A restart keeps the inductive invariant.
LEMMA RestartStep ==
  ASSUME IndInv, TypeOK', Restart
  PROVE  IndInv'
<1>1. /\ ~up /\ idSet' = {}
      /\ UNCHANGED <<store, born, procs, pid2RunningTask, taskId2RunningTask, timers,
                     taskId2Event, faults>>
  BY DEF Restart, TaskDBOpen, tableVars, schedVars
<1>2. \A p \in Pids : procs'[p] = NoProc /\ procs'[p].state # "alive"
  BY <1>1, NoProcState DEF IndInv, CoreInv, DownIsEmpty
<1>3. \A t \in Ids : ~hasTask(t)' /\ taskId2Event'[t] = NoEv
  BY <1>1 DEF IndInv, CoreInv, DownIsEmpty, hasTask
<1>4. RunningTableMatchesChildren' /\ BornBounded' /\ RanIsRunnable'
  BY <1>1 DEF IndInv, CoreInv, RunningTableMatchesChildren, BornBounded, RanIsRunnable,
              isTaskRunning
<1>5. DownIsEmpty' /\ LiveScriptHasTask'
  BY <1>2, <1>3 DEF DownIsEmpty, LiveScriptHasTask
<1>6. StatusTruthful' /\ MappedEventPending' /\ PeriodicTaskArmed'
  BY <1>3 DEF StatusTruthful, MappedEventPending, PeriodicTaskArmed, DueAgain
<1> QED BY <1>4, <1>5, <1>6 DEF IndInv, CoreInv

\* Reaping a script keeps the inductive invariant.
LEMMA ReapStep ==
  ASSUME IndInv, TypeOK', NEW p \in Pids, up, Zombie(p), Reap(p)
  PROVE  IndInv'
<1> DEFINE t == pid2RunningTask[p]
<1>1. /\ t \in Ids
      /\ procs[p].task = t
      /\ taskId2RunningTask[t] = p
  BY DEF Reap, CannotReap, IndInv, CoreInv, TypeOK, RunningTableMatchesChildren
<1>2. /\ procs' = [procs EXCEPT ![p] = NoProc]
      /\ taskId2RunningTask' = [taskId2RunningTask EXCEPT ![t] = NoPid]
      /\ pid2RunningTask' = [pid2RunningTask EXCEPT ![p] = 0]
      /\ up' = up /\ faults' = faults
      /\ hasTask(t) => CanGet(t) /\ RecordExit(t, procs[p].code)
      /\ ~hasTask(t) => UNCHANGED <<idSet, store, born, timers, taskId2Event>>
  BY DEF Reap, CannotReap, RunningTaskRemoveByPid, dbVars, schedVars
<1> HIDE DEF t
<1>3. /\ procs'[p] = NoProc
      /\ \A q \in Pids : q # p => procs'[q] = procs[q] /\ pid2RunningTask'[q] = pid2RunningTask[q]
      /\ pid2RunningTask'[p] = 0
      /\ taskId2RunningTask'[t] = NoPid
      /\ \A x \in Ids : x # t => taskId2RunningTask'[x] = taskId2RunningTask[x]
  BY <1>1, <1>2 DEF IndInv, CoreInv, TypeOK
<1>4. hasTask(t) => store[t] \in Task
  BY <1>1, <1>2, GetType DEF IndInv, CoreInv, TypeOK
<1>5. /\ UNCHANGED <<idSet, born>>
      /\ \A x \in Ids : x # t => store'[x] = store[x]
      /\ hasTask(t) => store' = [store EXCEPT ![t] = ExitRecord(t, procs[p].code)]
      /\ ~hasTask(t) => store' = store
  BY <1>1, <1>2 DEF RecordExit, DBUpdateTask, IndInv, CoreInv, TypeOK, TaskDBTypeOK
<1>6. hasTask(t) => /\ store'[t] # NoRecord
                    /\ store[t] # NoRecord
                    /\ store'[t].born = store[t].born
                    /\ store'[t].conf = store[t].conf
                    /\ store'[t].timesExecuted = store[t].timesExecuted
                    /\ store'[t].status = "IDLE"
  <2> SUFFICES ASSUME hasTask(t) PROVE <1>6!2
    OBVIOUS
  <2>1. store'[t] = ExitRecord(t, procs[p].code) /\ store[t] \in Task /\ store[t] # NoRecord
    BY <1>1, <1>2, <1>4, <1>5 DEF IndInv, CoreInv, TypeOK, TaskDBTypeOK, CanGet
  <2>2. store'[t] # NoRecord
    <3>1. ExitRecord(t, procs[p].code).status = "IDLE"
      BY <2>1 DEF ExitRecord, Task
    <3>2. NoRecord.status = "NONE"
      BY DEF NoRecord
    <3> QED BY <2>1, <3>1, <3>2
  <2> QED BY <2>1, <2>2 DEF ExitRecord, Task
<1>7. RunningTableMatchesChildren'
  <2>1. 0 \notin Ids
    BY DEF Ids
  <2>2. ASSUME NEW q \in Pids, pid2RunningTask'[q] # 0
        PROVE  /\ procs'[q].task = pid2RunningTask'[q]
               /\ taskId2RunningTask'[pid2RunningTask'[q]] = q
    <3>1. q # p /\ pid2RunningTask'[q] = pid2RunningTask[q] /\ pid2RunningTask[q] \in Ids
      BY <1>3, <2>2 DEF IndInv, CoreInv, TypeOK
    <3>2. procs[q].task = pid2RunningTask[q] /\ taskId2RunningTask[pid2RunningTask[q]] = q
      BY <2>2, <3>1 DEF IndInv, CoreInv, RunningTableMatchesChildren
    <3>3. pid2RunningTask[q] # t
      BY <1>1, <3>1, <3>2
    <3> QED BY <1>3, <3>1, <3>2, <3>3
  <2>3. ASSUME NEW x \in Ids, isTaskRunning(x)'
        PROVE  pid2RunningTask'[taskId2RunningTask'[x]] = x
    <3>1. x # t /\ taskId2RunningTask'[x] = taskId2RunningTask[x] /\ taskId2RunningTask[x] \in Pids
      BY <1>3, <2>3 DEF isTaskRunning, IndInv, CoreInv, TypeOK
    <3>2. pid2RunningTask[taskId2RunningTask[x]] = x
      BY <2>3, <3>1 DEF isTaskRunning, IndInv, CoreInv, RunningTableMatchesChildren
    <3>3. taskId2RunningTask[x] # p
      BY <3>1, <3>2 DEF t
    <3> QED BY <1>3, <3>1, <3>2, <3>3
  <2>4. ASSUME faults' = 0, NEW q \in Pids, procs'[q] # NoProc PROVE pid2RunningTask'[q] # 0
    BY <1>2, <1>3, <2>4 DEF IndInv, CoreInv, RunningTableMatchesChildren
  <2> QED BY <2>2, <2>3, <2>4 DEF RunningTableMatchesChildren
<1>8. DownIsEmpty'
  BY <1>2 DEF DownIsEmpty
<1>9. BornBounded'
  BY <1>3, <1>5, <1>6 DEF IndInv, CoreInv, BornBounded
<1>10. RanIsRunnable'
  BY <1>5, <1>6 DEF IndInv, CoreInv, RanIsRunnable
<1>11. LiveScriptHasTask'
  BY <1>2, <1>3, <1>5, NoProcState DEF IndInv, CoreInv, LiveScriptHasTask, hasTask
<1>12. StatusTruthful'
  <2> SUFFICES ASSUME NEW x \in Ids, hasTask(x)'
               PROVE  /\ HasOwnRecord(x)' /\ store'[x].status = "RUNNING" => RunsOwnScript(x)'
                      /\ faults' = 0 => HasOwnRecord(x)'
                                        /\ (RunsOwnScript(x)' => store'[x].status = "RUNNING")
    BY DEF StatusTruthful
  <2>1. /\ HasOwnRecord(x) /\ store[x].status = "RUNNING" => RunsOwnScript(x)
        /\ faults = 0 => HasOwnRecord(x) /\ (RunsOwnScript(x) => store[x].status = "RUNNING")
    BY <1>5 DEF IndInv, CoreInv, StatusTruthful, hasTask
  <2>2. CASE x = t
    <3>1. hasTask(t)
      BY <1>5, <2>2 DEF hasTask
    <3>2. HasOwnRecord(x)' = HasOwnRecord(x)
      BY <1>5, <1>6, <2>2, <3>1 DEF HasOwnRecord
    <3>3. store'[x].status = "IDLE" /\ ~RunsOwnScript(x)'
      BY <1>3, <1>6, <2>2, <3>1 DEF RunsOwnScript, isTaskRunning
    <3> QED BY <1>2, <2>1, <3>2, <3>3
  <2>3. CASE x # t
    <3>1. taskId2RunningTask'[x] = taskId2RunningTask[x] /\ store'[x] = store[x]
      BY <1>3, <1>5, <2>3
    <3>2. taskId2RunningTask[x] # p /\ taskId2RunningTask[x] \in Pids \cup {NoPid}
      BY <1>1, <2>3 DEF IndInv, CoreInv, TypeOK, RunningTableMatchesChildren, isTaskRunning, t
    <3>3. HasOwnRecord(x)' = HasOwnRecord(x)
      BY <1>5, <3>1 DEF HasOwnRecord
    <3>4. RunsOwnScript(x)' = RunsOwnScript(x)
      BY <1>3, <1>5, <3>1, <3>2 DEF RunsOwnScript, isTaskRunning
    <3> QED BY <1>2, <2>1, <3>1, <3>3, <3>4
  <2> QED BY <2>2, <2>3
<1>13. CoreInv'
  BY <1>7, <1>8, <1>9, <1>10, <1>11, <1>12 DEF CoreInv
<1>14. \/ UNCHANGED <<timers, taskId2Event>>
       \/ hasTask(t) /\ Schedule(t)
  BY <1>2 DEF RecordExit, schedVars
<1>15. MappedEventPending'
  <2>1. CASE UNCHANGED <<timers, taskId2Event>>
    BY <1>5, <2>1 DEF IndInv, MappedEventPending, hasTask
  <2>2. CASE hasTask(t) /\ Schedule(t)
    <3>1. PICK e \in Evs : /\ timers[e] = 0
                           /\ timers' = [timers EXCEPT ![e] = t]
                           /\ taskId2Event' = [taskId2Event EXCEPT ![t] = e]
      BY <2>2 DEF Schedule
    <3> SUFFICES ASSUME NEW x \in Ids, taskId2Event'[x] # NoEv
                 PROVE  timers'[taskId2Event'[x]] = x /\ hasTask(x)'
      BY DEF MappedEventPending
    <3>2. CASE x = t
      BY <1>1, <1>5, <2>2, <3>1, <3>2 DEF IndInv, CoreInv, TypeOK, hasTask
    <3>3. CASE x # t
      <4>1. taskId2Event'[x] = taskId2Event[x] /\ taskId2Event[x] \in Evs
        BY <3>1, <3>3 DEF IndInv, CoreInv, TypeOK
      <4>2. timers[taskId2Event[x]] = x /\ hasTask(x) /\ x # 0
        BY <4>1 DEF IndInv, MappedEventPending, Ids
      <4> QED BY <1>5, <3>1, <4>1, <4>2 DEF hasTask, IndInv, CoreInv, TypeOK
    <3> QED BY <3>2, <3>3
  <2> QED BY <1>14, <2>1, <2>2
<1>16. PeriodicTaskArmed'
  <2> SUFFICES ASSUME NEW x \in Ids, DueAgain(x)' PROVE \E e \in Evs : timers'[e] = x
    BY DEF PeriodicTaskArmed
  <2>1. faults' = 0 /\ hasTask(x)' /\ ~isTaskRunning(x)' /\ store'[x].timesExecuted > 0
        /\ RunsAgain(store'[x])
    BY DEF DueAgain, RunsAgain
  <2>2. hasTask(x)
    BY <1>5, <2>1 DEF hasTask
  <2>3. CASE x = t
    <3>1. store'[t] = ExitRecord(t, procs[p].code)
      BY <1>1, <1>5, <2>2, <2>3 DEF IndInv, CoreInv, TypeOK, TaskDBTypeOK
    <3>2. Schedule(t)
      BY <1>2, <2>1, <2>2, <2>3, <3>1 DEF RecordExit
    <3> QED BY <1>1, <2>3, <3>2 DEF Schedule, IndInv, CoreInv, TypeOK
  <2>4. CASE x # t
    <3>1. DueAgain(x)
      BY <1>2, <1>3, <1>5, <2>1, <2>2, <2>4 DEF DueAgain, isTaskRunning
    <3>2. PICK e \in Evs : timers[e] = x
      BY <3>1 DEF IndInv, PeriodicTaskArmed
    <3>3. x # 0
      BY DEF Ids
    <3> QED BY <1>14, <3>2, <3>3 DEF Schedule, IndInv, CoreInv, TypeOK
  <2> QED BY <2>3, <2>4
<1> QED BY <1>13, <1>15, <1>16 DEF IndInv

-----------------------------------------------------------------------------
(* The invariant holds, and what follows *)

\* The inductive invariant holds at the start.
LEMMA InitInd == Init => IndInv
<1> SUFFICES ASSUME Init PROVE IndInv
  OBVIOUS
<1>1. TypeOK
  BY InitType
<1>2. \A p \in Pids : procs[p] = NoProc /\ pid2RunningTask[p] = 0 /\ procs[p].state = "none"
  BY NoProcState DEF Init
<1>3. \A t \in Ids : /\ taskId2RunningTask[t] = NoPid /\ taskId2Event[t] = NoEv
                     /\ ~hasTask(t) /\ store[t] = NoRecord
  BY DEF Init, TaskDBInit, hasTask
<1> QED
  BY <1>1, <1>2, <1>3
     DEF IndInv, CoreInv, RunningTableMatchesChildren, DownIsEmpty, BornBounded, StatusTruthful,
         LiveScriptHasTask, RanIsRunnable, MappedEventPending, PeriodicTaskArmed, DueAgain,
         isTaskRunning

\* Every step keeps the inductive invariant.
LEMMA NextInd == IndInv /\ [Next]_vars => IndInv'
<1> SUFFICES ASSUME IndInv, [Next]_vars PROVE IndInv'
  OBVIOUS
<1>1. TypeOK'
  BY NextType DEF IndInv, CoreInv
<1>2. ASSUME NEW c \in Configs, CreateTask(c) PROVE IndInv'
  BY <1>1, <1>2, CreateStep
<1>3. ASSUME NEW t \in Ids, StartTask(t) PROVE IndInv'
  BY <1>1, <1>3, StartStep
<1>4. ASSUME NEW t \in Ids, StopTask(t) PROVE IndInv'
  BY <1>1, <1>4, StopStep
<1>5. ASSUME NEW t \in Ids, DeleteTask(t) PROVE IndInv'
  BY <1>1, <1>5, DeleteStep
<1>6. ASSUME NEW e \in Evs, OnTimerEvent(e) PROVE IndInv'
  BY <1>1, <1>6, TimerStep
<1>7. ASSUME NEW p \in Pids, OnSIGCHILD(p) PROVE IndInv'
  BY <1>1, <1>7, ReapStep, TerminateStep DEF OnSIGCHILD
<1>8. ASSUME NEW p \in Pids, NEW c \in ExitCodes, ScriptExits(p, c) PROVE IndInv'
  BY <1>1, <1>8, ScriptExitsStep
<1>9. CASE Die
  BY <1>1, <1>9, TerminateStep DEF Die
<1>10. CASE Restart
  BY <1>1, <1>10, RestartStep
<1>11. CASE UNCHANGED vars
  BY <1>1, <1>11
     DEF vars, dbVars, tableVars, schedVars, IndInv, CoreInv, RunningTableMatchesChildren,
         DownIsEmpty, BornBounded, StatusTruthful, LiveScriptHasTask, RanIsRunnable,
         MappedEventPending, PeriodicTaskArmed, DueAgain, hasTask, HasOwnRecord, RunsOwnScript,
         isTaskRunning, RunsAgain
<1> QED
  BY <1>2, <1>3, <1>4, <1>5, <1>6, <1>7, <1>8, <1>9, <1>10, <1>11 DEF Next

\* The inductive invariant holds in every state the command thread reaches.
THEOREM Invariance == Spec => []IndInv
BY InitInd, NextInd, PTL DEF Spec

\* The two maps of running tasks are inverse to each other and agree with the
\* kernel's children.
THEOREM TableCorrect == Spec => []RunningTableMatchesChildren
<1>1. IndInv => RunningTableMatchesChildren
  BY DEF IndInv, CoreInv
<1> QED BY <1>1, Invariance, PTL

\* Two scripts of one id are never children at the same time.
THEOREM MutualExclusion == Spec => []OneProcessPerTask
<1>1. IndInv => OneProcessPerTask
  <2> SUFFICES ASSUME IndInv, faults = 0, NEW p \in Pids, NEW q \in Pids,
                      procs[p].task = procs[q].task, procs[p] # NoProc
               PROVE  p = q
    BY DEF OneProcessPerTask
  <2>1. procs[p].task \in Ids /\ 0 \notin Ids
    BY DEF IndInv, CoreInv, TypeOK, Child, Ids
  <2>2. NoProc.task = 0
    BY DEF NoProc
  <2>3. procs[q] # NoProc
    BY <2>1, <2>2
  <2>4. pid2RunningTask[p] # 0 /\ pid2RunningTask[q] # 0
    BY <2>3 DEF IndInv, CoreInv, RunningTableMatchesChildren
  <2> QED BY <2>4 DEF IndInv, CoreInv, RunningTableMatchesChildren
<1> QED BY <1>1, Invariance, PTL

\* The scheduler map only holds pending events of listed tasks: event_free never
\* meets an event that is gone.
THEOREM SchedulerCorrect == Spec => []MappedEventPending
<1>1. IndInv => MappedEventPending
  BY DEF IndInv
<1> QED BY <1>1, Invariance, PTL

\* The status in the database is the truth about the task's own script.
THEOREM StatusCorrect == Spec => []StatusTruthful
<1>1. IndInv => StatusTruthful
  BY DEF IndInv, CoreInv
<1> QED BY <1>1, Invariance, PTL

\* A live script belongs to a task that is still listed.
THEOREM NoOrphans == Spec => []LiveScriptHasTask
<1>1. IndInv => LiveScriptHasTask
  BY DEF IndInv, CoreInv
<1> QED BY <1>1, Invariance, PTL

\* The chain of timers of a periodic task never breaks.
THEOREM ChainCorrect == Spec => []PeriodicTaskArmed
<1>1. IndInv => PeriodicTaskArmed
  BY DEF IndInv
<1> QED BY <1>1, Invariance, PTL
=============================================================================
