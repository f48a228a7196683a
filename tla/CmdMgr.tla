------------------------------- MODULE CmdMgr -------------------------------
(***************************************************************************)
(* The command thread of the task manager process (cmd_mgr.cpp, cmd_mgr.hpp*)
(* and the scripts it forks): the handlers of the commands that change     *)
(* state, the timer callback that starts a periodic task again, the SIGCHLD*)
(* callback that reaps scripts, and the table of tasks in leveldb (TaskDB).*)
(*                                                                         *)
(* All handlers are callbacks of one libevent loop, so a handler is one    *)
(* step; scripts exit, and the whole process dies, between any two steps.  *)
(* An exception thrown in the command handler is caught (handleCmdMsg); one*)
(* thrown in the SIGCHLD callback leaves through libevent and ends the     *)
(* process (Terminate).  Early returns that change nothing are stuttering  *)
(* steps.  The answer sent back and the calls to IOMgr are not part of this*)
(* module.                                                                 *)
(***************************************************************************)
EXTENDS TaskDB

CONSTANTS
  Evs, NoEv,    \* libevent timer objects, "no event"
  MaxRuns,      \* bound: the user starts a task with fewer runs than this
  MaxBorn,      \* bound: an id is handed out at most this often
  MaxFaults     \* bound: failed database writes and forks

ASSUME CmdAssumption ==
  /\ NoEv \notin Evs
  /\ MaxRuns \in Nat /\ MaxBorn \in Nat /\ MaxFaults \in Nat

VARIABLES
  procs,              \* the kernel's view of the children, by pid
  pid2RunningTask,    \* RunningTaskHelper: the task of a pid, 0 if none
  taskId2RunningTask, \* RunningTaskHelper: the pid of a task, NoPid if none
  timers,             \* the task a pending timer event will start, 0 if not pending
  taskId2Event,       \* ScheduledTaskHelper: the event of a task, NoEv if none
  up,                 \* the task manager process runs
  faults              \* how many writes and forks have failed

tableVars == <<procs, pid2RunningTask, taskId2RunningTask>>
schedVars == <<timers, taskId2Event>>
vars == <<dbVars, tableVars, schedVars, up, faults>>

\* A pid that is not a child of the task manager.
NoProc == [state |-> "none", task |-> 0, born |-> 0, code |-> 0]

\* A child: what it was started for (task, born), whether it has ended and how.
\* code is what WEXITSTATUS will return: 0 for a script killed by a signal.
Child == [state : {"alive", "exited", "killed"}, task : Ids, born : Nat, code : ExitCodes]

Zombie(p) == procs[p].state \in {"exited", "killed"}

TypeOK ==
  /\ TaskDBTypeOK
  /\ procs \in [Pids -> Child \cup {NoProc}]
  /\ pid2RunningTask \in [Pids -> Ids \cup {0}]
  /\ taskId2RunningTask \in [Ids -> Pids \cup {NoPid}]
  /\ timers \in [Evs -> Ids \cup {0}]
  /\ taskId2Event \in [Ids -> Evs \cup {NoEv}]
  /\ up \in BOOLEAN
  /\ faults \in 0 .. MaxFaults

Init ==
  /\ TaskDBInit
  /\ procs = [p \in Pids |-> NoProc]
  /\ pid2RunningTask = [p \in Pids |-> 0]
  /\ taskId2RunningTask = [t \in Ids |-> NoPid]
  /\ timers = [e \in Evs |-> 0]
  /\ taskId2Event = [t \in Ids |-> NoEv]
  /\ up = FALSE
  /\ faults = 0

Fault == faults < MaxFaults /\ faults' = faults + 1

-----------------------------------------------------------------------------
(* Processes and the two helper tables *)

isTaskRunning(t) == taskId2RunningTask[t] # NoPid

Fork(t, p) ==
  /\ procs[p] = NoProc
  /\ procs' = [procs EXCEPT ![p] = [state |-> "alive", task |-> t, born |-> born[t], code |-> 0]]

Kill(p) ==
  procs' = [procs EXCEPT ![p] = IF @.state = "alive" THEN [@ EXCEPT !.state = "killed"] ELSE @]

RunningTaskAdd(t, p) ==
  /\ pid2RunningTask' = [pid2RunningTask EXCEPT ![p] = t]
  /\ taskId2RunningTask' = [taskId2RunningTask EXCEPT ![t] = p]

\* Slip: one of the two maps keeps its entry.
RemoveByPidFromOneMap(p) ==
  /\ pid2RunningTask' = [pid2RunningTask EXCEPT ![p] = 0]
  /\ UNCHANGED taskId2RunningTask

RunningTaskRemoveByPid(p) ==
  /\ taskId2RunningTask' = [taskId2RunningTask EXCEPT ![pid2RunningTask[p]] = NoPid]
  /\ pid2RunningTask' = [pid2RunningTask EXCEPT ![p] = 0]

\* Slip: the event is freed and stays mapped.
FreeWithoutRemove(t, also) ==
  /\ timers' = [e \in Evs |-> IF e = taskId2Event[t] \/ e \in also THEN 0 ELSE timers[e]]
  /\ UNCHANGED taskId2Event

\* ScheduledTaskHelper::remove and event_free of what it returns; also is a set
\* of further events that stop being pending in the step.
SchedRemoveAndFree(t, also) ==
  /\ timers' = [e \in Evs |-> IF e = taskId2Event[t] \/ e \in also THEN 0 ELSE timers[e]]
  /\ taskId2Event' = [taskId2Event EXCEPT ![t] = NoEv]

\* evtimer_new, evtimer_add and ScheduledTaskHelper::set, whose result (the
\* event it displaces, still pending) nobody looks at.
Schedule(t) ==
  \E e \in Evs :
    /\ timers[e] = 0
    /\ timers' = [timers EXCEPT ![e] = t]
    /\ taskId2Event' = [taskId2Event EXCEPT ![t] = e]

-----------------------------------------------------------------------------
(* Commands *)

CreateTask(c) ==
  /\ up
  /\ NextId \in Ids /\ born[NextId] < MaxBorn
  /\ \/ DBCreateTask(c) /\ UNCHANGED faults
     \/ DBCreateTaskTorn /\ Fault
  /\ UNCHANGED <<tableVars, schedVars, up>>

\* Slip: the record is asked whether the task runs, not the table.
CanStartByStatus(t) ==
  /\ CanGet(t)
  /\ store[t].status = "IDLE"
  /\ store[t].conf.scriptType \in Interpreters

CanStart(t) ==
  /\ CanGet(t)
  /\ ~isTaskRunning(t)
  /\ store[t].conf.scriptType \in Interpreters

StartedRecord(t, p) ==
  [store[t] EXCEPT !.pid = p, !.timesExecuted = @ + 1, !.status = "RUNNING"]

\* startTask from the fork on.  When IOMgr::addFds throws the script runs and no
\* table knows it; when the last write fails it is in the tables but not in the
\* database; the command is answered FAILED in both cases.
StartAs(t, p) ==
  /\ Fork(t, p)
  /\ \/ RunningTaskAdd(t, p) /\ DBUpdateTask(t, StartedRecord(t, p)) /\ UNCHANGED faults
     \/ RunningTaskAdd(t, p) /\ UNCHANGED dbVars /\ Fault
     \/ UNCHANGED <<pid2RunningTask, taskId2RunningTask, dbVars>> /\ Fault

DoStart(t) == CanStart(t) /\ \E p \in Pids : StartAs(t, p)

\* Events the tasks already running may still need (keeps Evs from running out).
EventsLeft ==
  Cardinality({e \in Evs : timers[e] # 0}) + Cardinality({p \in Pids : procs[p] # NoProc})
    < Cardinality(Evs)

StartTask(t) ==
  /\ up
  /\ DoStart(t)
  /\ store[t].timesExecuted < MaxRuns
  /\ EventsLeft
  /\ UNCHANGED <<schedVars, up>>

StopTask(t) ==
  /\ up
  /\ hasTask(t) /\ isTaskRunning(t)
  /\ Kill(taskId2RunningTask[t])
  /\ UNCHANGED <<dbVars, pid2RunningTask, taskId2RunningTask, schedVars, up, faults>>

\* Slip: the task is taken off the list, its script runs on.
DeleteWithoutKill(t) ==
  /\ up
  /\ DBDeleteTask(t)
  /\ SchedRemoveAndFree(t, {})
  /\ UNCHANGED <<tableVars, up, faults>>

\* The script of a running task is killed first, and stays killed when the
\* write of the list fails.
DeleteTask(t) ==
  /\ up
  /\ hasTask(t)
  /\ IF isTaskRunning(t) THEN Kill(taskId2RunningTask[t]) ELSE UNCHANGED procs
  /\ \/ DBDeleteTask(t) /\ SchedRemoveAndFree(t, {}) /\ UNCHANGED faults
     \/ UNCHANGED <<dbVars, schedVars>> /\ Fault
  /\ UNCHANGED <<pid2RunningTask, taskId2RunningTask, up>>

-----------------------------------------------------------------------------
(* Callbacks *)

\* Slip: the callback looks at the wrong bit of events and starts nothing.
OnTimerEventIgnored(e) ==
  /\ up
  /\ timers[e] # 0
  /\ SchedRemoveAndFree(timers[e], {e})
  /\ UNCHANGED <<dbVars, tableVars, faults, up>>

\* The command is START_TASK again; whatever became of it, the event that is
\* mapped for the task is freed, be it the one that fires or a later one.
OnTimerEvent(e) ==
  /\ up
  /\ timers[e] # 0
  /\ \/ DoStart(timers[e])
     \/ ~CanStart(timers[e]) /\ UNCHANGED <<dbVars, tableVars, faults>>
     \/ CanStart(timers[e]) /\ UNCHANGED <<dbVars, tableVars>> /\ Fault
  /\ SchedRemoveAndFree(timers[e], {e})
  /\ UNCHANGED up

\* Everything in memory is lost, and the scripts are killed (PR_SET_PDEATHSIG).
Terminate ==
  /\ procs' = [p \in Pids |-> NoProc]
  /\ pid2RunningTask' = [p \in Pids |-> 0]
  /\ taskId2RunningTask' = [t \in Ids |-> NoPid]
  /\ timers' = [e \in Evs |-> 0]
  /\ taskId2Event' = [t \in Ids |-> NoEv]
  /\ up' = FALSE
  /\ UNCHANGED dbVars

\* Slip: the status waitpid returns is stored without WEXITSTATUS.
ExitRecordRawStatus(t, c) ==
  [store[t] EXCEPT !.exitCode = 256 * c, !.status = "IDLE", !.pid = NoPid]

\* Slip: the status is not reset.
ExitRecordStillRunning(t, c) ==
  [store[t] EXCEPT !.exitCode = c, !.pid = NoPid]

ExitRecord(t, c) ==
  [store[t] EXCEPT !.exitCode = c, !.status = "IDLE", !.pid = NoPid]

RunsAgain(task) ==
  /\ task.exitCode = 0
  /\ task.conf.interval > 0
  /\ task.timesExecuted < task.conf.maxTimes

\* Slip: the next run is decided on the record as it was before this exit.
RecordExitStale(t, c) ==
  /\ DBUpdateTask(t, ExitRecord(t, c))
  /\ IF RunsAgain(store[t]) THEN Schedule(t) ELSE UNCHANGED schedVars

RecordExit(t, c) ==
  /\ DBUpdateTask(t, ExitRecord(t, c))
  /\ IF RunsAgain(ExitRecord(t, c)) THEN Schedule(t) ELSE UNCHANGED schedVars

\* getFdsByPid throws for a pid that is not in the table, getTask for a task
\* without a record.
CannotReap(p) ==
  \/ pid2RunningTask[p] = 0
  \/ hasTask(pid2RunningTask[p]) /\ ~CanGet(pid2RunningTask[p])

Reap(p) ==
  /\ ~CannotReap(p)
  /\ procs' = [procs EXCEPT ![p] = NoProc]
  /\ RunningTaskRemoveByPid(p)
  /\ IF hasTask(pid2RunningTask[p])
     THEN RecordExit(pid2RunningTask[p], procs[p].code)
     ELSE UNCHANGED <<dbVars, schedVars>>
  /\ UNCHANGED <<up, faults>>

\* One turn of the waitpid loop.  The turns of one callback may be taken as
\* separate steps: a command served between two turns is a command served
\* before the later script exits.
OnSIGCHILD(p) ==
  /\ up
  /\ Zombie(p)
  /\ \/ Reap(p)
     \/ CannotReap(p) /\ Terminate /\ UNCHANGED faults
     \/ Fault /\ Terminate

-----------------------------------------------------------------------------
(* The environment *)

\* A script ends by itself.
ScriptExits(p, c) ==
  /\ procs[p].state = "alive"
  /\ procs' = [procs EXCEPT ![p] = [@ EXCEPT !.state = "exited", !.code = c]]
  /\ UNCHANGED <<dbVars, pid2RunningTask, taskId2RunningTask, schedVars, up, faults>>

\* The process is killed: by hand, or because its parent died (PR_SET_PDEATHSIG).
Die ==
  /\ up
  /\ Terminate
  /\ UNCHANGED faults

\* The program is started, for the first time or again.
Restart ==
  /\ ~up
  /\ TaskDBOpen
  /\ up' = TRUE
  /\ UNCHANGED <<tableVars, schedVars, faults>>

Next ==
  \/ \E c \in Configs : CreateTask(c)
  \/ \E t \in Ids : StartTask(t)
  \/ \E t \in Ids : StopTask(t)
  \/ \E t \in Ids : DeleteTask(t)
  \/ \E e \in Evs : OnTimerEvent(e)
  \/ \E p \in Pids : OnSIGCHILD(p)
  \/ \E p \in Pids, c \in ExitCodes : ScriptExits(p, c)
  \/ Die
  \/ Restart

Spec == Init /\ [][Next]_vars

-----------------------------------------------------------------------------
(* What must hold *)

\* The record under t's key was written for the present holder of the id.
HasOwnRecord(t) == store[t] # NoRecord /\ store[t].born = born[t]

\* The process in the table under t was started for the present holder.
RunsOwnScript(t) ==
  isTaskRunning(t) /\ procs[taskId2RunningTask[t]].born = born[t]

\* The two maps of RunningTaskHelper are inverse to each other and agree with
\* the kernel: a kill hits the child of the task asked for, the at() and the
\* lookups by pid of the SIGCHLD callback never throw.  Only a start that failed
\* half way leaves a child out of the table.
RunningTableMatchesChildren ==
  /\ \A p \in Pids : pid2RunningTask[p] # 0 =>
       /\ procs[p].task = pid2RunningTask[p]
       /\ taskId2RunningTask[pid2RunningTask[p]] = p
  /\ \A t \in Ids : isTaskRunning(t) => pid2RunningTask[taskId2RunningTask[t]] = t
  /\ faults = 0 => \A p \in Pids : procs[p] # NoProc => pid2RunningTask[p] # 0

\* However commands, timers and exits interleave, two scripts of one id are never
\* children at the same time (they would share a script file and a table entry).
OneProcessPerTask ==
  faults = 0 =>
    \A p, q \in Pids : procs[p].task = procs[q].task /\ procs[p] # NoProc => p = q

\* An event the scheduler map holds is still pending, for that task, and the task
\* is listed: ScheduledTaskHelper::remove never hands event_free an event that
\* was already freed or that fires for another task.
MappedEventPending ==
  \A t \in Ids : taskId2Event[t] # NoEv => timers[taskId2Event[t]] = t /\ hasTask(t)

\* The status the user is shown is the truth: a task's own record says RUNNING
\* only while a script of this very task is a child, and, if nothing has failed,
\* always then; and, if nothing has failed, every listed task has its own record.
StatusTruthful ==
  \A t \in Ids : up /\ hasTask(t) =>
    /\ HasOwnRecord(t) /\ store[t].status = "RUNNING" => RunsOwnScript(t)
    /\ faults = 0 => HasOwnRecord(t) /\ (RunsOwnScript(t) => store[t].status = "RUNNING")

\* No script outlives its task: one that is alive was started for a task that is
\* still listed (deleteTask kills first, and the id may be handed out again
\* before the script is reaped).
LiveScriptHasTask ==
  faults = 0 =>
    \A p \in Pids : procs[p].state = "alive" =>
      hasTask(procs[p].task) /\ procs[p].born = born[procs[p].task]

\* A task that has run, has ended with code 0 and has runs left.
DueAgain(t) ==
  /\ up /\ faults = 0
  /\ hasTask(t) /\ ~isTaskRunning(t)
  /\ store[t].timesExecuted > 0
  /\ RunsAgain(store[t])

\* The periodic chain never breaks: such a task has a pending timer, whatever
\* manual starts, stops and other timers have done in between.
PeriodicTaskArmed ==
  \A t \in Ids : DueAgain(t) => \E e \in Evs : timers[e] = t

\* It is started again, unless it is deleted, something fails or the process ends.
PeriodicRunsAgain ==
  \A t \in Ids :
    DueAgain(t) ~> (isTaskRunning(t) \/ ~hasTask(t) \/ ~up \/ faults > 0)

\* A task whose script has ended can be started again: its entry leaves the table.
EndedTaskStartable ==
  \A t \in Ids :
    (isTaskRunning(t) /\ Zombie(taskId2RunningTask[t])) ~> ~isTaskRunning(t)

(* What the repository says and the code does not do *)

\* Design.MD, maxTimes: the largest number of executions.  A start made by a
\* timer does not exceed it (the handler of a command checks nothing).
ScheduledStartWithinMaxTimes ==
  [][\A e \in Evs, t \in Ids :
       timers[e] = t /\ timers'[e] = 0 /\ ~isTaskRunning(t) /\ isTaskRunning(t)' =>
         store'[t].timesExecuted <= store'[t].conf.maxTimes]_vars

\* cmd_mgr.cpp, onSIGCHILDCb: "make sure task is not deleted" before the exit of a
\* script is written to its task.
ExitRecordedOnOwnTask ==
  [][\A p \in Pids :
       LET t == procs[p].task IN
         Zombie(p) /\ procs'[p] = NoProc /\ up' /\ t # 0 /\ store'[t] # store[t] =>
           procs[p].born = born[t]]_vars
=============================================================================
