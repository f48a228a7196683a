------------------------------ MODULE TaskMgr ------------------------------
(***************************************************************************)
(* The task manager process: the command thread (CmdMgr) and the IO thread *)
(* (IOMgr).  A handler of the command thread does what it does in CmdMgr   *)
(* and, in the same step, opens the pipes of a script it forks and posts   *)
(* its messages; the IO thread takes them later, one per step, between     *)
(* reads and ends of file.  An exception in the IO thread ends both.       *)
(***************************************************************************)
EXTENDS CmdMgr, IOMgr

CONSTANT MaxAsked     \* bound: no switch and no input while so many messages are pending

ASSUME TaskMgrAssumption == MaxAsked \in Nat

VARIABLE mFds         \* RunningTask::mFds, the descriptors of a running task

NoFds == [stdin |-> 0, stdout |-> 0, stderr |-> 0]

cmdVars == vars
allVars == <<vars, ioVars, mFds>>

TTypeOK ==
  /\ IOTypeOK
  /\ mFds \in [Ids -> [stdin : Fds, stdout : Fds, stderr : Fds] \cup {NoFds}]

TInit == Init /\ IOInit /\ mFds = [t \in Ids |-> NoFds]

AllDown == IODown("none") /\ mFds' = [t \in Ids |-> NoFds] /\ UNCHANGED overtaken

\* RunningTaskHelper::getFdsExcept: the numbers the table of running tasks holds
\* for other tasks, closed by now or not.
getFdsExcept(t) ==
  UNION {{mFds[x].stdin, mFds[x].stdout, mFds[x].stderr} :
           x \in {y \in Ids \ {t} : isTaskRunning(y)}}

Forks == \E p \in Pids : procs[p] = NoProc /\ procs'[p] # NoProc

\* The descriptors of a start.  A task that ends up in the table has its messages
\* posted.  A child that has closed one of its own ends cannot make it its standard
\* input or output, throws, and goes on as a second command manager; the parent reads
\* the end of its pipe, at once or when that copy ends, and takes the start to be good.
\* (Until the copy ends this thread is blocked; here it may go on before.  What the
\* copy does on the shared sockets is left out, but for its end and its output.)
StartIO(t) ==
  /\ OpenPipes(t, getFdsExcept(t))
  /\ IF taskId2RunningTask'[t] # NoPid
     THEN addFds(t, KeptFds) /\ mFds' = [mFds EXCEPT ![t] = KeptFds]
     ELSE UNCHANGED <<ioQueue, mFds>>
  /\ UNCHANGED <<fd2IOData, crash, overtaken>>

\* Without descriptors (or a fork) a command is answered FAILED and a timer is used
\* up; a timer may also fail before, at the reading of the record.
FailedStart(t) ==
  /\ up /\ CanStart(t) /\ store[t].timesExecuted < MaxRuns
  /\ CanOpen => faults < MaxFaults
  /\ LeakPipes
  /\ UNCHANGED <<vars, fd2IOData, ioQueue, crash, overtaken, mFds>>

FailedTimerIO ==
  /\ LeakPipes \/ (CanOpen /\ UNCHANGED fds)
  /\ UNCHANGED <<fd2IOData, ioQueue, crash, overtaken, mFds>>

TStartTask(t) == CanOpen /\ StartTask(t) /\ StartIO(t)

TOnTimerEvent(e) ==
  \/ OnTimerEvent(e) /\ Forks /\ CanOpen /\ StartIO(timers[e])
  \/ OnTimerEvent(e) /\ ~Forks /\ CanStart(timers[e]) /\ FailedTimerIO
  \/ OnTimerEvent(e) /\ ~CanStart(timers[e]) /\ UNCHANGED <<ioVars, mFds>>

\* Whatever the step does to a live script, its ends of the pipes go with it.
EndIO(t) ==
  /\ \E left \in {"descendant", "none"} :
       IF \E p \in Pids : procs[p].state = "alive" /\ procs'[p].state # "alive"
       THEN ScriptEnds(t, left) ELSE UNCHANGED fds
  /\ UNCHANGED <<fd2IOData, ioQueue, crash, overtaken, mFds>>

TStopTask(t) == StopTask(t) /\ EndIO(t)

TDeleteTask(t) == DeleteTask(t) /\ EndIO(t)

TScriptExits(p, c) == ScriptExits(p, c) /\ EndIO(procs[p].task)

\* Slip: the descriptors are looked up after the process has left the table.
ReapBeforeLookup(p) ==
  /\ OnSIGCHILD(p)
  /\ IF up'
     THEN /\ removeFds(pid2RunningTask[p], NoFds)
          /\ mFds' = [mFds EXCEPT ![pid2RunningTask[p]] = NoFds]
          /\ UNCHANGED <<fds, fd2IOData, crash, overtaken>>
     ELSE AllDown

\* Slip: the command thread closes the descriptors the IO thread still uses.
ReapClosesFds(p) ==
  /\ OnSIGCHILD(p)
  /\ IF up'
     THEN LET t == pid2RunningTask[p] IN
          /\ removeFds(t, mFds[t])
          /\ mFds' = [mFds EXCEPT ![t] = NoFds]
          /\ fds' = [f \in Fds |-> IF f \in {mFds[t].stdin, mFds[t].stdout, mFds[t].stderr}
                                   THEN Closed ELSE fds[f]]
          /\ UNCHANGED <<fd2IOData, crash, overtaken>>
     ELSE AllDown

TOnSIGCHILD(p) ==
  /\ OnSIGCHILD(p)
  /\ IF up'
     THEN /\ removeFds(pid2RunningTask[p], mFds[pid2RunningTask[p]])
          /\ mFds' = [mFds EXCEPT ![pid2RunningTask[p]] = NoFds]
          /\ UNCHANGED <<fds, fd2IOData, crash, overtaken>>
     ELSE AllDown

\* enableIORedirect, disableIORedirect, putToTaskInput: nothing is checked but
\* the table of running tasks.
IOCommand(t) ==
  /\ up
  /\ isTaskRunning(t)
  /\ Len(ioQueue) < MaxAsked
  /\ enableRedirect(t, mFds[t]) \/ disableRedirect(t, mFds[t]) \/ putToStdin(t, mFds[t])
  /\ UNCHANGED <<vars, fds, fd2IOData, crash, overtaken, mFds>>

\* Slip: the scripts are not tied to the manager (no PR_SET_PDEATHSIG).
ScriptsSurvive(Callback) ==
  /\ up
  /\ Callback
  /\ IF crash' = "none"
     THEN UNCHANGED <<vars, mFds>>
     ELSE /\ up' = FALSE
          /\ mFds' = [t \in Ids |-> NoFds]
          /\ UNCHANGED <<dbVars, tableVars, schedVars, faults>>

IOThread(Callback) ==
  /\ up
  /\ Callback
  /\ IF crash' = "none"
     THEN UNCHANGED <<vars, mFds>>
     ELSE Terminate /\ mFds' = [t \in Ids |-> NoFds] /\ UNCHANGED faults

OnMsg(i) == IOThread(onMsgEventCb(i))
OnReadable(f) == IOThread(fdReadDelegate(f))
OnEOF(f) == IOThread(onFdEventCb(f))

\* Processes outside: they do not depend on the manager, but its pipes do.
Outside ==
  /\ \/ \E f \in Fds : ScriptWrites(f)
     \/ \E t \in Ids : DescendantsEnd(t)
  /\ UNCHANGED <<vars, mFds>>

TDie == Die /\ AllDown

TRestart ==
  /\ Restart
  /\ crash' = "none" /\ overtaken' = FALSE
  /\ UNCHANGED <<fds, fd2IOData, ioQueue, mFds>>

TNext ==
  \/ \E c \in Configs : CreateTask(c) /\ UNCHANGED <<ioVars, mFds>>
  \/ \E t \in Ids : TStartTask(t)
  \/ \E t \in Ids : FailedStart(t)
  \/ \E t \in Ids : TStopTask(t)
  \/ \E t \in Ids : TDeleteTask(t)
  \/ \E t \in Ids : IOCommand(t)
  \/ \E e \in Evs : TOnTimerEvent(e)
  \/ \E p \in Pids : TOnSIGCHILD(p)
  \/ \E p \in Pids, c \in ExitCodes : TScriptExits(p, c)
  \/ \E i \in Ready : OnMsg(i)
  \/ \E f \in Fds : OnReadable(f)
  \/ \E f \in Fds : OnEOF(f)
  \/ Outside
  \/ TDie
  \/ TRestart

TSpec == TInit /\ [][TNext]_allVars

\* The IO thread serves every message and descriptor that stays ready: the oldest
\* message too, since the clock goes on and no message can share its stamp for ever.
\* A script need not end, nor write, nor is anything assumed of the command thread.
TFairSpec ==
  /\ TSpec
  /\ WF_allVars(OnMsg(1))
  /\ \A f \in Fds : WF_allVars(OnReadable(f)) /\ WF_allVars(OnEOF(f))

-----------------------------------------------------------------------------
(* What must hold *)

\* Output is attributed to the task whose script wrote it, although numbers are
\* closed by one thread, known by two tables and handed out again: whenever a
\* bufferevent reads a pipe and finds an entry, the entry is of that pipe's task.
OutputAttributed ==
  \A f \in Fds : fds[f].bev /\ hasFd(f) => fd2IOData[f].task = fds[f].task

\* Whatever order messages with equal stamps fire in, input that is written goes into
\* the open stdin pipe of the script it was meant for, although the message carries
\* nothing but a number, and the script may have ended, its entry gone and another
\* script started since.  (The parent's end is never closed, so its number is safe.)
InputReachesOwnTask ==
  \A i \in Ready :
    LET m == ioQueue[i] IN
      m.msgType = "PUT_DATA_TO_FD" /\ hasFd(m.fd) =>
        fds[m.fd].kind = "stdin" /\ fds[m.fd].task = m.task

\* A switch or a removal that misses its descriptor (throwIfNotIn and map::at throw)
\* is always the fault of equal stamps: ends of file, late reaps and numbers that are
\* closed and handed out again never cause it by themselves.
MissesOnlyOvertaken == crash \in {"redirect", "remove"} => overtaken

\* What a script has written is read in the end, watched or not, even if the script
\* is gone, unless the process ends or a start fails half way (its pipes are known to
\* nobody): a script never blocks on its output for good.
PipeDrained ==
  \A f \in Fds : (fds[f].kind \in OutKinds /\ fds[f].data > 0) ~> (fds[f].data = 0 \/ faults > 0)

\* An output pipe nobody holds the other end of any more gives its number back:
\* runs do not use up the descriptors of the process (the stdin pipes do: nothing
\* ever closes the parent's end).
OutputEndReleased ==
  \A f \in Fds :
    (fds[f].kind \in OutKinds /\ fds[f].peer = "none") ~> (fds[f] = Closed \/ faults > 0)

\* The process as a whole does what its command thread alone does: the IO thread
\* adds nothing to the tasks, scripts and timers but an end of the process at any
\* moment.
ImplementsCmdMgr == Spec

(* What the repository says and the code does not do *)

\* io_mgr.cpp, REMOVE_FD: the bufferevent of the descriptor was freed when the
\* process ended, so it need not be freed again.
RemovedFdHasNoBufferevent ==
  [][\A f \in Fds : hasFd(f) /\ ~hasFd(f)' /\ up' => ~fds'[f].bev]_allVars

\* io_mgr.hpp, throwIfNotIn and removeFd: the descriptor of a switch or of a removal is
\* in the table; test_task_mgr.cpp switches a task on as soon as it has started it.
RequestFindsFd == crash \notin {"redirect", "remove"}

\* io_mgr.cpp, PUT_DATA_TO_FD: a write that fails is logged and the data dropped.
FailedWriteIsLogged == crash # "sigpipe"
=============================================================================
