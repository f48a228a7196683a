----------------------------- MODULE Lifecycle -----------------------------
(***************************************************************************)
(* The life of the processes (main.cpp, task_mgr.cpp, the ends of the two  *)
(* event loops, script_helper.cpp between fork and exec), around the       *)
(* command thread (CmdMgr).                                                *)
(*                                                                         *)
(* main forks the task manager and waits for one byte from it before it    *)
(* serves.  Each process asks to be killed when its parent dies            *)
(* (PR_SET_PDEATHSIG), which does nothing if the parent is dead already;   *)
(* then only the pipes and sockets tell: a write without a reader kills    *)
(* (SIGPIPE), the end of a stream ends a loop.  The test driver            *)
(* (test_task_mgr.cpp) starts and ends in the same way.                    *)
(*                                                                         *)
(* In CmdMgr a start is one step; here the command thread forks, waits for *)
(* the byte of the child and goes on, while everything else moves.         *)
(***************************************************************************)
EXTENDS CmdMgr

VARIABLES
  main,      \* the http process: gone, waits (for the byte), ready, serves, closing, closed
  mgr,       \* the task manager: gone, forked, tied, starting, loops, joins
  io,        \* its IO thread: gone, starting, runs, ended
  readyByte, \* the byte the task manager writes is in the socket
  child      \* the process that startScriptWithIORedir has forked, until it is a script

mainVars == <<main, readyByte>>
mgrVars == <<mgr, io, child>>
lvars == <<vars, mainVars, mgrVars>>

\* ev: the timer it is started by.  parent: the manager that has forked it lives.
NoChild == [task |-> 0, pid |-> NoPid, ev |-> NoEv, tied |-> FALSE, told |-> FALSE, parent |-> FALSE]

LTypeOK ==
  /\ main \in {"gone", "waits", "ready", "serves", "closing", "closed"}
  /\ mgr \in {"gone", "forked", "tied", "starting", "loops", "joins"}
  /\ io \in {"gone", "starting", "runs", "ended"}
  /\ up = (mgr \in {"starting", "loops", "joins"}) /\ up = (io # "gone")
  /\ readyByte \in BOOLEAN
  /\ child \in [task : Ids, pid : Pids, ev : Evs \cup {NoEv}, tied : BOOLEAN,
                told : BOOLEAN, parent : BOOLEAN] \cup {NoChild}

LInit ==
  /\ Init
  /\ main = "gone" /\ readyByte = FALSE
  /\ mgr = "gone" /\ io = "gone" /\ child = NoChild

-----------------------------------------------------------------------------
(* Ends of processes *)

\* Slip: the manager does not close its copies of the other ends.
HttpEndsNeverClosed == main \in {"waits", "ready", "serves"} \/ mgr # "gone"

\* Somebody holds the http process's ends of the two sockets.
HttpEndsOpen == main \in {"waits", "ready", "serves"} \/ mgr = "forked"

\* Slip: the scripts are not tied to the manager.
ManagerEndsScriptsLive ==
  /\ up' = FALSE
  /\ pid2RunningTask' = [p \in Pids |-> 0]
  /\ taskId2RunningTask' = [t \in Ids |-> NoPid]
  /\ timers' = [e \in Evs |-> 0]
  /\ taskId2Event' = [t \in Ids |-> NoEv]
  /\ UNCHANGED <<dbVars, procs, faults>>
  /\ mgr' = "gone" /\ io' = "gone" /\ child' = NoChild

\* The manager is gone, with the threads, the scripts and a child that is tied to it.
ManagerEnds ==
  /\ IF up THEN Die ELSE UNCHANGED vars
  /\ mgr' = "gone" /\ io' = "gone"
  /\ child' = CASE ~child.parent -> child
              [] child.parent /\ child.tied -> NoChild
              [] child.parent /\ ~child.tied -> [child EXCEPT !.parent = FALSE]

MainEnds ==
  /\ main' = "gone" /\ readyByte' = FALSE
  /\ IF mgr \in {"gone", "forked"} THEN UNCHANGED <<vars, mgrVars>> ELSE ManagerEnds

\* Killed by hand or by the SIGINT of the terminal; std::terminate, in any thread.
MgrDies == mgr # "gone" /\ ManagerEnds /\ UNCHANGED mainVars

MainDies == main # "gone" /\ MainEnds

-----------------------------------------------------------------------------
(* Start-up *)

\* The user starts the program: socketpair, fork.
MainStarts ==
  /\ main = "gone" /\ mgr = "gone"
  /\ main' = "waits" /\ mgr' = "forked"
  /\ UNCHANGED <<vars, readyByte, io, child>>

\* The child of main closes the http process's ends and ties itself to main.
MgrTies ==
  /\ mgr = "forked"
  /\ mgr' = "tied"
  /\ UNCHANGED <<vars, mainVars, io, child>>

\* startTaskMgr: TaskDBHelper::init, whose exception nobody catches; then the IO thread.
MgrInit ==
  /\ mgr = "tied"
  /\ \/ Restart /\ mgr' = "starting" /\ io' = "starting" /\ UNCHANGED child
     \/ ManagerEnds
  /\ UNCHANGED mainVars

\* IOMgr::start: from here on addMsgEvent finds an event base.
IOStarts ==
  /\ io = "starting"
  /\ io' = "runs"
  /\ UNCHANGED <<vars, mainVars, mgr, child>>

\* CmdMgr::start, up to its loop: the byte is written.
MgrReady ==
  /\ mgr = "starting"
  /\ IF HttpEndsOpen
     THEN mgr' = "loops" /\ readyByte' = TRUE /\ UNCHANGED <<vars, main, io, child>>
     ELSE ManagerEnds /\ UNCHANGED mainVars

\* main reads the byte, or the end of the stream.
MainReads ==
  /\ main = "waits"
  /\ \/ readyByte /\ main' = "ready" /\ readyByte' = FALSE /\ UNCHANGED <<vars, mgrVars>>
     \/ ~readyByte /\ mgr = "gone" /\ MainEnds

\* The user presses a key.
MainServes ==
  /\ main = "ready"
  /\ main' = "serves"
  /\ UNCHANGED <<vars, readyByte, mgrVars>>

-----------------------------------------------------------------------------
(* Shutdown *)

\* main.cpp, test_task_mgr.cpp: close both sockets, then wait(nullptr).
MainCloses ==
  /\ main = "serves"
  /\ main' = "closing"
  /\ UNCHANGED <<vars, readyByte, mgrVars>>

WaitReturns == main = "closing" /\ mgr = "gone" /\ MainEnds

\* sigHandler closes the sockets, then calls exit.
SigHandler ==
  /\ main \in {"waits", "ready", "serves", "closing"}
  /\ main' = "closed"
  /\ UNCHANGED <<vars, readyByte, mgrVars>>

Exit == main = "closed" /\ MainEnds

\* The command thread is in its loop.
CmdThreadFree == mgr = "loops" /\ ~child.parent

onCmdSockEventCb ==
  /\ CmdThreadFree /\ ~HttpEndsOpen
  /\ mgr' = "joins"
  /\ UNCHANGED <<vars, mainVars, io, child>>

\* Slip: the bufferevent is freed, the loop goes on.
IOSockEventIgnored ==
  /\ io = "runs" /\ ~HttpEndsOpen
  /\ UNCHANGED lvars

\* The base is forgotten: addMsgEvent throws from now on.
onIOSockEventCb ==
  /\ io = "runs" /\ ~HttpEndsOpen
  /\ io' = "ended"
  /\ UNCHANGED <<vars, mainVars, mgr, child>>

\* Both loops have ended: exit(1).
Join == mgr = "joins" /\ io = "ended" /\ ManagerEnds /\ UNCHANGED mainVars

-----------------------------------------------------------------------------
(* A start, from the fork on *)

\* Slip: the -1 of a fork that fails is taken for the pid of a child.
BeginStartUnchecked(t, e) ==
  /\ CmdThreadFree /\ child = NoChild /\ faults < MaxFaults
  /\ CanStart(t)
  /\ child' = [task |-> t, pid |-> NoPid, ev |-> e, tied |-> FALSE, told |-> FALSE, parent |-> TRUE]
  /\ UNCHANGED <<vars, mainVars, mgr, io>>

\* A child of an earlier manager has ended first (a bound), and one more fault can
\* be counted (a bound: the start may find no event base).
BeginStart(t, e) ==
  /\ CmdThreadFree /\ child = NoChild /\ faults < MaxFaults
  /\ CanStart(t)
  /\ \E p \in Pids :
       /\ procs[p] = NoProc
       /\ child' = [task |-> t, pid |-> p, ev |-> e, tied |-> FALSE, told |-> FALSE, parent |-> TRUE]
  /\ UNCHANGED <<vars, mainVars, mgr, io>>

LStartTask(t) ==
  /\ main = "serves" /\ store[t] # NoRecord /\ store[t].timesExecuted < MaxRuns /\ EventsLeft
  /\ BeginStart(t, NoEv)

ChildTies ==
  /\ child # NoChild /\ ~child.tied
  /\ child' = [child EXCEPT !.tied = TRUE]
  /\ UNCHANGED <<vars, mainVars, mgr, io>>

\* Slip: the child tells its parent before it is tied to it.
ChildTellsUntied ==
  /\ child # NoChild /\ ~child.told
  /\ child' = IF child.parent THEN [child EXCEPT !.told = TRUE] ELSE NoChild
  /\ UNCHANGED <<vars, mainVars, mgr, io>>

\* The byte on the child's standard output; only the manager can read it.
ChildTells ==
  /\ child # NoChild /\ child.tied /\ ~child.told
  /\ child' = IF child.parent THEN [child EXCEPT !.told = TRUE] ELSE NoChild
  /\ UNCHANGED <<vars, mainVars, mgr, io>>

\* The command thread reads the byte and goes on with the command.  Without an
\* event base addFds throws.
FinishStart ==
  /\ child.told /\ child.parent
  /\ IF child.ev = NoEv THEN StartTask(child.task) ELSE OnTimerEvent(child.ev)
  /\ procs'[child.pid] # NoProc
  /\ io # "runs" => pid2RunningTask' = pid2RunningTask
  /\ child' = NoChild
  /\ UNCHANGED <<mainVars, mgr, io>>

-----------------------------------------------------------------------------
(* The other steps of CmdMgr *)

LCommand ==
  /\ CmdThreadFree /\ main = "serves"
  /\ \/ \E c \in Configs : CreateTask(c)
     \/ \E t \in Ids : StopTask(t) \/ DeleteTask(t)
  /\ UNCHANGED <<mainVars, mgrVars>>

\* A timer starts a script, or starts none.
LOnTimerEvent(e) ==
  \/ timers[e] # 0 /\ BeginStart(timers[e], e)
  \/ /\ CmdThreadFree
     /\ OnTimerEvent(e) /\ procs' = procs
     /\ UNCHANGED <<mainVars, mgrVars>>

\* Without an event base removeFds throws, and nobody catches it.
LOnSIGCHILD(p) ==
  /\ CmdThreadFree
  /\ IF io = "runs" THEN OnSIGCHILD(p) ELSE Zombie(p) /\ Die
  /\ IF up' THEN UNCHANGED <<mgr, io>> ELSE mgr' = "gone" /\ io' = "gone"
  /\ UNCHANGED <<mainVars, child>>

LScriptExits(p, c) == ScriptExits(p, c) /\ UNCHANGED <<mainVars, mgrVars>>

LNext ==
  \/ MainStarts \/ MgrTies \/ MgrInit \/ IOStarts \/ MgrReady \/ MainReads \/ MainServes
  \/ MainCloses \/ WaitReturns \/ SigHandler \/ Exit
  \/ onCmdSockEventCb \/ onIOSockEventCb \/ Join
  \/ MgrDies \/ MainDies
  \/ \E t \in Ids : LStartTask(t)
  \/ ChildTies \/ ChildTells \/ FinishStart
  \/ LCommand
  \/ \E e \in Evs : LOnTimerEvent(e)
  \/ \E p \in Pids : LOnSIGCHILD(p)
  \/ \E p \in Pids, c \in ExitCodes : LScriptExits(p, c)

LSpec == LInit /\ [][LNext]_lvars

\* Both loops and the child go on.  Nothing is assumed of the user, of the scripts,
\* of signals and of deaths.
LFairSpec ==
  /\ LSpec
  /\ WF_lvars(MgrTies) /\ WF_lvars(MgrInit) /\ WF_lvars(IOStarts) /\ WF_lvars(MgrReady)
  /\ WF_lvars(MainReads) /\ WF_lvars(WaitReturns) /\ WF_lvars(Exit)
  /\ WF_lvars(onCmdSockEventCb) /\ WF_lvars(onIOSockEventCb) /\ WF_lvars(Join)
  /\ WF_lvars(ChildTies) /\ WF_lvars(ChildTells) /\ WF_lvars(FinishStart)
  /\ \A e \in Evs : WF_lvars(LOnTimerEvent(e))
  /\ \A p \in Pids : WF_lvars(LOnSIGCHILD(p))

-----------------------------------------------------------------------------
(* What must hold *)

\* No script runs without a manager to stop it: at whatever moment the manager dies,
\* a child that has told it is ready (and goes on to exec) dies with it.
StartedUnderManager == child.told => child.parent

\* Nothing is left behind: when main has ended, in whatever state of the start-up and
\* however the parent's death missed the prctl, the manager and the child it was
\* forking end as well.
NothingSurvives ==
  /\ (main = "gone") ~> (mgr = "gone")
  /\ (child # NoChild /\ ~child.parent) ~> (child = NoChild)

\* After main has closed its ends both loops end and wait(nullptr) returns, be the
\* manager idle, in the middle of a start or in front of exits nobody can reap.
ShutdownCompletes == (main = "closing") ~> (main = "gone")

\* What CmdMgr does in one step is done here by several processes: no interleaving of
\* starts, ends and deaths shows the tables a step CmdMgr does not have.
ImplementsCmdMgr == Spec
=============================================================================
