--------------------------- MODULE TaskMgrProofs ---------------------------
(***************************************************************************)
(* The task manager with its two threads does to tasks, scripts and timers *)
(* what the command thread alone does (ImplementsCmdMgr), so what is proved*)
(* of CmdMgr holds of the whole process, for every value of the constants. *)
(***************************************************************************)
EXTENDS TaskMgr, CmdMgrProofs

\* A handler of the command thread is the handler of CmdMgr.
LEMMA CommandStep ==
  ASSUME \/ \E c \in Configs : CreateTask(c) /\ UNCHANGED <<ioVars, mFds>>
         \/ \E t \in Ids : TStartTask(t) \/ TStopTask(t) \/ TDeleteTask(t)
         \/ \E e \in Evs : TOnTimerEvent(e)
         \/ \E p \in Pids : TOnSIGCHILD(p)
         \/ \E p \in Pids, c \in ExitCodes : TScriptExits(p, c)
         \/ TDie
         \/ TRestart
  PROVE  Next
BY DEF TStartTask, TStopTask, TDeleteTask, TOnTimerEvent, TOnSIGCHILD, TScriptExits, TDie,
       TRestart, Next

\* A callback of the IO thread leaves the command thread alone or ends the process.
LEMMA IOStep ==
  ASSUME (\E i \in Ready : OnMsg(i)) \/ \E f \in Fds : OnReadable(f) \/ OnEOF(f)
  PROVE  [Next]_vars
<1>1. up /\ (UNCHANGED vars \/ (Terminate /\ UNCHANGED faults))
  BY DEF OnMsg, OnReadable, OnEOF, IOThread
<1> QED BY <1>1 DEF Next, Die

\* Every step of the process is a step of the command thread, or none.
LEMMA StepSimulation == [TNext]_allVars => [Next]_vars
<1> SUFFICES ASSUME [TNext]_allVars PROVE [Next]_vars
  OBVIOUS
<1>1. ASSUME NEW t \in Ids, IOCommand(t) \/ FailedStart(t) PROVE UNCHANGED vars
  BY <1>1 DEF IOCommand, FailedStart
<1>2. CASE Outside
  BY <1>2 DEF Outside
<1>3. CASE UNCHANGED allVars
  BY <1>3 DEF allVars
<1> QED BY CommandStep, IOStep, <1>1, <1>2, <1>3 DEF TNext

\* The process implements the specification of its command thread.
THEOREM Implements == TSpec => ImplementsCmdMgr
<1>1. TInit => Init
  BY DEF TInit
<1> QED BY <1>1, StepSimulation, PTL DEF TSpec, Spec, ImplementsCmdMgr

\* So the scripts are what the command thread takes them for, also while the IO
\* thread runs and fails: one script per task, none without its task, the table in
\* step with the kernel.
THEOREM ScriptsCorrect ==
  TSpec => [](RunningTableMatchesChildren /\ OneProcessPerTask /\ LiveScriptHasTask)
BY Implements, TableCorrect, MutualExclusion, NoOrphans, PTL DEF ImplementsCmdMgr
=============================================================================
