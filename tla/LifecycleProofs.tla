-------------------------- MODULE LifecycleProofs --------------------------
(***************************************************************************)
(* The processes of Lifecycle do to tasks, scripts and timers what CmdMgr  *)
(* does in single steps, so what is proved of CmdMgr holds with starts that*)
(* take several steps and processes that start and die on their own.  And  *)
(* no script runs without its manager.                                     *)
(***************************************************************************)
EXTENDS Lifecycle, CmdMgrProofs

-----------------------------------------------------------------------------
(* Every step is a step of CmdMgr, or none *)

\* The end of the manager is its death in CmdMgr.
LEMMA ManagerEndsStep == ManagerEnds => [Next]_vars
BY DEF ManagerEnds, Next

\* The end of main takes the manager along, or leaves it.
LEMMA MainEndsStep == MainEnds => [Next]_vars
BY ManagerEndsStep DEF MainEnds, mgrVars

\* A handler of the command thread is the handler of CmdMgr.
LEMMA HandlerStep ==
  ASSUME \/ FinishStart
         \/ LCommand
         \/ \E e \in Evs : LOnTimerEvent(e)
         \/ \E p \in Pids : LOnSIGCHILD(p)
         \/ \E p \in Pids, c \in ExitCodes : LScriptExits(p, c),
         child = NoChild \/ (child.task \in Ids /\ child.ev \in Evs \cup {NoEv})
  PROVE  [Next]_vars
<1>1. CASE FinishStart
  <2>1. child # NoChild
    BY <1>1 DEF FinishStart, NoChild
  <2>2. CASE child.ev = NoEv
    BY <1>1, <2>1, <2>2 DEF FinishStart, Next
  <2>3. CASE child.ev # NoEv
    BY <1>1, <2>1, <2>3 DEF FinishStart, Next
  <2> QED BY <2>2, <2>3
<1>2. CASE LCommand
  BY <1>2 DEF LCommand, Next
<1>3. ASSUME NEW e \in Evs, LOnTimerEvent(e) PROVE [Next]_vars
  BY <1>3 DEF LOnTimerEvent, BeginStart, Next
<1>4. ASSUME NEW p \in Pids, LOnSIGCHILD(p) PROVE [Next]_vars
  BY <1>4 DEF LOnSIGCHILD, Next
<1>5. ASSUME NEW p \in Pids, NEW c \in ExitCodes, LScriptExits(p, c) PROVE [Next]_vars
  BY <1>5 DEF LScriptExits, Next
<1> QED BY <1>1, <1>2, <1>3, <1>4, <1>5

-----------------------------------------------------------------------------
(* The child between fork and exec *)

\* What is known of the child: it is started for a task by a command or by a timer, and
\* once it has told its parent it is tied to it and the parent lives.
ChildInv ==
  /\ child = NoChild \/ (child.task \in Ids /\ child.ev \in Evs \cup {NoEv})
  /\ child.told \in BOOLEAN /\ child.tied \in BOOLEAN /\ child.parent \in BOOLEAN
  /\ child = NoChild \/ child = [task |-> child.task, pid |-> child.pid, ev |-> child.ev,
                                 tied |-> child.tied, told |-> child.told, parent |-> child.parent]
  /\ child.told => child.tied /\ child.parent

\* There is no child at the start, and none when it is gone.
LEMMA NoChildInv == child = NoChild => ChildInv
BY DEF ChildInv, NoChild

\* The end of the manager takes a tied child along; one that has told is tied.
LEMMA ManagerEndsChild == ChildInv /\ ManagerEnds => ChildInv'
<1> SUFFICES ASSUME ChildInv, ManagerEnds PROVE ChildInv'
  OBVIOUS
<1>1. CASE ~child.parent
  <2>1. child' = child
    BY <1>1 DEF ManagerEnds
  <2> QED BY <2>1 DEF ChildInv
<1>2. CASE child.parent /\ child.tied
  <2>1. child' = NoChild
    BY <1>2 DEF ManagerEnds
  <2> QED BY <2>1 DEF ChildInv, NoChild
<1>3. CASE child.parent /\ ~child.tied
  <2>1. child' = [child EXCEPT !.parent = FALSE]
    BY <1>3 DEF ManagerEnds
  <2>2. child # NoChild /\ ~child.told
    BY <1>3 DEF ChildInv, NoChild
  <2> QED BY <1>3, <2>1, <2>2 DEF ChildInv
<1> QED BY <1>1, <1>2, <1>3 DEF ChildInv

\* Every step keeps it.
LEMMA NextChild == TypeOK /\ ChildInv /\ [LNext]_lvars => ChildInv'
<1> SUFFICES ASSUME TypeOK, ChildInv, [LNext]_lvars PROVE ChildInv'
  OBVIOUS
<1>1. ASSUME UNCHANGED child PROVE ChildInv'
  BY <1>1 DEF ChildInv
<1>2. ASSUME NEW t \in Ids, NEW e \in Evs \cup {NoEv}, BeginStart(t, e) PROVE ChildInv'
  BY <1>2 DEF BeginStart, ChildInv, NoChild
<1>3. CASE ChildTies
  BY <1>3 DEF ChildTies, ChildInv
<1>4. CASE ChildTells
  BY <1>4 DEF ChildTells, ChildInv, NoChild
<1>5. CASE FinishStart
  BY <1>5 DEF FinishStart, ChildInv, NoChild
<1>6. ASSUME NEW t \in Ids, LStartTask(t) PROVE ChildInv'
  BY <1>2, <1>6 DEF LStartTask
<1>7. ASSUME NEW e \in Evs, LOnTimerEvent(e) PROVE ChildInv'
  BY <1>1, <1>2, <1>7 DEF LOnTimerEvent, mgrVars, TypeOK
<1>8. ASSUME MainEnds PROVE ChildInv'
  BY <1>1, <1>8, ManagerEndsChild DEF MainEnds, mgrVars
<1>9. CASE MgrInit
  BY <1>1, <1>9, ManagerEndsChild DEF MgrInit
<1>10. CASE MgrReady
  BY <1>1, <1>10, ManagerEndsChild DEF MgrReady
<1>11. CASE MainReads \/ WaitReturns \/ Exit \/ MainDies
  BY <1>1, <1>8, <1>11 DEF MainReads, WaitReturns, Exit, MainDies, mgrVars
<1>12. CASE Join \/ MgrDies
  BY <1>12, ManagerEndsChild DEF Join, MgrDies
<1>13. CASE MainStarts \/ MgrTies \/ IOStarts \/ MainServes \/ MainCloses \/ SigHandler
            \/ onCmdSockEventCb \/ onIOSockEventCb \/ LCommand
  BY <1>1, <1>13 DEF MainStarts, MgrTies, IOStarts, MainServes, MainCloses, SigHandler,
     onCmdSockEventCb, onIOSockEventCb, LCommand, mgrVars
<1>14. ASSUME NEW p \in Pids, LOnSIGCHILD(p) PROVE ChildInv'
  BY <1>1, <1>14 DEF LOnSIGCHILD
<1>15. ASSUME NEW p \in Pids, NEW c \in ExitCodes, LScriptExits(p, c) PROVE ChildInv'
  BY <1>1, <1>15 DEF LScriptExits, mgrVars
<1>16. CASE UNCHANGED lvars
  BY <1>1, <1>16 DEF lvars, mgrVars
<1> QED BY <1>3, <1>4, <1>5, <1>6, <1>7, <1>9, <1>10, <1>11, <1>12, <1>13, <1>14, <1>15, <1>16
        DEF LNext

-----------------------------------------------------------------------------
(* Where the processes are *)

\* The program counters of main, of the manager and of its IO thread; the command
\* thread of CmdMgr is up while the manager is past its start, and so is the IO thread.
PlacesOK ==
  /\ main \in {"gone", "waits", "ready", "serves", "closing", "closed"}
  /\ mgr \in {"gone", "forked", "tied", "starting", "loops", "joins"}
  /\ io \in {"gone", "starting", "runs", "ended"}
  /\ readyByte \in BOOLEAN
  /\ up <=> mgr \in {"starting", "loops", "joins"}
  /\ up <=> io # "gone"

ChildRecords ==
  [task : Ids, pid : Pids, ev : Evs \cup {NoEv}, tied : BOOLEAN, told : BOOLEAN, parent : BOOLEAN]

\* The end of the manager, whoever brings it about.
LEMMA ManagerEndsPlaces ==
  ASSUME PlacesOK, ManagerEnds, main' \in {"gone", main}, readyByte' \in BOOLEAN
  PROVE  PlacesOK'
<1>1. ~up'
  BY DEF ManagerEnds, Die, Terminate, vars, PlacesOK
<1> QED BY <1>1 DEF ManagerEnds, PlacesOK

\* The end of main.
LEMMA MainEndsPlaces == ASSUME PlacesOK, MainEnds PROVE PlacesOK'
<1>1. CASE mgr \in {"gone", "forked"}
  BY <1>1 DEF MainEnds, PlacesOK, mgrVars, vars
<1>2. CASE mgr \notin {"gone", "forked"}
  BY <1>2, ManagerEndsPlaces DEF MainEnds
<1> QED BY <1>1, <1>2

\* Every step.
LEMMA NextPlaces == PlacesOK /\ ChildInv /\ [LNext]_lvars => PlacesOK'
<1> SUFFICES ASSUME PlacesOK, ChildInv, [LNext]_lvars PROVE PlacesOK'
  OBVIOUS
<1>1. CASE MainStarts \/ MgrTies \/ IOStarts \/ MainServes \/ MainCloses \/ SigHandler
  BY <1>1 DEF MainStarts, MgrTies, IOStarts, MainServes, MainCloses, SigHandler, PlacesOK,
     mainVars, mgrVars, vars
<1>2. CASE MgrInit
  <2>1. CASE Restart /\ mgr' = "starting" /\ io' = "starting"
    BY <1>2, <2>1 DEF MgrInit, Restart, PlacesOK, mainVars
  <2>2. CASE ManagerEnds
    BY <1>2, <2>2, ManagerEndsPlaces DEF MgrInit, PlacesOK, mainVars
  <2> QED BY <1>2, <2>1, <2>2 DEF MgrInit
<1>3. CASE MgrReady
  <2>1. CASE HttpEndsOpen
    BY <1>3, <2>1 DEF MgrReady, PlacesOK, vars
  <2>2. CASE ~HttpEndsOpen
    BY <1>3, <2>2, ManagerEndsPlaces DEF MgrReady, PlacesOK, mainVars
  <2> QED BY <2>1, <2>2
<1>4. CASE MainReads
  <2>1. CASE readyByte
    <3>1. main' = "ready" /\ readyByte' = FALSE /\ UNCHANGED <<vars, mgrVars>>
      BY <1>4, <2>1, Zenon DEF MainReads
    <3> QED BY <3>1 DEF PlacesOK, vars, mgrVars
  <2> QED BY <1>4, <2>1, MainEndsPlaces DEF MainReads
<1>5. CASE WaitReturns \/ Exit \/ MainDies
  BY <1>5, MainEndsPlaces DEF WaitReturns, Exit, MainDies
<1>6. CASE Join \/ MgrDies
  BY <1>6, ManagerEndsPlaces DEF Join, MgrDies, PlacesOK, mainVars
<1>7. CASE onCmdSockEventCb \/ onIOSockEventCb
  BY <1>7 DEF onCmdSockEventCb, onIOSockEventCb, CmdThreadFree, PlacesOK, mainVars, vars
<1>8. ASSUME UNCHANGED <<mainVars, mgr, io>>, up' = up PROVE PlacesOK'
  BY <1>8 DEF PlacesOK, mainVars
<1>9. CASE ChildTies \/ ChildTells \/ \E t \in Ids : LStartTask(t)
  BY <1>8, <1>9 DEF ChildTies, ChildTells, LStartTask, BeginStart, vars
<1>10. CASE FinishStart
  BY <1>8, <1>10 DEF FinishStart, StartTask, OnTimerEvent
<1>11. CASE LCommand
  BY <1>8, <1>11 DEF LCommand, CreateTask, StopTask, DeleteTask, mgrVars
<1>12. ASSUME NEW e \in Evs, LOnTimerEvent(e) PROVE PlacesOK'
  BY <1>8, <1>12 DEF LOnTimerEvent, BeginStart, OnTimerEvent, mgrVars, vars
<1>13. ASSUME NEW p \in Pids, LOnSIGCHILD(p) PROVE PlacesOK'
  <2>1. up
    BY <1>13 DEF LOnSIGCHILD, CmdThreadFree, PlacesOK
  <2>2. up' \in {up, FALSE}
    BY <1>13 DEF LOnSIGCHILD, OnSIGCHILD, Reap, Die, Terminate
  <2>3. CASE up'
    BY <1>8, <1>13, <2>1, <2>2, <2>3 DEF LOnSIGCHILD
  <2>4. CASE ~up'
    BY <1>13, <2>4 DEF LOnSIGCHILD, PlacesOK, mainVars
  <2> QED BY <2>3, <2>4
<1>14. ASSUME NEW p \in Pids, NEW c \in ExitCodes, LScriptExits(p, c) PROVE PlacesOK'
  BY <1>8, <1>14 DEF LScriptExits, ScriptExits, mgrVars
<1>15. CASE UNCHANGED lvars
  BY <1>8, <1>15 DEF lvars, mgrVars, vars
<1> QED BY <1>1, <1>2, <1>3, <1>4, <1>5, <1>6, <1>7, <1>9, <1>10, <1>11, <1>12, <1>13, <1>14,
           <1>15 DEF LNext

\* A child is one of a task, under a pid the kernel had free.
LEMMA NextChildRecord ==
  TypeOK /\ child \in ChildRecords \cup {NoChild} /\ [LNext]_lvars
    => child' \in ChildRecords \cup {NoChild}
<1> SUFFICES ASSUME TypeOK, child \in ChildRecords \cup {NoChild}, [LNext]_lvars
             PROVE  child' \in ChildRecords \cup {NoChild}
  OBVIOUS
<1>1. ASSUME NEW t \in Ids, NEW e \in Evs \cup {NoEv}, BeginStart(t, e)
      PROVE  child' \in ChildRecords
  BY <1>1 DEF BeginStart, ChildRecords
<1>2. ASSUME ManagerEnds PROVE child' \in ChildRecords \cup {NoChild}
  <2>1. CASE child \in ChildRecords
    BY <1>2, <2>1 DEF ManagerEnds, ChildRecords
  <2>2. CASE child = NoChild
    BY <1>2, <2>2 DEF ManagerEnds, NoChild
  <2> QED BY <2>1, <2>2
<1>3. ASSUME MainEnds PROVE child' \in ChildRecords \cup {NoChild}
  BY <1>2, <1>3 DEF MainEnds, mgrVars
<1>4. CASE ChildTies \/ ChildTells
  BY <1>4 DEF ChildTies, ChildTells, ChildRecords
<1>5. CASE FinishStart
  BY <1>5 DEF FinishStart
<1>6. ASSUME NEW t \in Ids, LStartTask(t) PROVE child' \in ChildRecords
  BY <1>1, <1>6 DEF LStartTask
<1>7. ASSUME NEW e \in Evs, LOnTimerEvent(e) PROVE child' \in ChildRecords \cup {NoChild}
  BY <1>1, <1>7 DEF LOnTimerEvent, mgrVars, TypeOK
<1>8. CASE MgrInit \/ MgrReady \/ Join \/ MgrDies
  BY <1>2, <1>8 DEF MgrInit, MgrReady, Join, MgrDies
<1>9. CASE MainReads \/ WaitReturns \/ Exit \/ MainDies
  BY <1>3, <1>9 DEF MainReads, WaitReturns, Exit, MainDies, mgrVars
<1>10. CASE MainStarts \/ MgrTies \/ IOStarts \/ MainServes \/ MainCloses \/ SigHandler
            \/ onCmdSockEventCb \/ onIOSockEventCb \/ LCommand
  BY <1>10 DEF MainStarts, MgrTies, IOStarts, MainServes, MainCloses, SigHandler,
     onCmdSockEventCb, onIOSockEventCb, LCommand, mgrVars
<1>11. ASSUME NEW p \in Pids, LOnSIGCHILD(p) PROVE UNCHANGED child
  BY <1>11 DEF LOnSIGCHILD
<1>12. ASSUME NEW p \in Pids, NEW c \in ExitCodes, LScriptExits(p, c) PROVE UNCHANGED child
  BY <1>12 DEF LScriptExits, mgrVars
<1>13. CASE UNCHANGED lvars
  BY <1>13 DEF lvars, mgrVars
<1> QED BY <1>4, <1>5, <1>6, <1>7, <1>8, <1>9, <1>10, <1>11, <1>12, <1>13 DEF LNext

-----------------------------------------------------------------------------
(* What follows *)

\* The types of CmdMgr and what is known of the child hold together: each step needs
\* the one for the other.
LInv == TypeOK /\ ChildInv

\* Every step of the processes is a step of the command thread, or none.
LEMMA StepSimulation == ChildInv /\ [LNext]_lvars => [Next]_vars
<1> SUFFICES ASSUME ChildInv, [LNext]_lvars PROVE [Next]_vars
  OBVIOUS
<1>1. CASE \/ FinishStart \/ LCommand
           \/ \E e \in Evs : LOnTimerEvent(e)
           \/ \E p \in Pids : LOnSIGCHILD(p)
           \/ \E p \in Pids, c \in ExitCodes : LScriptExits(p, c)
  BY <1>1, HandlerStep DEF ChildInv
<1>2. CASE MgrInit
  BY <1>2, ManagerEndsStep DEF MgrInit, Next
<1>3. CASE MgrReady \/ Join \/ MgrDies
  BY <1>3, ManagerEndsStep DEF MgrReady, Join, MgrDies
<1>4. CASE MainReads \/ WaitReturns \/ Exit \/ MainDies
  BY <1>4, MainEndsStep DEF MainReads, WaitReturns, Exit, MainDies
<1>5. CASE MainStarts \/ MgrTies \/ IOStarts \/ MainServes \/ MainCloses \/ SigHandler
           \/ onCmdSockEventCb \/ onIOSockEventCb \/ ChildTies \/ ChildTells
  BY <1>5 DEF MainStarts, MgrTies, IOStarts, MainServes, MainCloses, SigHandler,
     onCmdSockEventCb, onIOSockEventCb, ChildTies, ChildTells
<1>6. ASSUME NEW t \in Ids, LStartTask(t) PROVE UNCHANGED vars
  BY <1>6 DEF LStartTask, BeginStart
<1>7. CASE UNCHANGED lvars
  BY <1>7 DEF lvars
<1> QED BY <1>1, <1>2, <1>3, <1>4, <1>5, <1>6, <1>7 DEF LNext

\* Both hold of every reachable state.
LEMMA LInvariance == LSpec => []LInv
<1>1. LInit => LInv
  BY InitType, NoChildInv DEF LInit, LInv
<1>2. LInv /\ [LNext]_lvars => LInv'
  BY StepSimulation, NextType, NextChild DEF LInv
<1> QED BY <1>1, <1>2, PTL DEF LSpec

\* Types of the processes: main, the manager and its IO thread are where the code can
\* be, the command thread is up between TaskDBHelper::init and the exit of the manager,
\* and a child is known by its task, pid and timer until it is a script.
THEOREM LTypeCorrect == LSpec => []LTypeOK
<1> DEFINE Inv == LInv /\ PlacesOK /\ child \in ChildRecords \cup {NoChild}
<1>1. LInit => Inv
  BY InitType, NoChildInv DEF LInit, LInv, PlacesOK, Init
<1>2. Inv /\ [LNext]_lvars => Inv'
  BY StepSimulation, NextType, NextChild, NextPlaces, NextChildRecord DEF LInv
<1>3. Inv => LTypeOK
  <2>1. TypeOK /\ PlacesOK => up = (mgr \in {"starting", "loops", "joins"}) /\ up = (io # "gone")
    BY DEF TypeOK, PlacesOK
  <2> QED BY <2>1 DEF LInv, LTypeOK, PlacesOK, ChildRecords
<1> QED BY <1>1, <1>2, <1>3, PTL DEF LSpec

\* However the manager and main die around a fork, a child that goes on to become a
\* script has a living manager that knows how to stop it.
THEOREM StartedUnder == LSpec => []StartedUnderManager
<1>1. LInv => StartedUnderManager
  BY DEF LInv, ChildInv, StartedUnderManager
<1> QED BY <1>1, LInvariance, PTL

\* The processes implement the command thread of CmdMgr.
THEOREM LifecycleImplements == LSpec => ImplementsCmdMgr
<1>1. LInit => Init
  BY DEF LInit
<1>2. LInv /\ [LNext]_lvars => [Next]_vars
  BY StepSimulation DEF LInv
<1> QED BY <1>1, <1>2, LInvariance, PTL DEF LSpec, Spec, ImplementsCmdMgr

\* So what is proved of CmdMgr holds while starts are under way, processes die and the
\* program is started again: one script per task, none without its task, a table in
\* step with the kernel, a true status.
THEOREM LifecycleCorrect ==
  LSpec => [](/\ RunningTableMatchesChildren /\ OneProcessPerTask
              /\ LiveScriptHasTask /\ StatusTruthful)
BY LifecycleImplements, TableCorrect, MutualExclusion, NoOrphans, StatusCorrect, PTL
   DEF ImplementsCmdMgr
=============================================================================
