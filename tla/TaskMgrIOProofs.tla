-------------------------- MODULE TaskMgrIOProofs --------------------------
(***************************************************************************)
(* Descriptor numbers: the command thread knows them (mFds), the IO thread *)
(* has entries under them (fd2IOData), the kernel closes them and hands    *)
(* them out again, and messages about them are on their way.  Proved here  *)
(* is that the four stay together, for every number of tasks, processes,   *)
(* descriptors and pending messages.                                       *)
(***************************************************************************)
EXTENDS TaskMgrProofs, FiniteSetTheorems, SequenceTheorems

USE IOAssumption

-----------------------------------------------------------------------------
(* The numbers a start gets *)

FreeNumbers(f) == {g \in 1 .. f : fds[g] = Closed}

\* How many numbers up to f are free, from one f to the next.
LEMMA FreeUpToNext ==
  /\ FreeUpTo(0) = 0
  /\ \A f \in Nat : FreeUpTo(f) \in Nat
  /\ \A f \in Nat : FreeUpTo(f + 1) =
       IF fds[f + 1] = Closed THEN FreeUpTo(f) + 1 ELSE FreeUpTo(f)
<1>1. \A f \in Nat : FreeUpTo(f) = Cardinality(FreeNumbers(f))
  BY DEF FreeUpTo, FreeNumbers
<1>2. \A f \in Nat : IsFiniteSet(FreeNumbers(f))
  <2> TAKE f \in Nat
  <2>1. IsFiniteSet(1 .. f) /\ FreeNumbers(f) \in SUBSET (1 .. f)
    BY FS_Interval DEF FreeNumbers
  <2> QED BY <2>1, FS_Subset
<1>3. FreeUpTo(0) = 0
  <2>1. FreeNumbers(0) = {}
    BY DEF FreeNumbers
  <2> QED BY <1>1, <2>1, FS_EmptySet
<1>4. \A f \in Nat : FreeUpTo(f) \in Nat
  BY <1>1, <1>2, FS_CardinalityType
<1>5. ASSUME NEW f \in Nat
      PROVE  FreeUpTo(f + 1) = IF fds[f + 1] = Closed THEN FreeUpTo(f) + 1 ELSE FreeUpTo(f)
  <2>1. f + 1 \notin FreeNumbers(f) /\ f + 1 \in Nat
    BY DEF FreeNumbers
  <2>2. CASE fds[f + 1] = Closed
    <3>1. FreeNumbers(f + 1) = FreeNumbers(f) \cup {f + 1}
      BY <2>2 DEF FreeNumbers
    <3>2. Cardinality(FreeNumbers(f) \cup {f + 1}) = Cardinality(FreeNumbers(f)) + 1
      BY <1>2, <2>1, FS_AddElement
    <3> QED BY <1>1, <2>1, <2>2, <3>1, <3>2
  <2>3. CASE fds[f + 1] # Closed
    <3>1. FreeNumbers(f + 1) = FreeNumbers(f)
      BY <2>3 DEF FreeNumbers
    <3> QED BY <1>1, <2>1, <2>3, <3>1
  <2> QED BY <2>2, <2>3
<1> QED BY <1>3, <1>4, <1>5

\* A set of natural numbers has a least one.
LEMMA LeastNumber ==
  ASSUME NEW S \in SUBSET Nat, S # {}
  PROVE  \E n \in S : \A m \in S : ~(m < n)
<1>1. PICK n \in S : \A m \in S : ~(<<m, n>> \in OpToRel(<, Nat))
  BY NatLessThanWellFounded, WFMin
<1>2. \A m \in S : ~(m < n)
  BY <1>1 DEF OpToRel
<1> QED BY <1>2

\* While six numbers are free, there is a k-th lowest free one for k up to six.
LEMMA FreeIsFree ==
  ASSUME CanOpen, NEW k \in 1 .. 6
  PROVE  Free(k) \in Fds /\ fds[Free(k)] = Closed /\ FreeUpTo(Free(k)) = k
<1> DEFINE S == {f \in 0 .. MaxFd : FreeUpTo(f) >= k}
<1>1. S \in SUBSET Nat /\ MaxFd \in S
  BY FreeUpToNext DEF CanOpen
<1>2. PICK n \in S : \A m \in S : ~(m < n)
  <2> HIDE DEF S
  <2> QED BY <1>1, LeastNumber
<1>3. n \in 0 .. MaxFd /\ FreeUpTo(n) >= k
  BY <1>2
<1>4. n # 0
  BY <1>3, FreeUpToNext
<1>5. n - 1 \in Nat /\ n - 1 + 1 = n /\ n - 1 \in 0 .. MaxFd
  BY <1>3, <1>4
<1>6. ~(FreeUpTo(n - 1) >= k)
  <2>1. n - 1 \notin S
    BY <1>2, <1>5
  <2> QED BY <1>5, <2>1
<1>7. FreeUpTo(n) = IF fds[n] = Closed THEN FreeUpTo(n - 1) + 1 ELSE FreeUpTo(n - 1)
  BY <1>5, FreeUpToNext
<1>8. fds[n] = Closed /\ FreeUpTo(n) = k
  BY <1>3, <1>5, <1>6, <1>7, FreeUpToNext
<1>9. \E f \in Fds : fds[f] = Closed /\ FreeUpTo(f) = k
  BY <1>3, <1>4, <1>8 DEF Fds
<1> QED BY <1>9 DEF Free

\* The parent keeps three different numbers.
LEMMA KeptAreFree ==
  ASSUME CanOpen
  PROVE  /\ KeptFds \in [stdin : Fds, stdout : Fds, stderr : Fds]
         /\ fds[KeptFds.stdin] = Closed /\ fds[KeptFds.stdout] = Closed
         /\ fds[KeptFds.stderr] = Closed
         /\ KeptFds.stdin # KeptFds.stdout /\ KeptFds.stdin # KeptFds.stderr
         /\ KeptFds.stdout # KeptFds.stderr
<1>1. Free(2) \in Fds /\ fds[Free(2)] = Closed /\ FreeUpTo(Free(2)) = 2
  BY FreeIsFree
<1>2. Free(3) \in Fds /\ fds[Free(3)] = Closed /\ FreeUpTo(Free(3)) = 3
  BY FreeIsFree
<1>3. Free(5) \in Fds /\ fds[Free(5)] = Closed /\ FreeUpTo(Free(5)) = 5
  BY FreeIsFree
<1> QED BY <1>1, <1>2, <1>3 DEF KeptFds

-----------------------------------------------------------------------------
(* The kinds of steps, as far as descriptors go *)

FdRecord == [kind : {"closed", "leaked", "stdin"} \cup OutKinds, task : Nat,
             peer : {"script", "descendant", "none"}, data : 0 .. MaxData, bev : BOOLEAN]
IOData == [task : Nat, redirect : BOOLEAN]
MsgTypes == {"ADD_FD", "REMOVE_FD", "ENABLE_FD_REDIRECT", "DISABLE_FD_REDIRECT",
             "PUT_DATA_TO_FD"}
Kinds == {"stdin"} \cup OutKinds
Messages == [msgType : MsgTypes, fd : Fds, fdType : Kinds, task : Nat, tie : BOOLEAN]
TaskFds == [stdin : Fds, stdout : Fds, stderr : Fds]

\* The type invariant in these words.
LEMMA TypesNamed ==
  TTypeOK <=> /\ fds \in [Fds -> FdRecord] /\ fd2IOData \in [Fds -> IOData]
              /\ ioQueue \in Seq(Messages) /\ crash \in Causes /\ overtaken \in BOOLEAN
              /\ mFds \in [Ids -> TaskFds \cup {NoFds}]
BY DEF TTypeOK, IOTypeOK, FdRecord, IOData, MsgTypes, Kinds, Messages, TaskFds

\* The table knows the descriptors of the tasks that run, and of no others.
TableKnown ==
  \A t \in Ids : IF isTaskRunning(t) THEN mFds[t] \in TaskFds ELSE mFds[t] = NoFds

\* An exception has ended the process, and an end leaves no message and no task.
CrashEnds ==
  IF up THEN crash = "none" ELSE ioQueue = <<>> /\ \A t \in Ids : ~isTaskRunning(t)

\* A script is forked, and its task may get into the table.
Opening(t) ==
  /\ ~isTaskRunning(t)
  /\ \A x \in Ids \ {t} : isTaskRunning(x)' <=> isTaskRunning(x)
  /\ CanOpen /\ StartIO(t)

\* Numbers are used up, pipes are filled or lose an end; or nothing happens to them.
Still ==
  /\ \/ UNCHANGED fds
     \/ LeakPipes
     \/ \E t \in Ids, left \in {"descendant", "none"} : ScriptEnds(t, left)
     \/ \E f \in Fds : ScriptWrites(f)
     \/ \E t \in Ids : DescendantsEnd(t)
  /\ UNCHANGED <<fd2IOData, ioQueue, crash, overtaken, mFds, taskId2RunningTask>>

\* A command about a running task is posted.
Ordering(t) ==
  /\ isTaskRunning(t)
  /\ enableRedirect(t, mFds[t]) \/ disableRedirect(t, mFds[t]) \/ putToStdin(t, mFds[t])
  /\ UNCHANGED <<fds, fd2IOData, crash, overtaken, mFds, taskId2RunningTask>>

\* A task leaves the table.
Reaping(t) ==
  /\ isTaskRunning(t) /\ ~isTaskRunning(t)'
  /\ \A x \in Ids \ {t} : isTaskRunning(x)' <=> isTaskRunning(x)
  /\ removeFds(t, mFds[t]) /\ mFds' = [mFds EXCEPT ![t] = NoFds]
  /\ UNCHANGED <<fds, fd2IOData, crash, overtaken>>

\* A callback of the IO thread that throws nothing.
Calling ==
  /\ \/ \E i \in Ready : /\ MsgCause(ioQueue[i]) = "none"
                         /\ Handle(ioQueue[i]) /\ Consume(i) /\ UNCHANGED crash
                         /\ overtaken' = (overtaken \/ Overtakes(i))
     \/ \E f \in Fds : fdReadDelegate(f) /\ hasFd(f)
     \/ \E f \in Fds : onFdEventCb(f)
  /\ UNCHANGED <<mFds, taskId2RunningTask>>

\* The process ends.
Ending ==
  /\ mFds' = [t \in Ids |-> NoFds]
  /\ \A t \in Ids : ~isTaskRunning(t)'
  /\ \/ \E cause \in Causes \ {"redirect", "remove"} : IODown(cause) /\ UNCHANGED overtaken
     \/ \E i \in Ready : /\ IODown(MsgCause(ioQueue[i]))
                         /\ overtaken' = (overtaken \/ Overtakes(i))

\* It is started again.
Resuming ==
  /\ ~up
  /\ crash' = "none" /\ overtaken' = FALSE
  /\ UNCHANGED <<fds, fd2IOData, ioQueue, mFds, taskId2RunningTask>>

IOStepKind ==
  \/ \E t \in Ids : Opening(t) \/ Ordering(t) \/ Reaping(t)
  \/ Still \/ Calling \/ Ending \/ Resuming

\* A start changes the entry of its own task at most.
LEMMA StartKind ==
  ASSUME TypeOK, NEW t \in Ids, DoStart(t), CanOpen, StartIO(t)
  PROVE  Opening(t)
<1>1. ~isTaskRunning(t)
  BY DEF DoStart, CanStart
<1>2. PICK p \in Pids : StartAs(t, p)
  BY DEF DoStart
<1>3. \A x \in Ids \ {t} : taskId2RunningTask'[x] = taskId2RunningTask[x]
  BY <1>2 DEF StartAs, RunningTaskAdd, TypeOK
<1> QED BY <1>1, <1>3 DEF Opening, isTaskRunning

\* A callback of the IO thread.
LEMMA CallbackKind ==
  ASSUME CrashEnds, (\E i \in Ready : OnMsg(i)) \/ \E f \in Fds : OnReadable(f) \/ OnEOF(f)
  PROVE  Calling \/ Ending
<1>1. up /\ crash = "none"
  BY DEF OnMsg, OnReadable, OnEOF, IOThread, CrashEnds
<1>2. crash' # "none" => mFds' = [t \in Ids |-> NoFds] /\ \A t \in Ids : ~isTaskRunning(t)'
  BY DEF OnMsg, OnReadable, OnEOF, IOThread, Terminate, isTaskRunning
<1>3. crash' = "none" => UNCHANGED <<mFds, taskId2RunningTask>>
  BY DEF OnMsg, OnReadable, OnEOF, IOThread, vars, tableVars
<1>4. ASSUME NEW i \in Ready, onMsgEventCb(i) PROVE Calling \/ Ending
  <2>1. CASE MsgCause(ioQueue[i]) = "none"
    BY <1>1, <1>3, <1>4, <2>1 DEF onMsgEventCb, Calling
  <2>2. CASE MsgCause(ioQueue[i]) # "none"
    <3>1. IODown(MsgCause(ioQueue[i])) /\ overtaken' = (overtaken \/ Overtakes(i))
      BY <1>4, <2>2 DEF onMsgEventCb
    <3>2. crash' # "none"
      BY <2>2, <3>1 DEF IODown
    <3> QED BY <1>2, <3>1, <3>2 DEF Ending
  <2> QED BY <2>1, <2>2
<1>5. ASSUME NEW f \in Fds, fdReadDelegate(f) PROVE Calling \/ Ending
  <2>1. CASE hasFd(f)
    BY <1>1, <1>3, <1>5, <2>1 DEF fdReadDelegate, Calling
  <2>2. CASE ~hasFd(f)
    <3>1. IODown("read") /\ UNCHANGED overtaken /\ "read" \in Causes \ {"redirect", "remove"}
      BY <1>5, <2>2 DEF fdReadDelegate, Causes
    <3>2. crash' # "none"
      BY <3>1 DEF IODown
    <3> QED BY <1>2, <3>1, <3>2 DEF Ending
  <2> QED BY <2>1, <2>2
<1>6. ASSUME NEW f \in Fds, onFdEventCb(f) PROVE Calling
  BY <1>1, <1>3, <1>6 DEF onFdEventCb, Calling
<1> QED BY <1>4, <1>5, <1>6 DEF OnMsg, OnReadable, OnEOF, IOThread

\* The end of the process in a handler.
LEMMA DownKind ==
  ASSUME Terminate, AllDown
  PROVE  Ending
<1>1. "none" \in Causes \ {"redirect", "remove"}
  BY DEF Causes
<1> QED BY <1>1 DEF Ending, Terminate, AllDown, isTaskRunning

\* The handler of SIGCHLD.
LEMMA ReapKind ==
  ASSUME TypeOK, RunningTableMatchesChildren, NEW p \in Pids, TOnSIGCHILD(p)
  PROVE  Ending \/ \E t \in Ids : Reaping(t)
<1>1. CASE Reap(p) /\ up'
  <2>1. pid2RunningTask[p] \in Ids
    BY <1>1 DEF Reap, CannotReap, TypeOK
  <2>2. PICK t \in Ids : t = pid2RunningTask[p]
    BY <2>1
  <2>3. taskId2RunningTask[t] = p /\ p # NoPid
    BY <2>2, DBAssumption DEF RunningTableMatchesChildren, Ids
  <2>4. taskId2RunningTask' = [taskId2RunningTask EXCEPT ![t] = NoPid]
    BY <1>1, <2>2 DEF Reap, RunningTaskRemoveByPid
  <2>5. removeFds(t, mFds[t]) /\ mFds' = [mFds EXCEPT ![t] = NoFds]
        /\ UNCHANGED <<fds, fd2IOData, crash, overtaken>>
    BY <1>1, <2>2 DEF TOnSIGCHILD
  <2>6. isTaskRunning(t) /\ ~isTaskRunning(t)'
        /\ \A x \in Ids \ {t} : isTaskRunning(x)' <=> isTaskRunning(x)
    BY <2>3, <2>4 DEF TypeOK, isTaskRunning
  <2> QED BY <2>5, <2>6 DEF Reaping
<1>2. CASE Terminate /\ ~up'
  BY <1>2, DownKind DEF TOnSIGCHILD
<1> QED BY <1>1, <1>2 DEF TOnSIGCHILD, OnSIGCHILD, Reap, Terminate

\* Every step is of one of these kinds.
LEMMA Kind ==
  ASSUME TypeOK, RunningTableMatchesChildren, CrashEnds, [TNext]_allVars
  PROVE  IOStepKind
<1>1. ASSUME NEW c \in Configs, CreateTask(c), UNCHANGED <<ioVars, mFds>> PROVE Still
  BY <1>1 DEF CreateTask, tableVars, ioVars, Still
<1>2. ASSUME NEW t \in Ids, TStartTask(t) PROVE Opening(t)
  BY <1>2, StartKind DEF TStartTask, StartTask
<1>3. ASSUME NEW t \in Ids, FailedStart(t) PROVE Still
  BY <1>3 DEF FailedStart, vars, tableVars, Still
<1>4. ASSUME NEW t \in Ids, EndIO(t), UNCHANGED taskId2RunningTask PROVE Still
  BY <1>4 DEF EndIO, Still
<1>5. ASSUME NEW t \in Ids, TStopTask(t) \/ TDeleteTask(t) PROVE Still
  BY <1>4, <1>5 DEF TStopTask, StopTask, TDeleteTask, DeleteTask
<1>6. ASSUME NEW p \in Pids, NEW c \in ExitCodes, TScriptExits(p, c) PROVE Still
  <2>1. procs[p].state = "alive" /\ UNCHANGED taskId2RunningTask /\ EndIO(procs[p].task)
    BY <1>6 DEF TScriptExits, ScriptExits
  <2>2. procs[p] # NoProc
    BY <2>1, NoProcState
  <2>3. procs[p].task \in Ids
    BY <2>2 DEF TypeOK, Child
  <2> QED BY <1>4, <2>1, <2>3
<1>7. ASSUME NEW t \in Ids, IOCommand(t) PROVE Ordering(t)
  BY <1>7 DEF IOCommand, vars, tableVars, Ordering
<1>8. ASSUME NEW e \in Evs, TOnTimerEvent(e) PROVE Still \/ \E t \in Ids : Opening(t)
  <2>1. timers[e] \in Ids
    BY <1>8 DEF TOnTimerEvent, OnTimerEvent, TypeOK
  <2>2. CASE DoStart(timers[e])
    <3>1. Forks /\ CanStart(timers[e])
      BY <2>2 DEF DoStart, StartAs, Fork, Forks, TypeOK, NoProc
    <3>2. CanOpen /\ StartIO(timers[e])
      BY <1>8, <3>1 DEF TOnTimerEvent
    <3> QED BY <2>1, <2>2, <3>2, StartKind
  <2>3. CASE UNCHANGED tableVars
    <3>1. ~Forks
      BY <2>3 DEF tableVars, Forks
    <3> QED BY <1>8, <2>3, <3>1 DEF TOnTimerEvent, FailedTimerIO, ioVars, tableVars, Still
  <2> QED BY <1>8, <2>2, <2>3 DEF TOnTimerEvent, OnTimerEvent
<1>9. CASE Outside
  BY <1>9 DEF Outside, ScriptWrites, DescendantsEnd, vars, tableVars, Still, IOStepKind
<1>10. CASE TDie
  BY <1>10, DownKind DEF TDie, Die, IOStepKind
<1>11. CASE TRestart
  BY <1>11 DEF TRestart, Restart, tableVars, Resuming, IOStepKind
<1>12. CASE UNCHANGED allVars
  BY <1>12 DEF allVars, vars, tableVars, ioVars, Still, IOStepKind
<1> QED
  BY <1>1, <1>2, <1>3, <1>5, <1>6, <1>7, <1>8, <1>9, <1>10, <1>11, <1>12, ReapKind,
     CallbackKind DEF TNext, IOStepKind

-----------------------------------------------------------------------------
(* What is posted *)

\* The message is about this descriptor of this task.
IsMessage(m, type, f, kind, t) ==
  m.msgType = type /\ m.fd = f /\ m.fdType = kind /\ m.task = t

\* The queue grows by n messages at its end.
GrowsBy(n) ==
  /\ ioQueue' \in Seq(Messages)
  /\ Len(ioQueue') = Len(ioQueue) + n
  /\ \A i \in 1 .. Len(ioQueue) : ioQueue'[i] = ioQueue[i]

\* The messages that are posted, in their order.
LEMMA PostEffect ==
  ASSUME ioQueue \in Seq(Messages), NEW type \in MsgTypes, NEW kinds \in Seq(Kinds),
         NEW fdsOf, \A k \in Kinds : fdsOf[k] \in Fds, NEW t \in Ids,
         Post(type, kinds, fdsOf, t)
  PROVE  /\ GrowsBy(Len(kinds))
         /\ \A i \in 1 .. Len(kinds) :
              IsMessage(ioQueue'[Len(ioQueue) + i], type, fdsOf[kinds[i]], kinds[i], t)
<1>1. PICK tie \in [1 .. Len(kinds) -> BOOLEAN] :
        ioQueue' = ioQueue \o
          [i \in 1 .. Len(kinds) |-> Message(type, fdsOf[kinds[i]], kinds[i], t, tie[i])]
  BY DEF Post
<1> DEFINE new == [i \in 1 .. Len(kinds) |->
                     Message(type, fdsOf[kinds[i]], kinds[i], t, tie[i])]
<1>2. Len(kinds) \in Nat /\ \A i \in 1 .. Len(kinds) : kinds[i] \in Kinds
  BY LenProperties
<1>3. \A i \in 1 .. Len(kinds) :
        /\ new[i] \in Messages
        /\ IsMessage(new[i], type, fdsOf[kinds[i]], kinds[i], t)
  <2> TAKE i \in 1 .. Len(kinds)
  <2>1. new[i] = [msgType |-> type, fd |-> fdsOf[kinds[i]], fdType |-> kinds[i], task |-> t,
                  tie |-> tie[i]]
    BY DEF Message
  <2>2. tie[i] \in BOOLEAN
    OBVIOUS
  <2>3. fdsOf[kinds[i]] \in Fds /\ kinds[i] \in Kinds /\ t \in Nat
    BY <1>2 DEF Ids
  <2> HIDE DEF new
  <2> QED BY <2>1, <2>2, <2>3 DEF Messages, IsMessage
<1>4. new \in Seq(Messages) /\ Len(new) = Len(kinds)
  <2>1. new \in [1 .. Len(kinds) -> Messages]
    BY <1>3
  <2> HIDE DEF new
  <2> QED BY <1>2, <2>1
<1> HIDE DEF new
<1>5. ioQueue' = ioQueue \o new
  BY <1>1 DEF new
<1>6. Len(ioQueue) \in Nat
  BY LenProperties
<1>7. /\ ioQueue' \in Seq(Messages) /\ Len(ioQueue') = Len(ioQueue) + Len(kinds)
      /\ \A i \in 1 .. Len(ioQueue) + Len(kinds) :
           ioQueue'[i] = IF i <= Len(ioQueue) THEN ioQueue[i] ELSE new[i - Len(ioQueue)]
  <2>1. ioQueue \o new \in Seq(Messages)
    BY <1>4, ConcatProperties
  <2>2. Len(ioQueue \o new) = Len(ioQueue) + Len(new)
    BY <1>4, ConcatProperties
  <2>3. \A i \in 1 .. Len(ioQueue) + Len(new) : (ioQueue \o new)[i] =
          IF i <= Len(ioQueue) THEN ioQueue[i] ELSE new[i - Len(ioQueue)]
    BY <1>4, ConcatProperties
  <2> QED BY <1>4, <1>5, <2>1, <2>2, <2>3
<1>8. \A i \in 1 .. Len(ioQueue) : ioQueue'[i] = ioQueue[i]
  BY <1>2, <1>6, <1>7
<1>9. \A i \in 1 .. Len(kinds) : ioQueue'[Len(ioQueue) + i] = new[i]
  <2> TAKE i \in 1 .. Len(kinds)
  <2>1. Len(ioQueue) + i \in 1 .. Len(ioQueue) + Len(kinds) /\ ~(Len(ioQueue) + i <= Len(ioQueue))
        /\ Len(ioQueue) + i - Len(ioQueue) = i
    BY <1>2, <1>6
  <2> QED BY <1>7, <2>1
<1> QED BY <1>3, <1>7, <1>8, <1>9 DEF GrowsBy

\* Three messages about the descriptors of a task.
LEMMA PostThree ==
  ASSUME ioQueue \in Seq(Messages), NEW type \in MsgTypes, NEW fdsOf \in TaskFds, NEW t \in Ids,
         Post(type, <<"stdin", "stdout", "stderr">>, fdsOf, t)
  PROVE  /\ GrowsBy(3)
         /\ IsMessage(ioQueue'[Len(ioQueue) + 1], type, fdsOf.stdin, "stdin", t)
         /\ IsMessage(ioQueue'[Len(ioQueue) + 2], type, fdsOf.stdout, "stdout", t)
         /\ IsMessage(ioQueue'[Len(ioQueue) + 3], type, fdsOf.stderr, "stderr", t)
<1> DEFINE kinds == <<"stdin", "stdout", "stderr">>
<1>1. /\ kinds \in Seq(Kinds) /\ Len(kinds) = 3
      /\ kinds[1] = "stdin" /\ kinds[2] = "stdout" /\ kinds[3] = "stderr"
  BY DEF Kinds, OutKinds
<1>2. \A k \in Kinds : fdsOf[k] \in Fds
  BY DEF Kinds, OutKinds, TaskFds
<1> HIDE DEF kinds
<1>3. Post(type, kinds, fdsOf, t)
  BY DEF kinds
<1>4. /\ GrowsBy(Len(kinds))
      /\ \A i \in 1 .. Len(kinds) :
           IsMessage(ioQueue'[Len(ioQueue) + i], type, fdsOf[kinds[i]], kinds[i], t)
  BY <1>1, <1>2, <1>3, PostEffect
<1> QED BY <1>1, <1>4

\* Two messages about the outputs of a task.
LEMMA PostTwo ==
  ASSUME ioQueue \in Seq(Messages), NEW type \in MsgTypes, NEW fdsOf \in TaskFds, NEW t \in Ids,
         Post(type, <<"stdout", "stderr">>, fdsOf, t)
  PROVE  /\ GrowsBy(2)
         /\ IsMessage(ioQueue'[Len(ioQueue) + 1], type, fdsOf.stdout, "stdout", t)
         /\ IsMessage(ioQueue'[Len(ioQueue) + 2], type, fdsOf.stderr, "stderr", t)
<1> DEFINE kinds == <<"stdout", "stderr">>
<1>1. /\ kinds \in Seq(Kinds) /\ Len(kinds) = 2
      /\ kinds[1] = "stdout" /\ kinds[2] = "stderr"
  BY DEF Kinds, OutKinds
<1>2. \A k \in Kinds : fdsOf[k] \in Fds
  BY DEF Kinds, OutKinds, TaskFds
<1> HIDE DEF kinds
<1>3. Post(type, kinds, fdsOf, t)
  BY DEF kinds
<1>4. /\ GrowsBy(Len(kinds))
      /\ \A i \in 1 .. Len(kinds) :
           IsMessage(ioQueue'[Len(ioQueue) + i], type, fdsOf[kinds[i]], kinds[i], t)
  BY <1>1, <1>2, <1>3, PostEffect
<1> QED BY <1>1, <1>4

\* One message about the input of a task.
LEMMA PostOne ==
  ASSUME ioQueue \in Seq(Messages), NEW type \in MsgTypes, NEW fdsOf \in TaskFds, NEW t \in Ids,
         Post(type, <<"stdin">>, fdsOf, t)
  PROVE  /\ GrowsBy(1)
         /\ IsMessage(ioQueue'[Len(ioQueue) + 1], type, fdsOf.stdin, "stdin", t)
<1> DEFINE kinds == <<"stdin">>
<1>1. kinds \in Seq(Kinds) /\ Len(kinds) = 1 /\ kinds[1] = "stdin"
  BY DEF Kinds, OutKinds
<1>2. \A k \in Kinds : fdsOf[k] \in Fds
  BY DEF Kinds, OutKinds, TaskFds
<1> HIDE DEF kinds
<1>3. Post(type, kinds, fdsOf, t)
  BY DEF kinds
<1>4. /\ GrowsBy(Len(kinds))
      /\ \A i \in 1 .. Len(kinds) :
           IsMessage(ioQueue'[Len(ioQueue) + i], type, fdsOf[kinds[i]], kinds[i], t)
  BY <1>1, <1>2, <1>3, PostEffect
<1> QED BY <1>1, <1>4

\* The place in the queue from which the j-th message that is left comes.
Before(i, j) == IF j < i THEN j ELSE j + 1

\* One message is taken out of the queue.
LEMMA ConsumeEffect ==
  ASSUME ioQueue \in Seq(Messages), NEW i \in 1 .. Len(ioQueue), Consume(i)
  PROVE  /\ ioQueue' \in Seq(Messages)
         /\ Len(ioQueue') = Len(ioQueue) - 1
         /\ \A j \in 1 .. Len(ioQueue) - 1 : LET m == ioQueue[Before(i, j)] IN
              /\ IsMessage(ioQueue'[j], m.msgType, m.fd, m.fdType, m.task)
              /\ ioQueue'[j].tie => m.tie
<1> DEFINE rest == RemoveAt(ioQueue, i)
           before == SubSeq(ioQueue, 1, i - 1)
           after == SubSeq(ioQueue, i + 1, Len(ioQueue))
<1>1. Len(ioQueue) \in Nat /\ \A j \in 1 .. Len(ioQueue) : ioQueue[j] \in Messages
  BY LenProperties
<1>2. /\ before \in Seq(Messages) /\ Len(before) = i - 1
      /\ \A j \in 1 .. i - 1 : before[j] = ioQueue[j]
  BY <1>1, SubSeqProperties
<1>3. /\ after \in Seq(Messages) /\ Len(after) = Len(ioQueue) - i
      /\ \A j \in 1 .. Len(ioQueue) - i : after[j] = ioQueue[i + j]
  BY <1>1, SubSeqProperties
<1>4. rest = before \o after
  BY DEF RemoveAt
<1> HIDE DEF before, after, rest
<1>5. /\ rest \in Seq(Messages) /\ Len(rest) = Len(ioQueue) - 1
      /\ \A j \in 1 .. Len(ioQueue) - 1 :
           rest[j] = IF j <= i - 1 THEN before[j] ELSE after[j - (i - 1)]
  <2>1. before \o after \in Seq(Messages)
    BY <1>2, <1>3, ConcatProperties
  <2>2. Len(before \o after) = Len(before) + Len(after)
    BY <1>2, <1>3, ConcatProperties
  <2>3. \A j \in 1 .. Len(before) + Len(after) : (before \o after)[j] =
          IF j <= Len(before) THEN before[j] ELSE after[j - Len(before)]
    BY <1>2, <1>3, ConcatProperties
  <2>4. Len(before) + Len(after) = Len(ioQueue) - 1
    BY <1>1, <1>2, <1>3
  <2> QED BY <1>2, <1>4, <2>1, <2>2, <2>3, <2>4
<1>6. \A j \in 1 .. Len(ioQueue) - 1 : rest[j] = ioQueue[Before(i, j)]
  <2> TAKE j \in 1 .. Len(ioQueue) - 1
  <2>1. CASE j < i
    BY <1>1, <1>2, <1>5, <2>1 DEF Before
  <2>2. CASE ~(j < i)
    <3>1. j - (i - 1) \in 1 .. Len(ioQueue) - i /\ ~(j <= i - 1) /\ i + (j - (i - 1)) = j + 1
      BY <1>1, <2>2
    <3> QED BY <1>3, <1>5, <2>2, <3>1 DEF Before
  <2> QED BY <2>1, <2>2
<1>7. \A j \in 1 .. Len(ioQueue) - 1 : Before(i, j) \in 1 .. Len(ioQueue)
  BY <1>1 DEF Before
<1>8. ioQueue' = IF i = 1 /\ rest # <<>> THEN [rest EXCEPT ![1].tie = FALSE] ELSE rest
  BY DEF Consume, rest
<1>9. CASE i = 1 /\ rest # <<>>
  <2>1. 1 \in 1 .. Len(rest) /\ rest[1] \in Messages
    BY <1>5, <1>9, LenProperties, EmptySeq
  <2>2. [rest[1] EXCEPT !.tie = FALSE] \in Messages
    BY <2>1 DEF Messages
  <2>3. ioQueue' = [rest EXCEPT ![1] = [rest[1] EXCEPT !.tie = FALSE]]
    BY <1>8, <1>9
  <2>4. rest \in [1 .. Len(rest) -> Messages] /\ Len(rest) \in Nat
    BY <1>5, LenProperties
  <2>5. ioQueue' \in [1 .. Len(rest) -> Messages]
    BY <2>2, <2>3, <2>4
  <2>6. ioQueue' \in Seq(Messages) /\ Len(ioQueue') = Len(rest)
    BY <2>4, <2>5
  <2>7. \A j \in 1 .. Len(ioQueue) - 1 :
          /\ j # 1 => ioQueue'[j] = rest[j]
          /\ j = 1 => ioQueue'[j] = [rest[1] EXCEPT !.tie = FALSE]
    BY <1>5, <2>3, <2>4
  <2>8. LET m == ioQueue[Before(i, 1)] IN
          /\ IsMessage([rest[1] EXCEPT !.tie = FALSE], m.msgType, m.fd, m.fdType, m.task)
          /\ ~[rest[1] EXCEPT !.tie = FALSE].tie
    <3>1. rest[1] = ioQueue[Before(i, 1)]
      BY <1>5, <1>6, <2>1
    <3> QED BY <2>1, <3>1 DEF IsMessage, Messages
  <2> QED BY <1>5, <1>6, <1>7, <2>6, <2>7, <2>8 DEF IsMessage
<1>10. CASE ~(i = 1 /\ rest # <<>>)
  BY <1>5, <1>6, <1>8, <1>10 DEF IsMessage
<1> QED BY <1>9, <1>10

-----------------------------------------------------------------------------
(* Types *)

\* A fresh pipe of this task: nobody reads it yet, the script may have lost its end.
IsNewPipe(r, kind, t) == r \in FdRecord /\ r.kind = kind /\ r.task = t /\ ~r.bev

\* The other records a descriptor may get.
LEMMA PipeType ==
  /\ \A kind \in Kinds, t \in Ids : \A closed : IsNewPipe(NewPipe(kind, t, closed), kind, t)
  /\ Closed \in FdRecord /\ ~Closed.bev /\ Closed.kind = "closed"
  /\ Leaked \in FdRecord /\ ~Leaked.bev
<1>1. 0 \in 0 .. MaxData /\ \A t \in Ids : t \in Nat
  BY DEF Ids
<1>2. ASSUME NEW kind \in Kinds, NEW t \in Ids, NEW closed
      PROVE  IsNewPipe(NewPipe(kind, t, closed), kind, t)
  <2>1. PICK peer \in {"script", "none"} :
          NewPipe(kind, t, closed) = [Pipe(kind, t) EXCEPT !.peer = peer]
    BY DEF NewPipe
  <2>2. IsNewPipe(Pipe(kind, t), kind, t)
    BY <1>1 DEF IsNewPipe, Pipe, FdRecord, Kinds
  <2>3. \A r \in FdRecord : LET r2 == [r EXCEPT !.peer = peer] IN
          r2 \in FdRecord /\ r2.kind = r.kind /\ r2.task = r.task /\ r2.bev = r.bev
    BY DEF FdRecord
  <2> QED BY <2>1, <2>2, <2>3 DEF IsNewPipe
<1> QED BY <1>1, <1>2 DEF Closed, Leaked, FdRecord, Kinds, OutKinds

\* What a start does to descriptors and messages.
LEMMA OpeningEffect ==
  ASSUME TTypeOK, NEW t \in Ids, Opening(t)
  PROVE  /\ \E keep \in TaskFds :
              /\ keep.stdin # keep.stdout /\ keep.stdin # keep.stderr
              /\ keep.stdout # keep.stderr
              /\ fds[keep.stdin] = Closed /\ IsNewPipe(fds'[keep.stdin], "stdin", t)
              /\ fds[keep.stdout] = Closed /\ IsNewPipe(fds'[keep.stdout], "stdout", t)
              /\ fds[keep.stderr] = Closed /\ IsNewPipe(fds'[keep.stderr], "stderr", t)
              /\ \A f \in Fds \ {keep.stdin, keep.stdout, keep.stderr} : fds'[f] = fds[f]
              /\ IF isTaskRunning(t)'
                 THEN addFds(t, keep) /\ mFds' = [mFds EXCEPT ![t] = keep]
                 ELSE UNCHANGED <<ioQueue, mFds>>
         /\ DOMAIN fds' = Fds /\ fds' = [f \in Fds |-> fds'[f]]
         /\ UNCHANGED <<fd2IOData, crash, overtaken>>
<1> DEFINE keep == KeptFds
<1>1. keep \in TaskFds /\ keep.stdin # keep.stdout /\ keep.stdin # keep.stderr
      /\ keep.stdout # keep.stderr
      /\ fds[keep.stdin] = Closed /\ fds[keep.stdout] = Closed /\ fds[keep.stderr] = Closed
  BY KeptAreFree DEF Opening, TaskFds
<1> DEFINE closed == getFdsExcept(t)
<1>2. /\ OpenPipes(t, closed) /\ UNCHANGED <<fd2IOData, crash, overtaken>>
      /\ IF isTaskRunning(t)' THEN addFds(t, keep) /\ mFds' = [mFds EXCEPT ![t] = keep]
         ELSE UNCHANGED <<ioQueue, mFds>>
  BY DEF Opening, StartIO, isTaskRunning
<1> HIDE DEF closed
<1>3. fds' = [f \in Fds |-> IF f = keep.stdin THEN NewPipe("stdin", t, closed)
                            ELSE IF f = keep.stdout THEN NewPipe("stdout", t, closed)
                            ELSE IF f = keep.stderr THEN NewPipe("stderr", t, closed)
                            ELSE fds[f]]
  BY <1>2 DEF OpenPipes
<1> HIDE DEF keep
<1>4. keep.stdin \in Fds /\ keep.stdout \in Fds /\ keep.stderr \in Fds
  BY <1>1 DEF TaskFds
<1>5. /\ fds'[keep.stdin] = NewPipe("stdin", t, closed)
      /\ fds'[keep.stdout] = NewPipe("stdout", t, closed)
      /\ fds'[keep.stderr] = NewPipe("stderr", t, closed)
      /\ \A f \in Fds \ {keep.stdin, keep.stdout, keep.stderr} : fds'[f] = fds[f]
  BY <1>1, <1>3, <1>4
<1>6. DOMAIN fds' = Fds /\ fds' = [f \in Fds |-> fds'[f]]
  BY <1>3
<1>7. /\ IsNewPipe(fds'[keep.stdin], "stdin", t) /\ IsNewPipe(fds'[keep.stdout], "stdout", t)
      /\ IsNewPipe(fds'[keep.stderr], "stderr", t)
  BY <1>5, PipeType DEF Kinds, OutKinds
<1> QED BY <1>1, <1>2, <1>5, <1>6, <1>7

\* A start keeps the types.
LEMMA OpeningType ==
  ASSUME TTypeOK, NEW t \in Ids, Opening(t)
  PROVE  TTypeOK'
<1>1. PICK keep \in TaskFds :
              /\ IsNewPipe(fds'[keep.stdin], "stdin", t)
              /\ IsNewPipe(fds'[keep.stdout], "stdout", t)
              /\ IsNewPipe(fds'[keep.stderr], "stderr", t)
              /\ \A f \in Fds \ {keep.stdin, keep.stdout, keep.stderr} : fds'[f] = fds[f]
              /\ IF isTaskRunning(t)'
                 THEN addFds(t, keep) /\ mFds' = [mFds EXCEPT ![t] = keep]
                 ELSE UNCHANGED <<ioQueue, mFds>>
  BY OpeningEffect
<1>2. \A f \in Fds : fds'[f] \in FdRecord
  BY <1>1, TypesNamed DEF IsNewPipe
<1>3. fds' \in [Fds -> FdRecord]
  <2>1. DOMAIN fds' = Fds /\ fds' = [f \in Fds |-> fds'[f]]
    BY OpeningEffect
  <2> QED BY <1>2, <2>1
<1>4. fd2IOData' \in [Fds -> IOData] /\ crash' \in Causes /\ overtaken' \in BOOLEAN
  BY OpeningEffect, TypesNamed
<1>5. ioQueue' \in Seq(Messages)
  <2>1. CASE addFds(t, keep)
    <3>1. GrowsBy(3)
      BY <2>1, PostThree, TypesNamed DEF addFds, MsgTypes
    <3> QED BY <3>1 DEF GrowsBy
  <2> QED BY <1>1, <2>1, TypesNamed
<1>6. mFds' \in [Ids -> TaskFds \cup {NoFds}]
  BY <1>1, TypesNamed
<1>7. TTypeOK'
  BY <1>3, <1>4, <1>5, <1>6 DEF TTypeOK, IOTypeOK, FdRecord, IOData, MsgTypes, Kinds, Messages,
                                TaskFds
<1> QED BY <1>7

\* So do the ways in which numbers are used up, filled or lose an end.
LEMMA StillType ==
  ASSUME TTypeOK, Still
  PROVE  TTypeOK'
<1>1. fds' \in [Fds -> FdRecord]
  <2>1. CASE LeakPipes
    BY <2>1, PipeType, TypesNamed DEF LeakPipes
  <2>2. ASSUME NEW t \in Ids, NEW left \in {"descendant", "none"}, ScriptEnds(t, left)
        PROVE  fds' \in [Fds -> FdRecord]
    <3>1. \A f \in Fds : [fds[f] EXCEPT !.peer = left] \in FdRecord
      BY TypesNamed DEF FdRecord
    <3> QED BY <2>2, <3>1, TypesNamed DEF ScriptEnds
  <2>3. ASSUME NEW f \in Fds, ScriptWrites(f) PROVE fds' \in [Fds -> FdRecord]
    <3>1. fds[f] \in FdRecord /\ fds[f].data < MaxData
      BY <2>3, TypesNamed DEF ScriptWrites
    <3>2. fds[f].data + 1 \in 0 .. MaxData
      BY <3>1 DEF FdRecord
    <3>3. [fds[f] EXCEPT !.data = fds[f].data + 1] \in FdRecord
      BY <3>1, <3>2 DEF FdRecord
    <3>4. fds' = [fds EXCEPT ![f] = [fds[f] EXCEPT !.data = fds[f].data + 1]]
      BY <2>3 DEF ScriptWrites
    <3> QED BY <3>3, <3>4, TypesNamed
  <2>4. ASSUME NEW t \in Ids, DescendantsEnd(t) PROVE fds' \in [Fds -> FdRecord]
    <3>1. \A f \in Fds : [fds[f] EXCEPT !.peer = "none"] \in FdRecord
      BY TypesNamed DEF FdRecord
    <3> QED BY <2>4, <3>1, TypesNamed DEF DescendantsEnd
  <2> QED BY <2>1, <2>2, <2>3, <2>4, TypesNamed DEF Still
<1>2. UNCHANGED <<fd2IOData, ioQueue, crash, overtaken, mFds>>
  BY DEF Still
<1>3. TTypeOK'
  BY <1>1, <1>2, TypesNamed DEF TTypeOK, IOTypeOK, FdRecord, IOData, MsgTypes, Kinds, Messages,
                                TaskFds
<1> QED BY <1>3

\* So is a descriptor whose bufferevent comes or goes.
LEMMA BevType == \A r \in FdRecord, b \in BOOLEAN : [r EXCEPT !.bev = b] \in FdRecord
BY DEF FdRecord

\* A callback of the IO thread keeps the types.
LEMMA CallingType ==
  ASSUME TTypeOK, Calling
  PROVE  TTypeOK'
<1>1. ASSUME NEW i \in Ready, Handle(ioQueue[i]), Consume(i), UNCHANGED crash
      PROVE  /\ fds' \in [Fds -> FdRecord] /\ fd2IOData' \in [Fds -> IOData]
             /\ ioQueue' \in Seq(Messages) /\ crash' \in Causes
  <2>1. i \in 1 .. Len(ioQueue) /\ ioQueue[i] \in Messages
    BY TypesNamed, LenProperties DEF Ready
  <2>2. ioQueue' \in Seq(Messages)
    BY <1>1, <2>1, ConsumeEffect, TypesNamed
  <2>3. PICK m \in Messages : m = ioQueue[i]
    BY <2>1
  <2>4. m.fd \in Fds /\ m.task \in Nat
    BY DEF Messages
  <2>5. CASE AddFd(m)
    <3> DEFINE output == m.fdType \in OutKinds
    <3>0. output \in BOOLEAN
      OBVIOUS
    <3>2. fds' = [fds EXCEPT ![m.fd] = [fds[m.fd] EXCEPT !.bev = output]]
      BY <2>5 DEF AddFd
    <3> HIDE DEF output
    <3>1. [fds[m.fd] EXCEPT !.bev = output] \in FdRecord
      BY <2>4, <3>0, BevType, TypesNamed
    <3>3. [task |-> m.task, redirect |-> FALSE] \in IOData
      BY <2>4 DEF IOData
    <3> QED BY <1>1, <2>2, <2>5, <3>1, <3>2, <3>3, TypesNamed DEF AddFd
  <2>6. CASE RemoveFd(m)
    <3>1. NoData \in IOData
      BY DEF NoData, IOData
    <3> QED BY <1>1, <2>2, <2>6, <3>1, TypesNamed DEF RemoveFd
  <2>7. ASSUME NEW on \in BOOLEAN, SetRedirect(m, on)
        PROVE  fd2IOData' \in [Fds -> IOData] /\ UNCHANGED fds
    <3>1. [fd2IOData[m.fd] EXCEPT !.redirect = on] \in IOData
      BY <2>4, TypesNamed DEF IOData
    <3>2. fd2IOData' = [fd2IOData EXCEPT ![m.fd] = [fd2IOData[m.fd] EXCEPT !.redirect = on]]
      BY <2>7 DEF SetRedirect
    <3> QED BY <2>7, <3>1, <3>2, TypesNamed DEF SetRedirect
  <2> QED BY <1>1, <2>2, <2>3, <2>5, <2>6, <2>7, TypesNamed DEF Handle
<1>2. ASSUME NEW f \in Fds, fdReadDelegate(f), hasFd(f)
      PROVE  /\ fds' \in [Fds -> FdRecord] /\ fd2IOData' \in [Fds -> IOData]
             /\ ioQueue' \in Seq(Messages) /\ crash' \in Causes
  <2>1. fds[f] \in FdRecord /\ fds[f].data > 0
    BY <1>2, TypesNamed DEF fdReadDelegate
  <2>2. fds[f].data - 1 \in 0 .. MaxData
    BY <2>1 DEF FdRecord
  <2>3. [fds[f] EXCEPT !.data = fds[f].data - 1] \in FdRecord
    BY <2>1, <2>2 DEF FdRecord
  <2>4. fds' = [fds EXCEPT ![f] = [fds[f] EXCEPT !.data = fds[f].data - 1]]
        /\ UNCHANGED <<fd2IOData, ioQueue, crash>>
    BY <1>2 DEF fdReadDelegate
  <2> QED BY <2>3, <2>4, TypesNamed
<1>3. ASSUME NEW f \in Fds, onFdEventCb(f)
      PROVE  /\ fds' \in [Fds -> FdRecord] /\ fd2IOData' \in [Fds -> IOData]
             /\ ioQueue' \in Seq(Messages) /\ crash' \in Causes
  BY <1>3, PipeType, TypesNamed DEF onFdEventCb
<1>4. /\ fds' \in [Fds -> FdRecord] /\ fd2IOData' \in [Fds -> IOData]
      /\ ioQueue' \in Seq(Messages) /\ crash' \in Causes
      /\ mFds' \in [Ids -> TaskFds \cup {NoFds}]
  BY <1>1, <1>2, <1>3, TypesNamed DEF Calling
<1>5. TTypeOK'
  <2>1. overtaken' \in BOOLEAN
    BY TypesNamed DEF Calling, fdReadDelegate, onFdEventCb
  <2> QED BY <1>4, <2>1 DEF TTypeOK, IOTypeOK, FdRecord, IOData, MsgTypes, Kinds, Messages,
                            TaskFds
<1> QED BY <1>5

\* The cause of an end is one of the causes.
LEMMA CauseType == \A m : MsgCause(m) \in Causes
BY DEF MsgCause, Causes

\* Every kind of step keeps the types.
LEMMA TypeStep ==
  ASSUME TTypeOK, TableKnown, IOStepKind
  PROVE  TTypeOK'
<1>1. ASSUME NEW t \in Ids, Ordering(t) PROVE TTypeOK'
  <2>1. mFds[t] \in TaskFds /\ ioQueue \in Seq(Messages)
    BY <1>1, TypesNamed DEF Ordering, TableKnown
  <2>2. ioQueue' \in Seq(Messages)
    <3>1. CASE enableRedirect(t, mFds[t]) \/ disableRedirect(t, mFds[t])
      <4>1. GrowsBy(2)
        BY <2>1, <3>1, PostTwo DEF enableRedirect, disableRedirect, MsgTypes
      <4> QED BY <4>1 DEF GrowsBy
    <3>2. CASE putToStdin(t, mFds[t])
      <4>1. GrowsBy(1)
        BY <2>1, <3>2, PostOne DEF putToStdin, MsgTypes
      <4> QED BY <4>1 DEF GrowsBy
    <3> QED BY <1>1, <3>1, <3>2 DEF Ordering
  <2>3. UNCHANGED <<fds, fd2IOData, crash, overtaken, mFds>>
    BY <1>1 DEF Ordering
  <2> QED BY <2>2, <2>3, TypesNamed DEF TTypeOK, IOTypeOK, FdRecord, IOData, MsgTypes, Kinds,
             Messages, TaskFds
<1>2. ASSUME NEW t \in Ids, Reaping(t) PROVE TTypeOK'
  <2>1. mFds[t] \in TaskFds /\ ioQueue \in Seq(Messages)
    BY <1>2, TypesNamed DEF Reaping, TableKnown
  <2>2. GrowsBy(3)
    BY <1>2, <2>1, PostThree DEF Reaping, removeFds, MsgTypes
  <2>3. UNCHANGED <<fds, fd2IOData, crash, overtaken>> /\ mFds' = [mFds EXCEPT ![t] = NoFds]
    BY <1>2 DEF Reaping
  <2> QED BY <2>2, <2>3, TypesNamed DEF GrowsBy, TTypeOK, IOTypeOK, FdRecord, IOData, MsgTypes,
             Kinds, Messages, TaskFds
<1>3. CASE Ending
  <2>1. \E cause \in Causes : IODown(cause)
    BY <1>3, CauseType DEF Ending
  <2>2. fds' \in [Fds -> FdRecord] /\ fd2IOData' \in [Fds -> IOData]
        /\ ioQueue' \in Seq(Messages) /\ crash' \in Causes
    BY <2>1, PipeType DEF IODown, NoData, IOData
  <2>3. mFds' \in [Ids -> TaskFds \cup {NoFds}] /\ overtaken' \in BOOLEAN
    BY <1>3, TypesNamed DEF Ending
  <2> QED BY <2>2, <2>3 DEF TTypeOK, IOTypeOK, FdRecord, IOData, MsgTypes, Kinds, Messages,
             TaskFds
<1>4. CASE Resuming
  BY <1>4, TypesNamed DEF Resuming, Causes, TTypeOK, IOTypeOK, FdRecord, IOData, MsgTypes, Kinds,
                          Messages, TaskFds
<1> QED BY <1>1, <1>2, <1>3, <1>4, OpeningType, StillType, CallingType DEF IOStepKind

-----------------------------------------------------------------------------
(* Numbers, entries and messages *)

\* Only outputs have a bufferevent: the number of an input is never given back.
BevsAreOutputs == \A f \in Fds : fds[f].bev => fds[f].kind \in OutKinds

\* The numbers of a running task are three, and its input is still open.
InputsKept ==
  \A t \in Ids : isTaskRunning(t) =>
    /\ fds[mFds[t].stdin].kind = "stdin" /\ fds[mFds[t].stdin].task = t
    /\ mFds[t].stdin # mFds[t].stdout /\ mFds[t].stdin # mFds[t].stderr
    /\ mFds[t].stdout # mFds[t].stderr

\* A number that is to be added is still the pipe it was when the message was sent.
AddsMatch ==
  \A i \in 1 .. Len(ioQueue) : ioQueue[i].msgType = "ADD_FD" =>
    LET m == ioQueue[i] IN
      fds[m.fd].kind = m.fdType /\ fds[m.fd].task = m.task /\ ~fds[m.fd].bev

AddsOnce ==
  \A i, j \in 1 .. Len(ioQueue) :
    ioQueue[i].msgType = "ADD_FD" /\ ioQueue[j].msgType = "ADD_FD"
      /\ ioQueue[i].fd = ioQueue[j].fd => i = j

\* Input is on its way to the input of its own task only.
InputMatches ==
  \A i \in 1 .. Len(ioQueue) : ioQueue[i].msgType = "PUT_DATA_TO_FD" =>
    LET m == ioQueue[i] IN fds[m.fd].kind = "stdin" /\ fds[m.fd].task = m.task

OfTasks == \A i \in 1 .. Len(ioQueue) : ioQueue[i].task \in Ids

NumbersInv ==
  /\ TableKnown /\ InputsKept
  /\ BevsAreOutputs /\ OutputAttributed
  /\ AddsMatch /\ AddsOnce /\ InputMatches /\ OfTasks

\* What becomes of a number when no message is handled: it stays what it is, it is
\* taken into use, or its end of file is met.
Moves(f) ==
  \/ fds'[f].kind = fds[f].kind /\ fds'[f].task = fds[f].task /\ fds'[f].bev = fds[f].bev
  \/ fds[f].kind = "closed" /\ ~fds'[f].bev
  \/ fds[f].bev /\ ~fds'[f].bev

\* The open input of a task, and a number that is to be added, stay what they are.
LEMMA MovesKeep ==
  ASSUME TTypeOK, BevsAreOutputs, NEW f \in Fds, Moves(f),
         fds[f].kind = "stdin" \/ (fds[f].kind \in Kinds /\ ~fds[f].bev)
  PROVE  fds'[f].kind = fds[f].kind /\ fds'[f].task = fds[f].task /\ fds'[f].bev = fds[f].bev
BY DEF Moves, BevsAreOutputs, Kinds, OutKinds

\* So a move keeps bufferevents, inputs and pending messages in order.
LEMMA MovesBevs ==
  ASSUME TTypeOK, NumbersInv, \A f \in Fds : Moves(f), UNCHANGED fd2IOData
  PROVE  BevsAreOutputs' /\ OutputAttributed'
BY DEF NumbersInv, BevsAreOutputs, OutputAttributed, Moves, hasFd

\* The messages that were there stay true of their numbers.
LEMMA MovesMessages ==
  ASSUME TTypeOK, NumbersInv, \A f \in Fds : Moves(f), NEW i \in 1 .. Len(ioQueue)
  PROVE  LET m == ioQueue[i] IN
           /\ m.msgType = "ADD_FD" =>
                /\ fds[m.fd].kind # "closed"
                /\ fds'[m.fd].kind = m.fdType /\ fds'[m.fd].task = m.task /\ ~fds'[m.fd].bev
           /\ m.msgType = "PUT_DATA_TO_FD" =>
                fds'[m.fd].kind = "stdin" /\ fds'[m.fd].task = m.task
<1>1. ioQueue[i] \in Messages
  BY TypesNamed, LenProperties
<1>2. PICK m \in Messages : m = ioQueue[i]
  BY <1>1
<1>3. m.fd \in Fds /\ m.fdType \in Kinds /\ m.fdType # "closed"
  BY DEF Messages, Kinds, OutKinds
<1>4. CASE m.msgType = "ADD_FD"
  <2>1. fds[m.fd].kind = m.fdType /\ fds[m.fd].task = m.task /\ ~fds[m.fd].bev
    BY <1>2, <1>4 DEF NumbersInv, AddsMatch
  <2>2. /\ fds'[m.fd].kind = fds[m.fd].kind /\ fds'[m.fd].task = fds[m.fd].task
        /\ fds'[m.fd].bev = fds[m.fd].bev
    BY <1>3, <2>1, MovesKeep DEF NumbersInv
  <2> QED BY <1>2, <1>3, <1>4, <2>1, <2>2
<1>5. CASE m.msgType = "PUT_DATA_TO_FD"
  <2>1. fds[m.fd].kind = "stdin" /\ fds[m.fd].task = m.task
    BY <1>2, <1>5 DEF NumbersInv, InputMatches
  <2>2. fds'[m.fd].kind = fds[m.fd].kind /\ fds'[m.fd].task = fds[m.fd].task
    BY <1>3, <2>1, MovesKeep DEF NumbersInv
  <2> QED BY <1>2, <1>5, <2>1, <2>2
<1> QED BY <1>2, <1>4, <1>5

\* The inputs of the tasks that run stay open.
LEMMA MovesInputs ==
  ASSUME TTypeOK, NumbersInv, \A f \in Fds : Moves(f), NEW t \in Ids, isTaskRunning(t)
  PROVE  fds'[mFds[t].stdin].kind = "stdin" /\ fds'[mFds[t].stdin].task = t
<1>1. mFds[t].stdin \in Fds
  BY DEF NumbersInv, TableKnown, TaskFds
<1>2. fds[mFds[t].stdin].kind = "stdin" /\ fds[mFds[t].stdin].task = t
  BY DEF NumbersInv, InputsKept
<1> QED BY <1>1, <1>2, MovesKeep DEF NumbersInv

\* Steps that only move numbers.
LEMMA MovesStep ==
  ASSUME TTypeOK, NumbersInv, \A f \in Fds : Moves(f), UNCHANGED <<fd2IOData, ioQueue, mFds>>,
         \A t \in Ids : isTaskRunning(t)' <=> isTaskRunning(t)
  PROVE  NumbersInv'
<1>1. BevsAreOutputs' /\ OutputAttributed'
  BY MovesBevs
<1>2. AddsMatch' /\ InputMatches'
  BY MovesMessages DEF AddsMatch, InputMatches
<1>3. InputsKept'
  BY MovesInputs DEF NumbersInv, InputsKept
<1>4. TableKnown' /\ AddsOnce' /\ OfTasks'
  BY DEF NumbersInv, TableKnown, AddsOnce, OfTasks
<1> QED BY <1>1, <1>2, <1>3, <1>4 DEF NumbersInv

\* The environment and a failed start only move numbers.
LEMMA StillMoves ==
  ASSUME TTypeOK, Still
  PROVE  \A f \in Fds : Moves(f)
<1>1. CASE LeakPipes
  BY <1>1, PipeType DEF LeakPipes, Moves
<1>2. ASSUME NEW t \in Ids, NEW left \in {"descendant", "none"}, ScriptEnds(t, left)
      PROVE  \A f \in Fds : Moves(f)
  <2>1. \A f \in Fds : LET r == [fds[f] EXCEPT !.peer = left] IN
          r.kind = fds[f].kind /\ r.task = fds[f].task /\ r.bev = fds[f].bev
    BY TypesNamed DEF FdRecord
  <2> QED BY <1>2, <2>1 DEF ScriptEnds, Moves
<1>3. ASSUME NEW g \in Fds, ScriptWrites(g) PROVE \A f \in Fds : Moves(f)
  BY <1>3, TypesNamed DEF ScriptWrites, Moves, FdRecord
<1>4. ASSUME NEW t \in Ids, DescendantsEnd(t) PROVE \A f \in Fds : Moves(f)
  <2>1. \A f \in Fds : LET r == [fds[f] EXCEPT !.peer = "none"] IN
          r.kind = fds[f].kind /\ r.task = fds[f].task /\ r.bev = fds[f].bev
    BY TypesNamed DEF FdRecord
  <2> QED BY <1>4, <2>1 DEF DescendantsEnd, Moves
<1> QED BY <1>1, <1>2, <1>3, <1>4 DEF Still, Moves

\* Messages about numbers as they are.
LEMMA GrowsStep ==
  ASSUME TTypeOK, NumbersInv, NEW n \in Nat, GrowsBy(n), UNCHANGED <<fds, fd2IOData>>,
         \A i \in Len(ioQueue) + 1 .. Len(ioQueue') :
           /\ ioQueue'[i].msgType # "ADD_FD" /\ ioQueue'[i].task \in Ids
           /\ ioQueue'[i].msgType = "PUT_DATA_TO_FD" =>
                fds[ioQueue'[i].fd].kind = "stdin" /\ fds[ioQueue'[i].fd].task = ioQueue'[i].task
  PROVE  BevsAreOutputs' /\ OutputAttributed' /\ AddsMatch' /\ AddsOnce' /\ InputMatches'
         /\ OfTasks'
<1>1. Len(ioQueue) \in Nat /\ Len(ioQueue') = Len(ioQueue) + n
      /\ \A i \in 1 .. Len(ioQueue) : ioQueue'[i] = ioQueue[i]
  BY TypesNamed, LenProperties DEF GrowsBy
<1>2. \A i \in 1 .. Len(ioQueue') :
        i \in 1 .. Len(ioQueue) \/ i \in Len(ioQueue) + 1 .. Len(ioQueue')
  BY <1>1
<1>3. BevsAreOutputs' /\ OutputAttributed'
  BY DEF NumbersInv, BevsAreOutputs, OutputAttributed, hasFd
<1>4. AddsMatch'
  BY <1>1, <1>2 DEF NumbersInv, AddsMatch
<1>5. AddsOnce'
  BY <1>1, <1>2 DEF NumbersInv, AddsOnce
<1>6. InputMatches' /\ OfTasks'
  BY <1>1, <1>2 DEF NumbersInv, InputMatches, OfTasks
<1> QED BY <1>3, <1>4, <1>5, <1>6

\* A start: free numbers become pipes of the task, and if it gets into the table their
\* messages are the only ones about them.
LEMMA OpeningStep ==
  ASSUME TTypeOK, NumbersInv, NEW t \in Ids, Opening(t)
  PROVE  NumbersInv'
<1>1. PICK keep \in TaskFds :
        /\ keep.stdin # keep.stdout /\ keep.stdin # keep.stderr /\ keep.stdout # keep.stderr
        /\ fds[keep.stdin] = Closed /\ IsNewPipe(fds'[keep.stdin], "stdin", t)
        /\ fds[keep.stdout] = Closed /\ IsNewPipe(fds'[keep.stdout], "stdout", t)
        /\ fds[keep.stderr] = Closed /\ IsNewPipe(fds'[keep.stderr], "stderr", t)
        /\ \A f \in Fds \ {keep.stdin, keep.stdout, keep.stderr} : fds'[f] = fds[f]
        /\ IF isTaskRunning(t)'
           THEN addFds(t, keep) /\ mFds' = [mFds EXCEPT ![t] = keep]
           ELSE UNCHANGED <<ioQueue, mFds>>
  BY OpeningEffect
<1>2. UNCHANGED fd2IOData
  BY OpeningEffect
<1>3. /\ ~fds'[keep.stdin].bev /\ fds'[keep.stdin].kind = "stdin"
      /\ ~fds'[keep.stdout].bev /\ fds'[keep.stdout].kind = "stdout"
      /\ ~fds'[keep.stderr].bev /\ fds'[keep.stderr].kind = "stderr"
      /\ fds'[keep.stdin].task = t /\ fds'[keep.stdout].task = t /\ fds'[keep.stderr].task = t
  BY <1>1 DEF IsNewPipe
<1>4. "stdin" \in Kinds /\ "stdout" \in Kinds /\ "stderr" \in Kinds
  BY DEF Kinds, OutKinds
<1>5. Closed.kind = "closed"
  BY PipeType
<1>6. \A f \in Fds : Moves(f)
  BY <1>1, <1>3, <1>4, <1>5 DEF Moves
<1>7. ~isTaskRunning(t) /\ \A x \in Ids \ {t} : isTaskRunning(x)' <=> isTaskRunning(x)
  BY DEF Opening
<1>8. CASE ~isTaskRunning(t)'
  BY <1>1, <1>2, <1>6, <1>7, <1>8, MovesStep
<1>9. CASE isTaskRunning(t)'
  <2> DEFINE n == Len(ioQueue)
  <2>1. ioQueue \in Seq(Messages) /\ n \in Nat
    BY TypesNamed, LenProperties
  <2>2. addFds(t, keep)
    BY <1>1, <1>9
  <2>3. /\ GrowsBy(3)
        /\ IsMessage(ioQueue'[n + 1], "ADD_FD", keep.stdin, "stdin", t)
        /\ IsMessage(ioQueue'[n + 2], "ADD_FD", keep.stdout, "stdout", t)
        /\ IsMessage(ioQueue'[n + 3], "ADD_FD", keep.stderr, "stderr", t)
    BY <2>1, <2>2, PostThree DEF addFds, MsgTypes
  <2>4. Len(ioQueue') = n + 3 /\ \A i \in 1 .. n : ioQueue'[i] = ioQueue[i]
    BY <2>3 DEF GrowsBy
  <2> HIDE DEF n
  <2>5. \A i \in 1 .. Len(ioQueue') :
          i \in 1 .. n \/ i = n + 1 \/ i = n + 2 \/ i = n + 3
    BY <2>1, <2>4
  <2>6. \A i \in 1 .. n : ioQueue[i].msgType = "ADD_FD" =>
          ioQueue[i].fd \notin {keep.stdin, keep.stdout, keep.stderr}
    <3>1. \A i \in 1 .. n : ioQueue[i].msgType = "ADD_FD" => fds[ioQueue[i].fd].kind # "closed"
      BY <1>6, MovesMessages DEF n
    <3> QED BY <1>1, <1>5, <3>1
  <2>7. AddsMatch'
    <3> SUFFICES ASSUME NEW i \in 1 .. Len(ioQueue'), ioQueue'[i].msgType = "ADD_FD"
                 PROVE  /\ fds'[ioQueue'[i].fd].kind = ioQueue'[i].fdType
                        /\ fds'[ioQueue'[i].fd].task = ioQueue'[i].task
                        /\ ~fds'[ioQueue'[i].fd].bev
      BY DEF AddsMatch
    <3>1. CASE i \in 1 .. n
      BY <1>6, <2>4, <3>1, MovesMessages DEF n
    <3>2. CASE i = n + 1 \/ i = n + 2 \/ i = n + 3
      BY <1>1, <1>3, <1>4, <2>3, <3>2 DEF IsMessage
    <3> QED BY <2>5, <3>1, <3>2
  <2>8. AddsOnce'
    <3> SUFFICES ASSUME NEW i \in 1 .. Len(ioQueue'), NEW j \in 1 .. Len(ioQueue'),
                        ioQueue'[i].msgType = "ADD_FD", ioQueue'[j].msgType = "ADD_FD",
                        ioQueue'[i].fd = ioQueue'[j].fd
                 PROVE  i = j
      BY DEF AddsOnce
    <3>1. CASE i \in 1 .. n /\ j \in 1 .. n
      BY <2>4, <3>1 DEF NumbersInv, AddsOnce, n
    <3>2. CASE i \in 1 .. n /\ j \notin 1 .. n
      BY <2>3, <2>4, <2>5, <2>6, <3>2 DEF IsMessage
    <3>3. CASE i \notin 1 .. n /\ j \in 1 .. n
      BY <2>3, <2>4, <2>5, <2>6, <3>3 DEF IsMessage
    <3>4. CASE i \notin 1 .. n /\ j \notin 1 .. n
      BY <1>1, <2>3, <2>5, <3>4 DEF IsMessage
    <3> QED BY <3>1, <3>2, <3>3, <3>4
  <2>9. InputMatches'
    <3> SUFFICES ASSUME NEW i \in 1 .. Len(ioQueue'), ioQueue'[i].msgType = "PUT_DATA_TO_FD"
                 PROVE  /\ fds'[ioQueue'[i].fd].kind = "stdin"
                        /\ fds'[ioQueue'[i].fd].task = ioQueue'[i].task
      BY DEF InputMatches
    <3>1. i \in 1 .. n
      BY <2>3, <2>5 DEF IsMessage
    <3> QED BY <1>6, <2>4, <3>1, MovesMessages DEF n
  <2>10. OfTasks'
    BY <2>3, <2>4, <2>5 DEF NumbersInv, OfTasks, IsMessage, n
  <2>11. mFds' = [mFds EXCEPT ![t] = keep] /\ mFds \in [Ids -> TaskFds \cup {NoFds}]
    BY <1>1, <1>9, TypesNamed
  <2>12. TableKnown'
    BY <1>7, <1>9, <2>11 DEF NumbersInv, TableKnown
  <2>13. InputsKept'
    <3> SUFFICES ASSUME NEW x \in Ids, isTaskRunning(x)'
                 PROVE  /\ fds'[mFds'[x].stdin].kind = "stdin" /\ fds'[mFds'[x].stdin].task = x
                        /\ mFds'[x].stdin # mFds'[x].stdout /\ mFds'[x].stdin # mFds'[x].stderr
                        /\ mFds'[x].stdout # mFds'[x].stderr
      BY DEF InputsKept
    <3>1. CASE x = t
      BY <1>1, <1>3, <1>4, <2>11, <3>1
    <3>2. CASE x # t
      BY <1>6, <1>7, <2>11, <3>2, MovesInputs DEF NumbersInv, InputsKept
    <3> QED BY <3>1, <3>2
  <2> QED BY <1>2, <1>6, <2>7, <2>8, <2>9, <2>10, <2>12, <2>13, MovesBevs DEF NumbersInv
<1> QED BY <1>8, <1>9

\* A command is about the numbers of a running task.
LEMMA OrderingStep ==
  ASSUME TTypeOK, NumbersInv, NEW t \in Ids, Ordering(t)
  PROVE  NumbersInv'
<1>1. mFds[t] \in TaskFds /\ ioQueue \in Seq(Messages) /\ Len(ioQueue) \in Nat
  BY TypesNamed, LenProperties DEF Ordering, NumbersInv, TableKnown
<1>2. UNCHANGED <<fds, fd2IOData, mFds, taskId2RunningTask>>
  BY DEF Ordering
<1>3. fds[mFds[t].stdin].kind = "stdin" /\ fds[mFds[t].stdin].task = t
  BY DEF Ordering, NumbersInv, InputsKept
<1>4. ASSUME enableRedirect(t, mFds[t]) \/ disableRedirect(t, mFds[t])
      PROVE  BevsAreOutputs' /\ OutputAttributed' /\ AddsMatch' /\ AddsOnce' /\ InputMatches'
             /\ OfTasks'
  <2>1. PICK type \in {"ENABLE_FD_REDIRECT", "DISABLE_FD_REDIRECT"} :
          Post(type, <<"stdout", "stderr">>, mFds[t], t)
    BY <1>4 DEF enableRedirect, disableRedirect
  <2>2. /\ GrowsBy(2)
        /\ IsMessage(ioQueue'[Len(ioQueue) + 1], type, mFds[t].stdout, "stdout", t)
        /\ IsMessage(ioQueue'[Len(ioQueue) + 2], type, mFds[t].stderr, "stderr", t)
    BY <1>1, <2>1, PostTwo DEF MsgTypes
  <2>3. \A i \in Len(ioQueue) + 1 .. Len(ioQueue') :
          i = Len(ioQueue) + 1 \/ i = Len(ioQueue) + 2
    BY <1>1, <2>2 DEF GrowsBy
  <2> QED BY <1>2, <2>2, <2>3, GrowsStep DEF IsMessage
<1>5. ASSUME putToStdin(t, mFds[t])
      PROVE  BevsAreOutputs' /\ OutputAttributed' /\ AddsMatch' /\ AddsOnce' /\ InputMatches'
             /\ OfTasks'
  <2>1. /\ GrowsBy(1)
        /\ IsMessage(ioQueue'[Len(ioQueue) + 1], "PUT_DATA_TO_FD", mFds[t].stdin, "stdin", t)
    BY <1>1, <1>5, PostOne DEF MsgTypes, putToStdin
  <2>2. \A i \in Len(ioQueue) + 1 .. Len(ioQueue') : i = Len(ioQueue) + 1
    BY <1>1, <2>1 DEF GrowsBy
  <2> QED BY <1>2, <1>3, <2>1, <2>2, GrowsStep DEF IsMessage
<1>6. TableKnown' /\ InputsKept'
  BY <1>2 DEF NumbersInv, TableKnown, InputsKept, isTaskRunning
<1> QED BY <1>4, <1>5, <1>6 DEF Ordering, NumbersInv

\* A task leaves the table and its numbers are to be removed.
LEMMA ReapingStep ==
  ASSUME TTypeOK, NumbersInv, NEW t \in Ids, Reaping(t)
  PROVE  NumbersInv'
<1>1. mFds[t] \in TaskFds /\ ioQueue \in Seq(Messages) /\ Len(ioQueue) \in Nat
  BY TypesNamed, LenProperties DEF Reaping, NumbersInv, TableKnown
<1>2. UNCHANGED <<fds, fd2IOData>> /\ mFds' = [mFds EXCEPT ![t] = NoFds]
      /\ mFds \in [Ids -> TaskFds \cup {NoFds}]
  BY TypesNamed DEF Reaping
<1>3. /\ GrowsBy(3)
      /\ IsMessage(ioQueue'[Len(ioQueue) + 1], "REMOVE_FD", mFds[t].stdin, "stdin", t)
      /\ IsMessage(ioQueue'[Len(ioQueue) + 2], "REMOVE_FD", mFds[t].stdout, "stdout", t)
      /\ IsMessage(ioQueue'[Len(ioQueue) + 3], "REMOVE_FD", mFds[t].stderr, "stderr", t)
  BY <1>1, PostThree DEF Reaping, removeFds, MsgTypes
<1>4. \A i \in Len(ioQueue) + 1 .. Len(ioQueue') :
        i = Len(ioQueue) + 1 \/ i = Len(ioQueue) + 2 \/ i = Len(ioQueue) + 3
  BY <1>1, <1>3 DEF GrowsBy
<1>5. BevsAreOutputs' /\ OutputAttributed' /\ AddsMatch' /\ AddsOnce' /\ InputMatches'
      /\ OfTasks'
  BY <1>2, <1>3, <1>4, GrowsStep DEF IsMessage
<1>6. TableKnown' /\ InputsKept'
  BY <1>2 DEF Reaping, NumbersInv, TableKnown, InputsKept
<1> QED BY <1>5, <1>6 DEF NumbersInv

\* Reads and ends of file only move numbers.
LEMMA ReadMoves ==
  ASSUME TTypeOK, \/ \E f \in Fds : fdReadDelegate(f) /\ hasFd(f)
                  \/ \E f \in Fds : onFdEventCb(f)
  PROVE  (\A f \in Fds : Moves(f)) /\ UNCHANGED <<fd2IOData, ioQueue>>
<1>1. ASSUME NEW g \in Fds, fdReadDelegate(g), hasFd(g)
      PROVE  (\A f \in Fds : Moves(f)) /\ UNCHANGED <<fd2IOData, ioQueue>>
  <2>1. fds' = [fds EXCEPT ![g] = [fds[g] EXCEPT !.data = fds[g].data - 1]]
        /\ UNCHANGED <<fd2IOData, ioQueue>>
    BY <1>1 DEF fdReadDelegate
  <2>2. LET r == [fds[g] EXCEPT !.data = fds[g].data - 1] IN
          r.kind = fds[g].kind /\ r.task = fds[g].task /\ r.bev = fds[g].bev
    BY TypesNamed DEF FdRecord
  <2>3. fds \in [Fds -> FdRecord]
    BY TypesNamed
  <2>4. \A f \in Fds \ {g} : fds'[f] = fds[f]
    BY <2>1, <2>3
  <2>5. fds'[g] = [fds[g] EXCEPT !.data = fds[g].data - 1]
    BY <2>1, <2>3
  <2> QED BY <2>1, <2>2, <2>4, <2>5 DEF Moves
<1>2. ASSUME NEW g \in Fds, onFdEventCb(g)
      PROVE  (\A f \in Fds : Moves(f)) /\ UNCHANGED <<fd2IOData, ioQueue>>
  BY <1>2, PipeType, TypesNamed DEF onFdEventCb, Moves
<1> QED BY <1>1, <1>2

\* The queue without the message that is handled.
LEMMA TakenOut ==
  ASSUME TTypeOK, NumbersInv, NEW i \in Ready, Consume(i)
  PROVE  /\ i \in 1 .. Len(ioQueue)
         /\ \A j \in 1 .. Len(ioQueue') :
              LET k == Before(i, j) IN
                /\ k \in 1 .. Len(ioQueue) /\ k # i
                /\ IsMessage(ioQueue'[j], ioQueue[k].msgType, ioQueue[k].fd,
                             ioQueue[k].fdType, ioQueue[k].task)
         /\ AddsOnce' /\ OfTasks'
<1>1. i \in 1 .. Len(ioQueue) /\ Len(ioQueue) \in Nat /\ ioQueue \in Seq(Messages)
  BY TypesNamed, LenProperties DEF Ready
<1>2. /\ Len(ioQueue') = Len(ioQueue) - 1
      /\ \A j \in 1 .. Len(ioQueue) - 1 : LET m == ioQueue[Before(i, j)] IN
           IsMessage(ioQueue'[j], m.msgType, m.fd, m.fdType, m.task)
  BY <1>1, ConsumeEffect
<1>3. \A j \in 1 .. Len(ioQueue') : Before(i, j) \in 1 .. Len(ioQueue) /\ Before(i, j) # i
  BY <1>1, <1>2 DEF Before
<1>4. \A j, k \in 1 .. Len(ioQueue') : Before(i, j) = Before(i, k) => j = k
  BY <1>1, <1>2 DEF Before
<1>5. AddsOnce'
  <2> SUFFICES ASSUME NEW j \in 1 .. Len(ioQueue'), NEW k \in 1 .. Len(ioQueue'),
                      ioQueue'[j].msgType = "ADD_FD", ioQueue'[k].msgType = "ADD_FD",
                      ioQueue'[j].fd = ioQueue'[k].fd
               PROVE  j = k
    BY DEF AddsOnce
  <2>1. j \in 1 .. Len(ioQueue) - 1 /\ k \in 1 .. Len(ioQueue) - 1
    BY <1>2
  <2>2. /\ ioQueue[Before(i, j)].msgType = "ADD_FD" /\ ioQueue[Before(i, k)].msgType = "ADD_FD"
        /\ ioQueue[Before(i, j)].fd = ioQueue[Before(i, k)].fd
    BY <1>2, <2>1 DEF IsMessage
  <2>3. Before(i, j) = Before(i, k)
    BY <1>3, <2>2 DEF NumbersInv, AddsOnce
  <2> QED BY <1>4, <2>3
<1>6. OfTasks'
  BY <1>2, <1>3 DEF NumbersInv, OfTasks, IsMessage
<1> QED BY <1>1, <1>2, <1>3, <1>5, <1>6

\* Every message has a number.
LEMMA QueueFds == TTypeOK => \A k \in 1 .. Len(ioQueue) : ioQueue[k].fd \in Fds
<1>1. TTypeOK => \A k \in 1 .. Len(ioQueue) : ioQueue[k] \in Messages
  BY TypesNamed, LenProperties
<1> QED BY <1>1 DEF Messages

\* A message is handled.
LEMMA HandleStep ==
  ASSUME TTypeOK, NumbersInv, NEW i \in Ready, MsgCause(ioQueue[i]) = "none",
         Handle(ioQueue[i]), Consume(i), UNCHANGED <<mFds, taskId2RunningTask>>
  PROVE  NumbersInv'
<1>1. /\ i \in 1 .. Len(ioQueue)
      /\ \A j \in 1 .. Len(ioQueue') :
           LET k == Before(i, j) IN
             /\ k \in 1 .. Len(ioQueue) /\ k # i
             /\ IsMessage(ioQueue'[j], ioQueue[k].msgType, ioQueue[k].fd,
                          ioQueue[k].fdType, ioQueue[k].task)
      /\ AddsOnce' /\ OfTasks'
  BY TakenOut
<1>2. ioQueue[i] \in Messages
  BY <1>1, TypesNamed, LenProperties
<1>3. PICK m \in Messages : m = ioQueue[i]
  BY <1>2
<1>4. m.fd \in Fds /\ m.task \in Nat /\ fds \in [Fds -> FdRecord]
      /\ fd2IOData \in [Fds -> IOData]
  BY TypesNamed DEF Messages
<1>5. TableKnown' 
  BY DEF NumbersInv, TableKnown, isTaskRunning
<1>6. CASE m.msgType = "ADD_FD" /\ AddFd(m)
  <2> DEFINE output == m.fdType \in OutKinds
  <2>1. output \in BOOLEAN
    OBVIOUS
  <2>2. fds' = [fds EXCEPT ![m.fd] = [fds[m.fd] EXCEPT !.bev = output]]
        /\ fd2IOData' = [fd2IOData EXCEPT ![m.fd] = [task |-> m.task, redirect |-> FALSE]]
    BY <1>6 DEF AddFd
  <2>3. fds[m.fd].kind = m.fdType /\ fds[m.fd].task = m.task /\ ~fds[m.fd].bev
    BY <1>1, <1>3, <1>6 DEF NumbersInv, AddsMatch
  <2>4. output => fds[m.fd].kind \in OutKinds
    BY <2>3
  <2> HIDE DEF output
  <2>5. LET r == [fds[m.fd] EXCEPT !.bev = output] IN
          r.kind = fds[m.fd].kind /\ r.task = fds[m.fd].task /\ r.bev = output
    BY <1>4 DEF FdRecord
  <2>6. /\ \A f \in Fds \ {m.fd} : fds'[f] = fds[f] /\ fd2IOData'[f] = fd2IOData[f]
        /\ fds'[m.fd].kind = fds[m.fd].kind /\ fds'[m.fd].task = fds[m.fd].task
        /\ fds'[m.fd].bev = output
        /\ fd2IOData'[m.fd].task = m.task
    BY <1>4, <2>2, <2>5
  <2>7. \A f \in Fds : fds'[f].kind = fds[f].kind /\ fds'[f].task = fds[f].task
    BY <2>6
  <2>8. BevsAreOutputs'
    BY <2>4, <2>6 DEF NumbersInv, BevsAreOutputs
  <2>9. OutputAttributed'
    BY <2>3, <2>6 DEF NumbersInv, OutputAttributed, hasFd
  <2>10. InputsKept'
    BY <2>7 DEF NumbersInv, InputsKept, TableKnown, TaskFds, isTaskRunning
  <2>11. InputMatches'
    <3> SUFFICES ASSUME NEW j \in 1 .. Len(ioQueue'), ioQueue'[j].msgType = "PUT_DATA_TO_FD"
                 PROVE  /\ fds'[ioQueue'[j].fd].kind = "stdin"
                        /\ fds'[ioQueue'[j].fd].task = ioQueue'[j].task
      BY DEF InputMatches
    <3>1. PICK k \in 1 .. Len(ioQueue) :
            IsMessage(ioQueue'[j], ioQueue[k].msgType, ioQueue[k].fd, ioQueue[k].fdType,
                      ioQueue[k].task)
      BY <1>1
    <3>2. ioQueue[k].fd \in Fds
      BY QueueFds
    <3> QED BY <2>7, <3>1, <3>2 DEF NumbersInv, InputMatches, IsMessage
  <2>12. AddsMatch'
    <3> SUFFICES ASSUME NEW j \in 1 .. Len(ioQueue'), ioQueue'[j].msgType = "ADD_FD"
                 PROVE  /\ fds'[ioQueue'[j].fd].kind = ioQueue'[j].fdType
                        /\ fds'[ioQueue'[j].fd].task = ioQueue'[j].task
                        /\ ~fds'[ioQueue'[j].fd].bev
      BY DEF AddsMatch
    <3>1. PICK k \in 1 .. Len(ioQueue) :
            /\ k # i
            /\ IsMessage(ioQueue'[j], ioQueue[k].msgType, ioQueue[k].fd, ioQueue[k].fdType,
                         ioQueue[k].task)
      BY <1>1
    <3>2. ioQueue[k].fd \in Fds
      BY QueueFds
    <3>3. ioQueue[k].fd # m.fd
      BY <1>1, <1>3, <1>6, <3>1 DEF NumbersInv, AddsOnce, IsMessage
    <3>4. fds'[ioQueue[k].fd] = fds[ioQueue[k].fd]
      BY <2>6, <3>2, <3>3
    <3> QED BY <3>1, <3>4 DEF NumbersInv, AddsMatch, IsMessage
  <2> QED BY <1>1, <1>5, <2>8, <2>9, <2>10, <2>11, <2>12 DEF NumbersInv
<1>7. CASE /\ UNCHANGED fds
           /\ \A f \in Fds : hasFd(f)' => hasFd(f) /\ fd2IOData'[f].task = fd2IOData[f].task
  <2>1. BevsAreOutputs' /\ OutputAttributed'
    BY <1>7 DEF NumbersInv, BevsAreOutputs, OutputAttributed
  <2>2. InputsKept'
    BY <1>7 DEF NumbersInv, InputsKept, isTaskRunning
  <2>3. AddsMatch' /\ InputMatches'
    <3>1. ASSUME NEW j \in 1 .. Len(ioQueue')
          PROVE  \E k \in 1 .. Len(ioQueue) :
                   IsMessage(ioQueue'[j], ioQueue[k].msgType, ioQueue[k].fd, ioQueue[k].fdType,
                             ioQueue[k].task)
      BY <1>1
    <3>2. AddsMatch'
      BY <1>7, <3>1 DEF NumbersInv, AddsMatch, IsMessage
    <3>3. InputMatches'
      <4> SUFFICES ASSUME NEW j \in 1 .. Len(ioQueue'), ioQueue'[j].msgType = "PUT_DATA_TO_FD"
                   PROVE  /\ fds[ioQueue'[j].fd].kind = "stdin"
                          /\ fds[ioQueue'[j].fd].task = ioQueue'[j].task
        BY <1>7 DEF InputMatches
      <4>1. PICK k \in 1 .. Len(ioQueue) :
              IsMessage(ioQueue'[j], ioQueue[k].msgType, ioQueue[k].fd, ioQueue[k].fdType,
                        ioQueue[k].task)
        BY <3>1
      <4> QED BY <4>1 DEF NumbersInv, InputMatches, IsMessage
    <3> QED BY <3>2, <3>3
  <2> QED BY <1>1, <1>5, <2>1, <2>2, <2>3 DEF NumbersInv
<1>8. CASE RemoveFd(m)
  <2>1. UNCHANGED fds /\ fd2IOData' = [fd2IOData EXCEPT ![m.fd] = NoData]
    BY <1>8 DEF RemoveFd
  <2>2. \A f \in Fds : hasFd(f)' => hasFd(f) /\ fd2IOData'[f].task = fd2IOData[f].task
    BY <1>4, <2>1 DEF hasFd
  <2> QED BY <1>7, <2>1, <2>2
<1>9. ASSUME NEW on \in BOOLEAN, SetRedirect(m, on), m.msgType # "PUT_DATA_TO_FD",
             m.msgType # "ADD_FD", m.msgType # "REMOVE_FD"
      PROVE  NumbersInv'
  <2>1. hasFd(m.fd)
    BY <1>3, <1>9 DEF MsgCause
  <2>2. UNCHANGED fds
        /\ fd2IOData' = [fd2IOData EXCEPT ![m.fd] = [fd2IOData[m.fd] EXCEPT !.redirect = on]]
    BY <1>9 DEF SetRedirect
  <2>3. [fd2IOData[m.fd] EXCEPT !.redirect = on].task = fd2IOData[m.fd].task
    BY <1>4 DEF IOData
  <2>4. \A f \in Fds : hasFd(f)' => hasFd(f) /\ fd2IOData'[f].task = fd2IOData[f].task
    BY <1>4, <2>1, <2>2, <2>3 DEF hasFd
  <2> QED BY <1>7, <2>2, <2>4
<1>10. CASE UNCHANGED <<fds, fd2IOData>>
  BY <1>7, <1>10 DEF hasFd
<1> QED BY <1>3, <1>6, <1>8, <1>9, <1>10 DEF Handle

\* Nothing is left of a process that ends.
LEMMA EndingStep ==
  ASSUME Ending
  PROVE  NumbersInv'
<1>1. fds' = [f \in Fds |-> Closed] /\ ioQueue' = <<>>
  BY DEF Ending, IODown
<1>2. Len(ioQueue') = 0
  BY <1>1
<1>3. AddsMatch' /\ AddsOnce' /\ InputMatches' /\ OfTasks'
  BY <1>2 DEF AddsMatch, AddsOnce, InputMatches, OfTasks
<1>4. BevsAreOutputs' /\ OutputAttributed'
  BY <1>1, PipeType DEF BevsAreOutputs, OutputAttributed
<1>5. TableKnown' /\ InputsKept'
  BY DEF Ending, TableKnown, InputsKept
<1> QED BY <1>3, <1>4, <1>5 DEF NumbersInv

\* Every kind of step keeps numbers, entries and messages together.
LEMMA NumbersStep ==
  ASSUME TTypeOK, NumbersInv, IOStepKind
  PROVE  NumbersInv'
<1>1. CASE Still
  BY <1>1, StillMoves, MovesStep DEF Still, isTaskRunning
<1>2. CASE Calling
  <2>1. UNCHANGED <<mFds, taskId2RunningTask>>
    BY <1>2 DEF Calling
  <2>2. CASE \E f \in Fds : (fdReadDelegate(f) /\ hasFd(f)) \/ onFdEventCb(f)
    BY <2>1, <2>2, ReadMoves, MovesStep DEF isTaskRunning
  <2> QED BY <1>2, <2>1, <2>2, HandleStep DEF Calling
<1>3. CASE Resuming
  BY <1>3, MovesStep DEF Resuming, Moves, isTaskRunning
<1> QED BY <1>1, <1>2, <1>3, OpeningStep, OrderingStep, ReapingStep, EndingStep DEF IOStepKind

-----------------------------------------------------------------------------
(* The order of messages *)

Removal(m, f, t) == m.msgType = "REMOVE_FD" /\ m.fd = f /\ m.task = t
Addition(m, f, t) == m.msgType = "ADD_FD" /\ m.fd = f /\ m.task = t

\* A message for number f and task t at place i of the queue will find the entry of t
\* (if the process does not end before): it is there, or will be added, and is not
\* removed in between.
Finds(queue, entries, i, f, t) ==
  \/ /\ entries[f].task = t
     /\ \A j \in 1 .. i - 1 : ~Removal(queue[j], f, t)
  \/ \E k \in 1 .. i - 1 :
       /\ Addition(queue[k], f, t)
       /\ \A j \in k + 1 .. i - 1 : ~Removal(queue[j], f, t)

MessagesServed ==
  \A i \in 1 .. Len(ioQueue) : ioQueue[i].msgType # "ADD_FD" =>
    Finds(ioQueue, fd2IOData, i, ioQueue[i].fd, ioQueue[i].task)

\* A message sent now about a running task would find its entries.
TasksServed ==
  \A t \in Ids : isTaskRunning(t) =>
    /\ Finds(ioQueue, fd2IOData, Len(ioQueue) + 1, mFds[t].stdin, t)
    /\ Finds(ioQueue, fd2IOData, Len(ioQueue) + 1, mFds[t].stdout, t)
    /\ Finds(ioQueue, fd2IOData, Len(ioQueue) + 1, mFds[t].stderr, t)

\* Until a message overtakes an earlier one about its number, every message finds its
\* entry; so a switch or a removal that misses has been overtaken.
Served == MessagesServed /\ TasksServed

OrderInv == (~overtaken => Served) /\ MissesOnlyOvertaken

\* What comes later in the queue finds the entry too, if nobody removes it before.
LEMMA FindsLater ==
  ASSUME NEW q, NEW q2, NEW e, NEW n \in Nat, NEW i \in 1 .. n + 1, NEW k \in Nat, i <= k,
         NEW f, NEW t, \A j \in 1 .. n : q2[j] = q[j], Finds(q, e, i, f, t),
         \A j \in i .. k - 1 : ~Removal(q2[j], f, t)
  PROVE  Finds(q2, e, k, f, t)
<1>1. \A j \in 1 .. i - 1 : q2[j] = q[j]
  OBVIOUS
<1>2. \A j \in 1 .. k - 1 : j \in 1 .. i - 1 \/ j \in i .. k - 1
  OBVIOUS
<1>3. CASE e[f].task = t /\ \A j \in 1 .. i - 1 : ~Removal(q[j], f, t)
  <2>1. \A j \in 1 .. k - 1 : ~Removal(q2[j], f, t)
    BY <1>1, <1>2, <1>3
  <2> QED BY <1>3, <2>1 DEF Finds
<1>4. ASSUME NEW l \in 1 .. i - 1, Addition(q[l], f, t),
             \A j \in l + 1 .. i - 1 : ~Removal(q[j], f, t)
      PROVE  Finds(q2, e, k, f, t)
  <2>1. l \in 1 .. k - 1 /\ Addition(q2[l], f, t)
    BY <1>1, <1>4
  <2>2. \A j \in l + 1 .. k - 1 : ~Removal(q2[j], f, t)
    <3> TAKE j \in l + 1 .. k - 1
    <3>1. j \in l + 1 .. i - 1 \/ j \in i .. k - 1
      BY <1>4
    <3> QED BY <1>1, <1>4, <3>1
  <2> QED BY <2>1, <2>2 DEF Finds
<1> QED BY <1>3, <1>4 DEF Finds

\* The place a message has when the one at place i is gone.
After(i, k) == IF k < i THEN k ELSE k - 1

\* The i-th of n messages is handled: the rest still finds what it would have found, if
\* the message has the effect on the entry that is asked for, did not remove it from
\* under an earlier message, and is not an addition that an earlier removal waits for.
LEMMA FindsSooner ==
  ASSUME NEW q, NEW q2, NEW e, NEW e2, NEW n \in Nat, NEW i \in 1 .. n, NEW k \in 1 .. n + 1,
         k # i, NEW f, NEW t, Finds(q, e, k, f, t),
         \A j \in 1 .. n - 1 :
           LET m == q[Before(i, j)] IN IsMessage(q2[j], m.msgType, m.fd, m.fdType, m.task),
         e[f].task = t /\ ~Removal(q[i], f, t) => e2[f].task = t,
         k < i => ~Removal(q[i], f, t),
         Addition(q[i], f, t) => e2[f].task = t /\ \A j \in 1 .. i - 1 : ~Removal(q[j], f, t)
  PROVE  Finds(q2, e2, After(i, k), f, t)
<1>1. \A j \in 1 .. After(i, k) - 1 :
        /\ j \in 1 .. n - 1
        /\ Before(i, j) \in 1 .. k - 1 /\ Before(i, j) # i
        /\ After(i, Before(i, j)) = j
  BY DEF Before, After
<1>2. \A l \in 1 .. k - 1 : l # i =>
        /\ After(i, l) \in 1 .. After(i, k) - 1 /\ Before(i, After(i, l)) = l
        /\ \A j \in After(i, l) + 1 .. After(i, k) - 1 :
             j \in 1 .. After(i, k) - 1 /\ Before(i, j) \in l + 1 .. k - 1
  BY DEF Before, After
<1>3. \A j \in 1 .. After(i, k) - 1 :
        /\ Removal(q2[j], f, t) => Removal(q[Before(i, j)], f, t)
        /\ Addition(q[Before(i, j)], f, t) => Addition(q2[j], f, t)
  BY <1>1 DEF Removal, Addition, IsMessage
<1>4. CASE e[f].task = t /\ \A j \in 1 .. k - 1 : ~Removal(q[j], f, t)
  <2>1. ~Removal(q[i], f, t)
    <3>1. k < i \/ i \in 1 .. k - 1
      OBVIOUS
    <3> QED BY <1>4, <3>1
  <2>2. e2[f].task = t
    BY <1>4, <2>1
  <2>3. \A j \in 1 .. After(i, k) - 1 : ~Removal(q2[j], f, t)
    BY <1>1, <1>3, <1>4
  <2> QED BY <2>2, <2>3 DEF Finds
<1>5. ASSUME NEW l \in 1 .. k - 1, Addition(q[l], f, t),
             \A j \in l + 1 .. k - 1 : ~Removal(q[j], f, t)
      PROVE  Finds(q2, e2, After(i, k), f, t)
  <2>1. CASE l # i
    <3>1. After(i, l) \in 1 .. After(i, k) - 1 /\ Before(i, After(i, l)) = l
      BY <1>2, <2>1
    <3>2. Addition(q2[After(i, l)], f, t)
      BY <1>3, <1>5, <3>1
    <3>3. \A j \in After(i, l) + 1 .. After(i, k) - 1 : ~Removal(q2[j], f, t)
      BY <1>2, <1>3, <1>5, <2>1
    <3> QED BY <3>1, <3>2, <3>3 DEF Finds
  <2>2. CASE l = i
    <3>1. e2[f].task = t /\ \A j \in 1 .. i - 1 : ~Removal(q[j], f, t)
      BY <1>5, <2>2
    <3>2. \A j \in 1 .. After(i, k) - 1 :
            Before(i, j) \in 1 .. i - 1 \/ Before(i, j) \in l + 1 .. k - 1
      BY <2>2 DEF Before, After
    <3>3. \A j \in 1 .. After(i, k) - 1 : ~Removal(q2[j], f, t)
      BY <1>3, <1>5, <3>1, <3>2
    <3> QED BY <3>1, <3>3 DEF Finds
  <2> QED BY <2>1, <2>2
<1> QED BY <1>4, <1>5 DEF Finds

\* Messages are sent: those that were there find what they would have found, and those
\* of the tasks that run too, where none of the new ones removes it.
LEMMA GrowsServed ==
  ASSUME TTypeOK, MessagesServed, NEW n \in Nat, GrowsBy(n), UNCHANGED fd2IOData
  PROVE  /\ \A i \in 1 .. Len(ioQueue) : ioQueue'[i].msgType # "ADD_FD" =>
              Finds(ioQueue', fd2IOData', i, ioQueue'[i].fd, ioQueue'[i].task)
         /\ \A f, t : \A k \in Len(ioQueue) + 1 .. Len(ioQueue') + 1 :
              /\ Finds(ioQueue, fd2IOData, Len(ioQueue) + 1, f, t)
              /\ \A j \in Len(ioQueue) + 1 .. k - 1 : ~Removal(ioQueue'[j], f, t)
              => Finds(ioQueue', fd2IOData', k, f, t)
<1>1. Len(ioQueue) \in Nat /\ Len(ioQueue') = Len(ioQueue) + n
      /\ \A i \in 1 .. Len(ioQueue) : ioQueue'[i] = ioQueue[i]
  BY TypesNamed, LenProperties DEF GrowsBy
<1>2. ASSUME NEW i \in 1 .. Len(ioQueue), ioQueue'[i].msgType # "ADD_FD"
      PROVE  Finds(ioQueue', fd2IOData', i, ioQueue'[i].fd, ioQueue'[i].task)
  <2>1. Finds(ioQueue, fd2IOData, i, ioQueue'[i].fd, ioQueue'[i].task)
    BY <1>1, <1>2 DEF MessagesServed
  <2>2. i \in 1 .. Len(ioQueue) + 1 /\ i \in Nat /\ i <= i
    BY <1>1
  <2>3. \A j \in i .. i - 1 : ~Removal(ioQueue'[j], ioQueue'[i].fd, ioQueue'[i].task)
    OBVIOUS
  <2>4. Finds(ioQueue', fd2IOData, i, ioQueue'[i].fd, ioQueue'[i].task)
    BY <1>1, <2>1, <2>2, <2>3, FindsLater
  <2> QED BY <2>4
<1>3. ASSUME NEW f, NEW t, NEW k \in Len(ioQueue) + 1 .. Len(ioQueue') + 1,
             Finds(ioQueue, fd2IOData, Len(ioQueue) + 1, f, t),
             \A j \in Len(ioQueue) + 1 .. k - 1 : ~Removal(ioQueue'[j], f, t)
      PROVE  Finds(ioQueue', fd2IOData', k, f, t)
  <2>1. Len(ioQueue) + 1 \in 1 .. Len(ioQueue) + 1 /\ k \in Nat /\ Len(ioQueue) + 1 <= k
    BY <1>1
  <2>2. Finds(ioQueue', fd2IOData, k, f, t)
    BY <1>1, <1>3, <2>1, FindsLater
  <2> QED BY <2>2
<1> QED BY <1>2, <1>3

\* Where nothing is sent and no message is handled, the order stays.
LEMMA QuietOrder ==
  ASSUME Served, UNCHANGED <<fd2IOData, ioQueue, mFds>>,
         \A t \in Ids : isTaskRunning(t)' <=> isTaskRunning(t)
  PROVE  Served'
BY DEF Served, MessagesServed, TasksServed

\* Messages are sent that remove nothing of the tasks that were running: the next
\* message about one of those finds its entry as before.
LEMMA GrowsTask ==
  ASSUME TTypeOK, MessagesServed, TasksServed, NEW n \in Nat, GrowsBy(n), UNCHANGED fd2IOData,
         NEW x \in Ids, isTaskRunning(x),
         NEW k \in Len(ioQueue) + 1 .. Len(ioQueue') + 1,
         \A j \in Len(ioQueue) + 1 .. k - 1 :
           ioQueue'[j].msgType # "REMOVE_FD" \/ ioQueue'[j].task # x
  PROVE  /\ Finds(ioQueue', fd2IOData', k, mFds[x].stdin, x)
         /\ Finds(ioQueue', fd2IOData', k, mFds[x].stdout, x)
         /\ Finds(ioQueue', fd2IOData', k, mFds[x].stderr, x)
<1>1. \A f : \A j \in Len(ioQueue) + 1 .. k - 1 : ~Removal(ioQueue'[j], f, x)
  BY DEF Removal
<1>2. /\ Finds(ioQueue, fd2IOData, Len(ioQueue) + 1, mFds[x].stdin, x)
      /\ Finds(ioQueue, fd2IOData, Len(ioQueue) + 1, mFds[x].stdout, x)
      /\ Finds(ioQueue, fd2IOData, Len(ioQueue) + 1, mFds[x].stderr, x)
  BY DEF TasksServed
<1> QED BY <1>1, <1>2, GrowsServed

\* A start: the additions of the new task precede all that will be about it.
LEMMA OpeningOrder ==
  ASSUME TTypeOK, NumbersInv, Served, NEW t \in Ids, Opening(t)
  PROVE  Served'
<1>1. PICK keep \in TaskFds :
         IF isTaskRunning(t)'
         THEN addFds(t, keep) /\ mFds' = [mFds EXCEPT ![t] = keep]
         ELSE UNCHANGED <<ioQueue, mFds>>
  BY OpeningEffect
<1>2. UNCHANGED fd2IOData
  BY OpeningEffect
<1>3. MessagesServed /\ TasksServed
  BY DEF Served
<1>4. ~isTaskRunning(t) /\ \A x \in Ids \ {t} : isTaskRunning(x)' <=> isTaskRunning(x)
  BY DEF Opening
<1>5. CASE ~isTaskRunning(t)'
  BY <1>1, <1>2, <1>4, <1>5, QuietOrder
<1>6. CASE isTaskRunning(t)'
  <2> DEFINE n == Len(ioQueue)
  <2>1. ioQueue \in Seq(Messages) /\ n \in Nat /\ mFds \in [Ids -> TaskFds \cup {NoFds}]
    BY TypesNamed, LenProperties
  <2>2. /\ GrowsBy(3)
        /\ IsMessage(ioQueue'[n + 1], "ADD_FD", keep.stdin, "stdin", t)
        /\ IsMessage(ioQueue'[n + 2], "ADD_FD", keep.stdout, "stdout", t)
        /\ IsMessage(ioQueue'[n + 3], "ADD_FD", keep.stderr, "stderr", t)
    BY <1>1, <1>6, <2>1, PostThree DEF addFds, MsgTypes
  <2>3. Len(ioQueue') = n + 3
    BY <2>2 DEF GrowsBy
  <2>4. \A i \in Len(ioQueue) + 1 .. Len(ioQueue') : ioQueue'[i].msgType = "ADD_FD"
    <3>1. \A i \in n + 1 .. n + 3 : i = n + 1 \/ i = n + 2 \/ i = n + 3
      BY <2>1
    <3> QED BY <2>2, <2>3, <3>1 DEF IsMessage
  <2>5. MessagesServed'
    <3> SUFFICES ASSUME NEW i \in 1 .. Len(ioQueue'), ioQueue'[i].msgType # "ADD_FD"
                 PROVE  Finds(ioQueue', fd2IOData', i, ioQueue'[i].fd, ioQueue'[i].task)
      BY DEF MessagesServed
    <3>1. i \in 1 .. Len(ioQueue)
      BY <2>1, <2>3, <2>4
    <3> QED BY <1>2, <1>3, <2>2, <3>1, GrowsServed
  <2>6. ASSUME NEW x \in Ids, isTaskRunning(x)'
        PROVE  /\ Finds(ioQueue', fd2IOData', Len(ioQueue') + 1, mFds'[x].stdin, x)
               /\ Finds(ioQueue', fd2IOData', Len(ioQueue') + 1, mFds'[x].stdout, x)
               /\ Finds(ioQueue', fd2IOData', Len(ioQueue') + 1, mFds'[x].stderr, x)
    <3>1. CASE x # t
      <4>1. isTaskRunning(x) /\ mFds'[x] = mFds[x]
        BY <1>1, <1>4, <1>6, <2>1, <2>6, <3>1
      <4>2. Len(ioQueue') + 1 \in Len(ioQueue) + 1 .. Len(ioQueue') + 1
        BY <2>1, <2>3
      <4>3. \A j \in Len(ioQueue) + 1 .. Len(ioQueue') + 1 - 1 :
              ioQueue'[j].msgType # "REMOVE_FD" \/ ioQueue'[j].task # x
        BY <2>1, <2>3, <2>4
      <4> QED BY <1>2, <1>3, <2>2, <4>1, <4>2, <4>3, GrowsTask
    <3>2. CASE x = t
      <4>1. mFds'[x] = keep
        BY <1>1, <1>6, <2>1, <3>2
      <4>2. /\ Addition(ioQueue'[n + 1], keep.stdin, t) /\ Addition(ioQueue'[n + 2], keep.stdout, t)
            /\ Addition(ioQueue'[n + 3], keep.stderr, t)
        BY <2>2 DEF Addition, IsMessage
      <4>3. \A f : \A j \in n + 1 .. n + 3 : ~Removal(ioQueue'[j], f, t)
        BY <2>3, <2>4 DEF Removal
      <4>4. \A f : \A l \in n + 1 .. n + 3 : Addition(ioQueue'[l], f, t) =>
              Finds(ioQueue', fd2IOData', n + 4, f, t)
        <5> SUFFICES ASSUME NEW f, NEW l \in n + 1 .. n + 3, Addition(ioQueue'[l], f, t)
                     PROVE  Finds(ioQueue', fd2IOData', n + 4, f, t)
          OBVIOUS
        <5>1. l \in 1 .. n + 4 - 1
          BY <2>1
        <5>2. \A j \in l + 1 .. n + 4 - 1 : ~Removal(ioQueue'[j], f, t)
          <6> TAKE j \in l + 1 .. n + 4 - 1
          <6>1. j \in n + 1 .. n + 3
            BY <2>1
          <6> QED BY <4>3, <6>1
        <5> QED BY <5>1, <5>2 DEF Finds
      <4>5. Len(ioQueue') + 1 = n + 4
        BY <2>1, <2>3
      <4> HIDE DEF n
      <4> QED BY <2>1, <3>2, <4>1, <4>2, <4>4, <4>5
    <3> QED BY <3>1, <3>2
  <2> QED BY <2>5, <2>6 DEF Served, TasksServed
<1> QED BY <1>5, <1>6

\* A command: its messages find the entries of its task, and take none away.
LEMMA OrderingOrder ==
  ASSUME TTypeOK, NumbersInv, Served, NEW t \in Ids, Ordering(t)
  PROVE  Served'
<1> DEFINE n == Len(ioQueue)
<1>1. mFds[t] \in TaskFds /\ ioQueue \in Seq(Messages) /\ n \in Nat /\ isTaskRunning(t)
  BY TypesNamed, LenProperties DEF Ordering, NumbersInv, TableKnown
<1>2. UNCHANGED <<fds, fd2IOData, crash, mFds, taskId2RunningTask>>
  BY DEF Ordering
<1>3. MessagesServed /\ TasksServed
  BY DEF Served
<1>4. ASSUME NEW g \in Nat, GrowsBy(g),
             \A i \in n + 1 .. n + g :
               /\ ioQueue'[i].msgType # "REMOVE_FD" /\ ioQueue'[i].task = t
               /\ ioQueue'[i].fd \in {mFds[t].stdin, mFds[t].stdout, mFds[t].stderr}
      PROVE  Served'
  <2>1. Len(ioQueue') = n + g
    BY <1>4 DEF GrowsBy
  <2>2. ASSUME NEW k \in n + 1 .. n + g + 1, NEW x \in Ids, isTaskRunning(x)
        PROVE  /\ Finds(ioQueue', fd2IOData', k, mFds[x].stdin, x)
               /\ Finds(ioQueue', fd2IOData', k, mFds[x].stdout, x)
               /\ Finds(ioQueue', fd2IOData', k, mFds[x].stderr, x)
    <3>1. k \in Len(ioQueue) + 1 .. Len(ioQueue') + 1
      BY <2>1
    <3>2. \A j \in Len(ioQueue) + 1 .. k - 1 :
            ioQueue'[j].msgType # "REMOVE_FD" \/ ioQueue'[j].task # x
      BY <1>1, <1>4
    <3> QED BY <1>2, <1>3, <1>4, <2>2, <3>1, <3>2, GrowsTask
  <2>3. MessagesServed'
    <3> SUFFICES ASSUME NEW i \in 1 .. Len(ioQueue'), ioQueue'[i].msgType # "ADD_FD"
                 PROVE  Finds(ioQueue', fd2IOData', i, ioQueue'[i].fd, ioQueue'[i].task)
      BY DEF MessagesServed
    <3>1. CASE i \in 1 .. Len(ioQueue)
      BY <1>2, <1>3, <1>4, <3>1, GrowsServed
    <3>2. CASE i \notin 1 .. Len(ioQueue)
      <4>1. i \in n + 1 .. n + g /\ i \in n + 1 .. n + g + 1
        BY <1>1, <2>1, <3>2
      <4> HIDE DEF n
      <4> QED BY <1>1, <1>4, <2>2, <4>1
    <3> QED BY <3>1, <3>2
  <2>4. TasksServed'
    <3> SUFFICES ASSUME NEW x \in Ids, isTaskRunning(x)'
                 PROVE  /\ Finds(ioQueue', fd2IOData', Len(ioQueue') + 1, mFds'[x].stdin, x)
                        /\ Finds(ioQueue', fd2IOData', Len(ioQueue') + 1, mFds'[x].stdout, x)
                        /\ Finds(ioQueue', fd2IOData', Len(ioQueue') + 1, mFds'[x].stderr, x)
      BY DEF TasksServed
    <3>1. isTaskRunning(x) /\ mFds'[x] = mFds[x]
      BY <1>2 DEF isTaskRunning
    <3>2. Len(ioQueue') + 1 \in n + 1 .. n + g + 1
      BY <1>1, <2>1
    <3> HIDE DEF n
    <3> QED BY <2>2, <3>1, <3>2
  <2> QED BY <2>3, <2>4 DEF Served
<1>5. CASE enableRedirect(t, mFds[t]) \/ disableRedirect(t, mFds[t])
  <2>1. PICK type \in {"ENABLE_FD_REDIRECT", "DISABLE_FD_REDIRECT"} :
          Post(type, <<"stdout", "stderr">>, mFds[t], t)
    BY <1>5 DEF enableRedirect, disableRedirect
  <2>2. /\ GrowsBy(2)
        /\ IsMessage(ioQueue'[n + 1], type, mFds[t].stdout, "stdout", t)
        /\ IsMessage(ioQueue'[n + 2], type, mFds[t].stderr, "stderr", t)
    BY <1>1, <2>1, PostTwo DEF MsgTypes
  <2> HIDE DEF n
  <2>3. \A i \in n + 1 .. n + 2 : i = n + 1 \/ i = n + 2
    BY <1>1
  <2> QED BY <1>4, <2>2, <2>3 DEF IsMessage
<1>6. CASE putToStdin(t, mFds[t])
  <2>1. /\ GrowsBy(1)
        /\ IsMessage(ioQueue'[n + 1], "PUT_DATA_TO_FD", mFds[t].stdin, "stdin", t)
    BY <1>1, <1>6, PostOne DEF MsgTypes, putToStdin
  <2> HIDE DEF n
  <2>2. \A i \in n + 1 .. n + 1 : i = n + 1
    BY <1>1
  <2> QED BY <1>4, <2>1, <2>2 DEF IsMessage
<1> QED BY <1>5, <1>6 DEF Ordering

\* A task leaves the table: each of its removals finds an entry the others leave alone.
LEMMA ReapingOrder ==
  ASSUME TTypeOK, NumbersInv, Served, NEW t \in Ids, Reaping(t)
  PROVE  Served'
<1> DEFINE n == Len(ioQueue)
<1>1. /\ mFds[t] \in TaskFds /\ ioQueue \in Seq(Messages) /\ n \in Nat /\ isTaskRunning(t)
      /\ mFds \in [Ids -> TaskFds \cup {NoFds}]
  BY TypesNamed, LenProperties DEF Reaping, NumbersInv, TableKnown
<1>2. UNCHANGED fd2IOData /\ mFds' = [mFds EXCEPT ![t] = NoFds]
  BY DEF Reaping
<1>3. MessagesServed /\ TasksServed
  BY DEF Served
<1>4. /\ GrowsBy(3)
      /\ IsMessage(ioQueue'[n + 1], "REMOVE_FD", mFds[t].stdin, "stdin", t)
      /\ IsMessage(ioQueue'[n + 2], "REMOVE_FD", mFds[t].stdout, "stdout", t)
      /\ IsMessage(ioQueue'[n + 3], "REMOVE_FD", mFds[t].stderr, "stderr", t)
  BY <1>1, PostThree DEF Reaping, removeFds, MsgTypes
<1>5. Len(ioQueue') = n + 3
  BY <1>4 DEF GrowsBy
<1>6. /\ mFds[t].stdin # mFds[t].stdout /\ mFds[t].stdin # mFds[t].stderr
      /\ mFds[t].stdout # mFds[t].stderr
  BY <1>1 DEF NumbersInv, InputsKept
<1>7. \A i \in n + 1 .. n + 3 : i = n + 1 \/ i = n + 2 \/ i = n + 3
  BY <1>1
<1>8. \A i \in n + 1 .. n + 3 : \A j \in n + 1 .. i - 1 :
        ~Removal(ioQueue'[j], ioQueue'[i].fd, t)
  <2> SUFFICES ASSUME NEW i \in n + 1 .. n + 3, NEW j \in n + 1 .. i - 1
               PROVE  ~Removal(ioQueue'[j], ioQueue'[i].fd, t)
    OBVIOUS
  <2>1. j \in n + 1 .. n + 3 /\ j # i
    BY <1>1
  <2> HIDE DEF n
  <2> QED BY <1>4, <1>6, <1>7, <2>1 DEF Removal, IsMessage
<1>9. \A i \in n + 1 .. n + 3 :
         /\ ioQueue'[i].task = t
         /\ Finds(ioQueue, fd2IOData, n + 1, ioQueue'[i].fd, t)
  <2>1. /\ Finds(ioQueue, fd2IOData, n + 1, mFds[t].stdin, t)
        /\ Finds(ioQueue, fd2IOData, n + 1, mFds[t].stdout, t)
        /\ Finds(ioQueue, fd2IOData, n + 1, mFds[t].stderr, t)
    BY <1>1, <1>3 DEF TasksServed
  <2> HIDE DEF n
  <2> QED BY <1>4, <1>7, <2>1 DEF IsMessage
<1>10. MessagesServed'
  <2> SUFFICES ASSUME NEW i \in 1 .. Len(ioQueue'), ioQueue'[i].msgType # "ADD_FD"
               PROVE  Finds(ioQueue', fd2IOData', i, ioQueue'[i].fd, ioQueue'[i].task)
    BY DEF MessagesServed
  <2>1. CASE i \in 1 .. Len(ioQueue)
    BY <1>2, <1>3, <1>4, <2>1, GrowsServed
  <2>2. CASE i \notin 1 .. Len(ioQueue)
    <3>1. i \in n + 1 .. n + 3 /\ i \in Len(ioQueue) + 1 .. Len(ioQueue') + 1
      BY <1>1, <1>5, <2>2
    <3>2. /\ Finds(ioQueue, fd2IOData, Len(ioQueue) + 1, ioQueue'[i].fd, t)
          /\ \A j \in Len(ioQueue) + 1 .. i - 1 : ~Removal(ioQueue'[j], ioQueue'[i].fd, t)
      BY <1>8, <1>9, <3>1
    <3>3. Finds(ioQueue', fd2IOData', i, ioQueue'[i].fd, t)
      BY <1>2, <1>3, <1>4, <3>1, <3>2, GrowsServed
    <3> QED BY <1>9, <3>1, <3>3
  <2> QED BY <2>1, <2>2
<1>11. TasksServed'
  <2> SUFFICES ASSUME NEW x \in Ids, isTaskRunning(x)'
               PROVE  /\ Finds(ioQueue', fd2IOData', Len(ioQueue') + 1, mFds'[x].stdin, x)
                      /\ Finds(ioQueue', fd2IOData', Len(ioQueue') + 1, mFds'[x].stdout, x)
                      /\ Finds(ioQueue', fd2IOData', Len(ioQueue') + 1, mFds'[x].stderr, x)
    BY DEF TasksServed
  <2>1. x # t /\ isTaskRunning(x)
    BY DEF Reaping
  <2>2. mFds'[x] = mFds[x]
    BY <1>1, <1>2, <2>1
  <2>3. Len(ioQueue') + 1 \in Len(ioQueue) + 1 .. Len(ioQueue') + 1
    BY <1>1, <1>5
  <2>4. \A j \in Len(ioQueue) + 1 .. Len(ioQueue') + 1 - 1 :
          ioQueue'[j].msgType # "REMOVE_FD" \/ ioQueue'[j].task # x
    BY <1>1, <1>5, <1>9, <2>1
  <2> QED BY <1>2, <1>3, <1>4, <2>1, <2>2, <2>3, <2>4, GrowsTask
<1> QED BY <1>10, <1>11 DEF Served

\* The numbers of messages and of running tasks, and their tasks.
LEMMA TasksNamed ==
  ASSUME TTypeOK, NumbersInv
  PROVE  /\ \A i \in 1 .. Len(ioQueue) : ioQueue[i].fd \in Fds /\ ioQueue[i].task \in Ids
         /\ \A t \in Ids : isTaskRunning(t) =>
              mFds[t].stdin \in Fds /\ mFds[t].stdout \in Fds /\ mFds[t].stderr \in Fds
         /\ 0 \notin Ids /\ NoData.task = 0
<1>1. \A i \in 1 .. Len(ioQueue) : ioQueue[i].fd \in Fds /\ ioQueue[i].task \in Ids
  BY QueueFds DEF NumbersInv, OfTasks
<1>2. \A t \in Ids : isTaskRunning(t) => mFds[t] \in TaskFds
  BY DEF NumbersInv, TableKnown
<1>3. 0 \notin Ids /\ NoData.task = 0
  BY DEF Ids, NoData
<1> QED BY <1>1, <1>2, <1>3 DEF TaskFds

\* A message that is next, and overtakes no other, finds the entry of its own task.
LEMMA ReadyFinds ==
  ASSUME TTypeOK, NumbersInv, MessagesServed, NEW i \in Ready, ~Overtakes(i),
         ioQueue[i].msgType # "ADD_FD"
  PROVE  fd2IOData[ioQueue[i].fd].task = ioQueue[i].task /\ hasFd(ioQueue[i].fd)
<1>1. i \in 1 .. Len(ioQueue)
  BY TypesNamed, LenProperties DEF Ready
<1>2. Finds(ioQueue, fd2IOData, i, ioQueue[i].fd, ioQueue[i].task)
  BY <1>1 DEF MessagesServed
<1>3. \A k \in 1 .. i - 1 : ~Addition(ioQueue[k], ioQueue[i].fd, ioQueue[i].task)
  BY DEF Overtakes, Addition
<1>4. fd2IOData[ioQueue[i].fd].task = ioQueue[i].task
  BY <1>2, <1>3 DEF Finds
<1>5. ioQueue[i].task # NoData.task
  BY <1>1, TasksNamed
<1> QED BY <1>4, <1>5 DEF hasFd

\* A message changes the entries of its own task at most: an addition finds no entry
\* there, a removal the one that it means.
LEMMA HandleEntries ==
  ASSUME TTypeOK, NumbersInv, MessagesServed, NEW i \in Ready, ~Overtakes(i),
         MsgCause(ioQueue[i]) = "none", Handle(ioQueue[i]), NEW f \in Fds, NEW t \in Ids
  PROVE  /\ fd2IOData[f].task = t /\ ~Removal(ioQueue[i], f, t) => fd2IOData'[f].task = t
         /\ Addition(ioQueue[i], f, t) => fd2IOData'[f].task = t
<1>1. ioQueue[i] \in Messages
  BY TypesNamed, LenProperties DEF Ready
<1>2. PICK m \in Messages : m = ioQueue[i]
  BY <1>1
<1>3. m.fd \in Fds /\ fd2IOData \in [Fds -> IOData]
  BY TypesNamed DEF Messages
<1>4. CASE m.msgType = "ADD_FD" /\ AddFd(m)
  <2>1. ~hasFd(m.fd)
    BY <1>2, <1>4 DEF MsgCause
  <2>2. fd2IOData[m.fd].task # t
    BY <2>1, TasksNamed DEF hasFd
  <2>3. fd2IOData' = [fd2IOData EXCEPT ![m.fd] = [task |-> m.task, redirect |-> FALSE]]
    BY <1>4 DEF AddFd
  <2>4. fd2IOData'[m.fd].task = m.task /\ (f # m.fd => fd2IOData'[f] = fd2IOData[f])
    BY <1>3, <2>3
  <2> QED BY <1>2, <2>2, <2>4 DEF Addition
<1>5. CASE m.msgType = "REMOVE_FD" /\ RemoveFd(m)
  <2>1. fd2IOData[m.fd].task = m.task
    BY <1>2, <1>5, ReadyFinds
  <2>2. f # m.fd => fd2IOData'[f] = fd2IOData[f]
    BY <1>3, <1>5 DEF RemoveFd
  <2>3. fd2IOData[m.fd].task = t => Removal(m, m.fd, t)
    BY <1>5, <2>1 DEF Removal
  <2>4. ~Addition(m, f, t)
    BY <1>5 DEF Addition
  <2> QED BY <1>2, <2>2, <2>3, <2>4
<1>6. ASSUME NEW on \in BOOLEAN, SetRedirect(m, on), m.msgType # "ADD_FD"
      PROVE  /\ fd2IOData[f].task = t => fd2IOData'[f].task = t
             /\ ~Addition(m, f, t)
  <2>1. fd2IOData' = [fd2IOData EXCEPT ![m.fd] = [fd2IOData[m.fd] EXCEPT !.redirect = on]]
    BY <1>6 DEF SetRedirect
  <2>2. [fd2IOData[m.fd] EXCEPT !.redirect = on].task = fd2IOData[m.fd].task
    BY <1>3 DEF IOData
  <2>3. fd2IOData'[f].task = fd2IOData[f].task
    BY <1>3, <2>1, <2>2
  <2> QED BY <1>6, <2>3 DEF Addition
<1>7. CASE m.msgType = "PUT_DATA_TO_FD" /\ UNCHANGED fd2IOData
  BY <1>2, <1>7 DEF Addition
<1> QED BY <1>2, <1>4, <1>5, <1>6, <1>7 DEF Handle

\* A message that overtakes no other is handled: all that is left finds its entries.
LEMMA HandleOrder ==
  ASSUME TTypeOK, NumbersInv, Served, NEW i \in Ready, ~Overtakes(i),
         MsgCause(ioQueue[i]) = "none", Handle(ioQueue[i]), Consume(i),
         UNCHANGED <<mFds, taskId2RunningTask>>
  PROVE  Served'
<1> DEFINE n == Len(ioQueue)
<1>1. i \in 1 .. n /\ ioQueue \in Seq(Messages) /\ n \in Nat
  BY TypesNamed, LenProperties DEF Ready
<1>2. MessagesServed /\ TasksServed
  BY DEF Served
<1>3. /\ Len(ioQueue') = n - 1
      /\ \A j \in 1 .. n - 1 : LET m == ioQueue[Before(i, j)] IN
           IsMessage(ioQueue'[j], m.msgType, m.fd, m.fdType, m.task)
  BY <1>1, ConsumeEffect
<1>4. ASSUME NEW k \in 1 .. n + 1, k # i, NEW f \in Fds, NEW t \in Ids,
             k < i => ioQueue[i].fd # f, Finds(ioQueue, fd2IOData, k, f, t)
      PROVE  Finds(ioQueue', fd2IOData', After(i, k), f, t)
  <2>1. fd2IOData[f].task = t /\ ~Removal(ioQueue[i], f, t) => fd2IOData'[f].task = t
    BY <1>2, HandleEntries
  <2>2. Addition(ioQueue[i], f, t) => fd2IOData'[f].task = t
    BY <1>2, HandleEntries
  <2>3. Addition(ioQueue[i], f, t) => \A j \in 1 .. i - 1 : ~Removal(ioQueue[j], f, t)
    BY DEF Overtakes, Addition, Removal
  <2>4. k < i => ~Removal(ioQueue[i], f, t)
    BY <1>4 DEF Removal
  <2> HIDE DEF n
  <2> QED BY <1>1, <1>3, <1>4, <2>1, <2>2, <2>3, <2>4, FindsSooner
<1>5. MessagesServed'
  <2> SUFFICES ASSUME NEW j \in 1 .. Len(ioQueue'), ioQueue'[j].msgType # "ADD_FD"
               PROVE  Finds(ioQueue', fd2IOData', j, ioQueue'[j].fd, ioQueue'[j].task)
    BY DEF MessagesServed
  <2>1. PICK k \in 1 .. n : k = Before(i, j) /\ k # i /\ After(i, k) = j
    BY <1>1, <1>3 DEF Before, After
  <2>2. j \in 1 .. n - 1
    BY <1>3
  <2>3. /\ ioQueue[k].msgType # "ADD_FD" /\ ioQueue'[j].fd = ioQueue[k].fd
        /\ ioQueue'[j].task = ioQueue[k].task
    BY <1>3, <2>1, <2>2 DEF IsMessage
  <2>4. Finds(ioQueue, fd2IOData, k, ioQueue[k].fd, ioQueue[k].task)
    BY <1>2, <2>1, <2>3 DEF MessagesServed
  <2>5. ioQueue[k].fd \in Fds /\ ioQueue[k].task \in Ids
    BY <2>1, TasksNamed
  <2>6. k < i => ioQueue[i].fd # ioQueue[k].fd
    <3>1. k < i => k \in 1 .. i - 1
      BY <1>1
    <3> QED BY <3>1 DEF Overtakes
  <2>7. k \in 1 .. n + 1
    BY <1>1
  <2>8. Finds(ioQueue', fd2IOData', After(i, k), ioQueue[k].fd, ioQueue[k].task)
    BY <1>4, <2>1, <2>4, <2>5, <2>6, <2>7
  <2> QED BY <2>1, <2>3, <2>8
<1>6. TasksServed'
  <2> SUFFICES ASSUME NEW t \in Ids, isTaskRunning(t)'
               PROVE  /\ Finds(ioQueue', fd2IOData', Len(ioQueue') + 1, mFds'[t].stdin, t)
                      /\ Finds(ioQueue', fd2IOData', Len(ioQueue') + 1, mFds'[t].stdout, t)
                      /\ Finds(ioQueue', fd2IOData', Len(ioQueue') + 1, mFds'[t].stderr, t)
    BY DEF TasksServed
  <2>1. isTaskRunning(t) /\ mFds'[t] = mFds[t]
    BY DEF isTaskRunning
  <2>2. /\ n + 1 \in 1 .. n + 1 /\ n + 1 # i /\ ~(n + 1 < i)
        /\ After(i, n + 1) = Len(ioQueue') + 1
    BY <1>1, <1>3 DEF After
  <2>3. /\ Finds(ioQueue, fd2IOData, n + 1, mFds[t].stdin, t)
        /\ Finds(ioQueue, fd2IOData, n + 1, mFds[t].stdout, t)
        /\ Finds(ioQueue, fd2IOData, n + 1, mFds[t].stderr, t)
    BY <1>2, <2>1 DEF TasksServed
  <2>4. mFds[t].stdin \in Fds /\ mFds[t].stdout \in Fds /\ mFds[t].stderr \in Fds
    BY <2>1, TasksNamed
  <2>5. /\ Finds(ioQueue', fd2IOData', After(i, n + 1), mFds[t].stdin, t)
        /\ Finds(ioQueue', fd2IOData', After(i, n + 1), mFds[t].stdout, t)
        /\ Finds(ioQueue', fd2IOData', After(i, n + 1), mFds[t].stderr, t)
    BY <1>4, <2>2, <2>3, <2>4
  <2> HIDE DEF n
  <2> QED BY <2>1, <2>2, <2>5
<1> QED BY <1>5, <1>6 DEF Served

\* The end of the process: a switch or a removal was the cause only if it overtook.
LEMMA EndingOrder ==
  ASSUME TTypeOK, NumbersInv, OrderInv, Ending
  PROVE  OrderInv'
<1>1. Served'
  <2>1. ioQueue' = <<>> /\ Len(ioQueue') = 0 /\ \A t \in Ids : ~isTaskRunning(t)'
    BY DEF Ending, IODown
  <2> QED BY <2>1 DEF Served, MessagesServed, TasksServed
<1>2. ASSUME NEW i \in Ready, IODown(MsgCause(ioQueue[i])),
             overtaken' = (overtaken \/ Overtakes(i)), ~overtaken'
      PROVE  crash' \notin {"redirect", "remove"}
  <2>1. ~overtaken /\ ~Overtakes(i)
    BY <1>2
  <2>2. ioQueue[i].msgType # "ADD_FD" => hasFd(ioQueue[i].fd)
    BY <2>1, ReadyFinds DEF OrderInv, Served
  <2>3. MsgCause(ioQueue[i]) \notin {"redirect", "remove"}
    BY <2>2 DEF MsgCause
  <2> QED BY <1>2, <2>3 DEF IODown
<1>3. ASSUME NEW cause \in Causes \ {"redirect", "remove"}, IODown(cause)
      PROVE  crash' \notin {"redirect", "remove"}
  BY <1>3 DEF IODown
<1> QED BY <1>1, <1>2, <1>3 DEF Ending, OrderInv, MissesOnlyOvertaken

\* Where no exception is met, none is to be explained.
LEMMA QuietMisses ==
  ASSUME OrderInv, UNCHANGED crash, overtaken => overtaken'
  PROVE  MissesOnlyOvertaken'
BY DEF OrderInv, MissesOnlyOvertaken

\* Every kind of step keeps the order.
LEMMA OrderStep ==
  ASSUME TTypeOK, CrashEnds, NumbersInv, OrderInv, IOStepKind
  PROVE  OrderInv'
<1>1. ASSUME Served => Served', UNCHANGED <<crash, overtaken>> PROVE OrderInv'
  BY <1>1, QuietMisses DEF OrderInv
<1>2. CASE Still
  <2>1. UNCHANGED <<fd2IOData, ioQueue, mFds, crash, overtaken, taskId2RunningTask>>
    BY <1>2 DEF Still
  <2> QED BY <1>1, <2>1, QuietOrder DEF isTaskRunning
<1>3. ASSUME NEW t \in Ids, Opening(t) PROVE OrderInv'
  <2>1. UNCHANGED <<crash, overtaken>>
    BY <1>3, OpeningEffect
  <2> QED BY <1>1, <1>3, <2>1, OpeningOrder
<1>4. ASSUME NEW t \in Ids, Ordering(t) \/ Reaping(t) PROVE OrderInv'
  <2>1. UNCHANGED <<crash, overtaken>>
    BY <1>4 DEF Ordering, Reaping
  <2> QED BY <1>1, <1>4, <2>1, OrderingOrder, ReapingOrder
<1>5. CASE Calling
  <2>1. UNCHANGED <<mFds, taskId2RunningTask>>
    BY <1>5 DEF Calling
  <2>2. CASE \E f \in Fds : (fdReadDelegate(f) /\ hasFd(f)) \/ onFdEventCb(f)
    <3>1. UNCHANGED <<fd2IOData, ioQueue>>
      BY <2>2, ReadMoves
    <3>2. UNCHANGED <<crash, overtaken>>
      BY <2>2 DEF fdReadDelegate, onFdEventCb
    <3> QED BY <1>1, <2>1, <3>1, <3>2, QuietOrder DEF isTaskRunning
  <2>3. ASSUME NEW i \in Ready, MsgCause(ioQueue[i]) = "none", Handle(ioQueue[i]), Consume(i),
               UNCHANGED crash, overtaken' = (overtaken \/ Overtakes(i))
        PROVE  OrderInv'
    <3>1. ~overtaken' => ~overtaken /\ ~Overtakes(i)
      BY <2>3
    <3>2. ~overtaken' => Served'
      BY <2>1, <2>3, <3>1, HandleOrder DEF OrderInv
    <3>3. MissesOnlyOvertaken'
      BY <2>3, QuietMisses
    <3> QED BY <3>2, <3>3 DEF OrderInv
  <2> QED BY <1>5, <2>2, <2>3 DEF Calling
<1>6. CASE Resuming
  <2>1. ioQueue' = <<>> /\ \A t \in Ids : ~isTaskRunning(t)'
    BY <1>6 DEF Resuming, CrashEnds, isTaskRunning
  <2>2. Served'
    BY <2>1 DEF Served, MessagesServed, TasksServed
  <2> QED BY <1>6, <2>2 DEF Resuming, OrderInv, MissesOnlyOvertaken
<1> QED BY <1>2, <1>3, <1>4, <1>5, <1>6, EndingOrder DEF IOStepKind

-----------------------------------------------------------------------------
(* What holds in every state of the process *)

\* The inductive invariant of descriptors and messages.  It rests on that of the
\* command thread.
IOInv == TTypeOK /\ CrashEnds /\ NumbersInv /\ OrderInv

\* An exception ends the process, and the next one starts without; while there is no
\* process, nothing is posted and no task gets into the table.
LEMMA CrashStep ==
  ASSUME CrashEnds, [TNext]_allVars
  PROVE  CrashEnds'
<1>1. ASSUME up, up', UNCHANGED crash PROVE CrashEnds'
  BY <1>1 DEF CrashEnds
<1>2. ASSUME ~up', Terminate, ioQueue' = <<>> PROVE CrashEnds'
  BY <1>2 DEF Terminate, CrashEnds, isTaskRunning
<1>3. ASSUME UNCHANGED <<up, crash, ioQueue, taskId2RunningTask>> PROVE CrashEnds'
  BY <1>3 DEF CrashEnds, isTaskRunning
<1>4. CASE \E c \in Configs : CreateTask(c) /\ UNCHANGED <<ioVars, mFds>>
  BY <1>1, <1>4 DEF CreateTask, ioVars
<1>5. CASE \E t \in Ids : TStartTask(t)
  BY <1>1, <1>5 DEF TStartTask, StartTask, StartIO
<1>6. CASE \E t \in Ids : FailedStart(t) \/ IOCommand(t)
  BY <1>1, <1>6 DEF FailedStart, IOCommand, vars
<1>7. CASE \E t \in Ids : TStopTask(t) \/ TDeleteTask(t)
  BY <1>1, <1>7 DEF TStopTask, TDeleteTask, StopTask, DeleteTask, EndIO
<1>8. CASE \E e \in Evs : TOnTimerEvent(e)
  BY <1>1, <1>8 DEF TOnTimerEvent, OnTimerEvent, StartIO, FailedTimerIO, ioVars
<1>9. CASE \E p \in Pids : TOnSIGCHILD(p)
  <2> SUFFICES ASSUME NEW p \in Pids, TOnSIGCHILD(p) PROVE CrashEnds'
    BY <1>9
  <2>1. CASE up'
    BY <1>1, <2>1 DEF TOnSIGCHILD, OnSIGCHILD
  <2>2. CASE ~up'
    <3>1. Terminate /\ ioQueue' = <<>>
      BY <2>2 DEF TOnSIGCHILD, OnSIGCHILD, Reap, AllDown, IODown
    <3> QED BY <1>2, <2>2, <3>1
  <2> QED BY <2>1, <2>2
<1>10. CASE \E p \in Pids, c \in ExitCodes : TScriptExits(p, c)
  BY <1>3, <1>10 DEF TScriptExits, ScriptExits, EndIO
<1>11. CASE (\E i \in Ready : OnMsg(i)) \/ \E f \in Fds : OnReadable(f) \/ OnEOF(f)
  <2>1. /\ up
        /\ IF crash' = "none" THEN UNCHANGED <<vars, mFds>> ELSE Terminate /\ UNCHANGED faults
    BY <1>11 DEF OnMsg, OnReadable, OnEOF, IOThread
  <2>2. crash' # "none" => ioQueue' = <<>>
    BY <1>11, <2>1 DEF OnMsg, OnReadable, OnEOF, IOThread, onMsgEventCb, fdReadDelegate,
                       onFdEventCb, IODown, CrashEnds
  <2>3. CASE crash' = "none"
    BY <1>1, <2>1, <2>3 DEF vars, CrashEnds
  <2>4. CASE crash' # "none"
    BY <1>2, <2>1, <2>2, <2>4 DEF Terminate
  <2> QED BY <2>3, <2>4
<1>12. CASE Outside
  BY <1>3, <1>12 DEF Outside, ScriptWrites, DescendantsEnd, vars, tableVars
<1>13. CASE TDie
  BY <1>2, <1>13 DEF TDie, Die, Terminate, AllDown, IODown
<1>14. CASE TRestart
  BY <1>14 DEF TRestart, Restart, CrashEnds
<1>15. CASE UNCHANGED allVars
  BY <1>3, <1>15 DEF allVars, vars, tableVars, ioVars
<1> QED
  BY <1>4, <1>5, <1>6, <1>7, <1>8, <1>9, <1>10, <1>11, <1>12, <1>13, <1>14, <1>15 DEF TNext

\* No descriptor, no message, no task that runs.
LEMMA InitIO == TInit => IOInv
<1> SUFFICES ASSUME TInit PROVE IOInv
  OBVIOUS
<1>1. /\ fds = [f \in Fds |-> Closed] /\ fd2IOData = [f \in Fds |-> NoData]
      /\ ioQueue = <<>> /\ Len(ioQueue) = 0 /\ crash = "none" /\ overtaken = FALSE
      /\ mFds = [t \in Ids |-> NoFds] /\ \A t \in Ids : ~isTaskRunning(t)
  BY DEF TInit, Init, IOInit, isTaskRunning
<1>2. TTypeOK
  <2>1. NoData \in IOData /\ Closed \in FdRecord
    BY PipeType DEF NoData, IOData
  <2>2. fds \in [Fds -> FdRecord] /\ fd2IOData \in [Fds -> IOData]
        /\ mFds \in [Ids -> TaskFds \cup {NoFds}]
    BY <1>1, <2>1
  <2>3. ioQueue \in Seq(Messages) /\ crash \in Causes
    BY <1>1 DEF Causes
  <2> QED BY <1>1, <2>2, <2>3, TypesNamed
<1>3. CrashEnds
  BY <1>1 DEF CrashEnds
<1>4. AddsMatch /\ AddsOnce /\ InputMatches /\ OfTasks
  BY <1>1 DEF AddsMatch, AddsOnce, InputMatches, OfTasks
<1>5. BevsAreOutputs /\ OutputAttributed
  BY <1>1, PipeType DEF BevsAreOutputs, OutputAttributed
<1>6. TableKnown /\ InputsKept
  BY <1>1 DEF TableKnown, InputsKept
<1>7. OrderInv
  BY <1>1 DEF OrderInv, Served, MessagesServed, TasksServed, MissesOnlyOvertaken
<1> QED BY <1>2, <1>3, <1>4, <1>5, <1>6, <1>7 DEF IOInv, NumbersInv

\* Every step of either thread, and of what is around them, keeps it.
LEMMA NextIO ==
  IOInv /\ TypeOK /\ RunningTableMatchesChildren /\ [TNext]_allVars => IOInv'
<1> SUFFICES ASSUME IOInv, TypeOK, RunningTableMatchesChildren, [TNext]_allVars
             PROVE  IOInv'
  OBVIOUS
<1>1. TTypeOK /\ CrashEnds /\ NumbersInv /\ OrderInv
  BY DEF IOInv
<1>2. IOStepKind
  BY <1>1, Kind
<1>3. TTypeOK'
  BY <1>1, <1>2, TypeStep DEF NumbersInv
<1>4. CrashEnds'
  BY <1>1, CrashStep
<1>5. NumbersInv'
  BY <1>1, <1>2, NumbersStep
<1>6. OrderInv'
  BY <1>1, <1>2, OrderStep
<1> QED BY <1>3, <1>4, <1>5, <1>6 DEF IOInv

\* The invariant holds in every state the two threads reach.
THEOREM IOInvariance == TSpec => []IOInv
<1>1. TSpec => [](TypeOK /\ RunningTableMatchesChildren)
  BY Implements, TypeCorrect, TableCorrect, PTL DEF ImplementsCmdMgr
<1> QED BY <1>1, InitIO, NextIO, PTL DEF TSpec

\* Types: descriptors, entries, messages and the numbers of running tasks are what the
\* code declares; in particular a message never carries the number of no descriptor.
THEOREM TTypeCorrect == TSpec => []TTypeOK
<1>1. IOInv => TTypeOK
  BY DEF IOInv
<1> QED BY <1>1, IOInvariance, PTL

\* What a bufferevent reads is sent on under the task whose script has written it, also
\* when its number was another task's before, and whatever order messages fire in.
THEOREM AttributionCorrect == TSpec => []OutputAttributed
<1>1. IOInv => OutputAttributed
  BY DEF IOInv, NumbersInv
<1> QED BY <1>1, IOInvariance, PTL

\* Input that is written goes into the input of the script it was meant for, whatever
\* order messages with equal time stamps fire in.
THEOREM InputCorrect == TSpec => []InputReachesOwnTask
<1>1. ASSUME IOInv, NEW i \in Ready, ioQueue[i].msgType = "PUT_DATA_TO_FD"
      PROVE  fds[ioQueue[i].fd].kind = "stdin" /\ fds[ioQueue[i].fd].task = ioQueue[i].task
  <2>1. TTypeOK /\ InputMatches
    BY <1>1 DEF IOInv, NumbersInv
  <2>2. i \in 1 .. Len(ioQueue)
    BY <2>1, TypesNamed, LenProperties DEF Ready
  <2> QED BY <1>1, <2>1, <2>2 DEF InputMatches
<1>2. IOInv => InputReachesOwnTask
  BY <1>1 DEF InputReachesOwnTask
<1> QED BY <1>2, IOInvariance, PTL

\* A switch or a removal misses its descriptor, and ends the process, only after some
\* message has overtaken an earlier one about its descriptor: with the order of posting
\* kept, throwIfNotIn and map::at never throw for them, whatever is closed, reaped and
\* handed out again in between.
THEOREM MissesExplained == TSpec => []MissesOnlyOvertaken
<1>1. IOInv => MissesOnlyOvertaken
  BY DEF IOInv, OrderInv
<1> QED BY <1>1, IOInvariance, PTL
=============================================================================
