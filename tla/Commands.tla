------------------------------ MODULE Commands ------------------------------
(***************************************************************************)
(* What a command does to the tasks and what it answers (the handlers of   *)
(* cmd_mgr.cpp), as seen by the http process: only which tasks are listed  *)
(* and which are in the table of running tasks.  CmdMgr has the rest.      *)
(***************************************************************************)
EXTENDS Integers, FiniteSetsExt

CONSTANT MaxTask   \* ids of tasks are 1 .. MaxTask (bounds the model)

ASSUME CommandsAssumption == MaxTask \in Nat

TaskIds == 1 .. MaxTask

\* The commands a user can give.  SHUT_DOWN is never sent.
CmdTypes ==
  {"CREATE_TASK", "START_TASK", "STOP_TASK", "DELETE_TASK", "GET_TASK", "GET_ALL_TASK",
   "ENABLE_REDIRECT", "DISABLE_REDIRECT", "PUT_TO_STDIN"}

Statuses == {"OK", "TASK_NOT_RUNNING", "NO_SUCH_TASK", "TASK_IS_RUNNING", "FAILED"}

CmdMsg == [cmdType : CmdTypes, taskId : TaskIds]

Outcome(listed, running, status) ==
  [listed |-> listed, running |-> running, status |-> status]

NewId(listed) == Max(listed \cup {0}) + 1

\* createTask; a failed second write leaves the id in the list.
createTask(listed, running) ==
  IF NewId(listed) \notin TaskIds THEN {}
  ELSE {Outcome(listed \cup {NewId(listed)}, running, "OK"),
        Outcome(listed \cup {NewId(listed)}, running, "FAILED")}

\* startTask; a failed last write leaves the task in the table.
startTask(listed, running, t) ==
  IF t \notin listed THEN {Outcome(listed, running, "NO_SUCH_TASK")}
  ELSE IF t \in running THEN {Outcome(listed, running, "TASK_IS_RUNNING")}
  ELSE {Outcome(listed, running \cup {t}, s) : s \in {"OK", "FAILED"}}

\* stopTask only sends the signal: the task leaves the table when it is reaped.
stopTask(listed, running, t) ==
  {Outcome(listed, running,
     IF t \notin listed THEN "NO_SUCH_TASK"
     ELSE IF t \in running THEN "OK" ELSE "TASK_NOT_RUNNING")}

deleteTask(listed, running, t) ==
  {IF t \in listed THEN Outcome(listed \ {t}, running, "OK")
   ELSE Outcome(listed, running, "NO_SUCH_TASK")}

\* enableIORedirect, disableIORedirect, putToTaskInput ask the table only.
ioCommand(listed, running, t) ==
  {Outcome(listed, running, IF t \in running THEN "OK" ELSE "TASK_NOT_RUNNING")}

getTask(listed, running, t) ==
  {Outcome(listed, running, IF t \in listed THEN "OK" ELSE "NO_SUCH_TASK")}

\* handleCmdMsg: what a command may lead to.  A failure of the database, of the
\* fork or of the pipes before anything has changed answers FAILED, whatever the
\* command.
Outcomes(listed, running, msg) ==
  {Outcome(listed, running, "FAILED")} \cup
  CASE msg.cmdType = "CREATE_TASK" -> createTask(listed, running)
    [] msg.cmdType = "START_TASK" -> startTask(listed, running, msg.taskId)
    [] msg.cmdType = "STOP_TASK" -> stopTask(listed, running, msg.taskId)
    [] msg.cmdType = "DELETE_TASK" -> deleteTask(listed, running, msg.taskId)
    [] msg.cmdType = "GET_TASK" -> getTask(listed, running, msg.taskId)
    [] msg.cmdType = "GET_ALL_TASK" -> {Outcome(listed, running, "OK")}
    [] OTHER -> ioCommand(listed, running, msg.taskId)
=============================================================================
