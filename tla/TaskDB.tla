------------------------------- MODULE TaskDB -------------------------------
(***************************************************************************)
(* The task table the task manager keeps in leveldb (task_db_helper.cpp,   *)
(* db_guard.cpp): one key holds the list of task ids, one key per id holds *)
(* the task record.  Deleting a task only takes its id off the list, so a  *)
(* record outlives its task and is found again when the id is handed out a *)
(* second time.                                                            *)
(*                                                                         *)
(* Only the command thread opens the database, one operation at a time, so *)
(* an operation is one step; what a step can leave half done is a failed   *)
(* Put between two writes (CreateTaskTorn).                                *)
(***************************************************************************)
EXTENDS Integers, FiniteSets, FiniteSetsExt

CONSTANTS
  MaxId,        \* ids handed out are 1 .. MaxId (bounds the model)
  Pids,         \* process ids the kernel can give a script
  NoPid,        \* "no process": the code stores 0 at creation, -1 after an exit
  Configs,      \* what a user can ask for: [interval, maxTimes, scriptType]
  ExitCodes     \* WEXITSTATUS values

Ids == 1 .. MaxId

\* The two interpreters startTask knows; a task of any other type is accepted
\* by createTask and refused by startTask.
Interpreters == {"PYTHON", "BASH"}

ASSUME DBAssumption ==
  /\ MaxId \in Nat
  /\ NoPid \notin Pids
  /\ Configs \subseteq [interval : Int, maxTimes : Int, scriptType : STRING]
  /\ 0 \in ExitCodes
  /\ ExitCodes \subseteq 0 .. 255

VARIABLES
  idSet,    \* DB_KEY_TASK_ID_SET: the ids of the listed tasks
  store,    \* the record under each id's key
  born      \* auxiliary: how often each id has been handed out

dbVars == <<idSet, store, born>>

\* A key that was never written: readDB throws.
NoRecord == [status |-> "NONE"]

\* A task record.  born is auxiliary: which holder of the id it describes.
Task == [conf : Configs, status : {"IDLE", "RUNNING"}, pid : Pids \cup {NoPid},
         timesExecuted : Nat, exitCode : ExitCodes, born : Nat]

TaskDBTypeOK ==
  /\ idSet \in SUBSET Ids
  /\ store \in [Ids -> Task \cup {NoRecord}]
  /\ born \in [Ids -> Nat]

-----------------------------------------------------------------------------

\* A database that has never been used.
TaskDBInit ==
  /\ idSet = {}
  /\ store = [t \in Ids |-> NoRecord]
  /\ born = [t \in Ids |-> 0]

\* TaskDBHelper::init, at every start of the program: the list is overwritten
\* with "[]", the records stay.
TaskDBOpen ==
  /\ idSet' = {}
  /\ UNCHANGED <<store, born>>

hasTask(t) == t \in idSet

\* getTask finds a record to parse (it throws otherwise).
CanGet(t) == hasTask(t) /\ store[t] # NoRecord

\* The id of the next task: one more than the largest listed id.
NextId == Max(idSet \cup {0}) + 1

NewTask(c, n) ==
  [conf |-> c, status |-> "IDLE", pid |-> NoPid, timesExecuted |-> 0,
   exitCode |-> 0, born |-> n]

ListNewId ==
  /\ NextId \in Ids
  /\ idSet' = idSet \cup {NextId}
  /\ born' = [born EXCEPT ![NextId] = @ + 1]

\* createTask: both Puts succeed.
DBCreateTask(c) ==
  /\ ListNewId
  /\ store' = [store EXCEPT ![NextId] = NewTask(c, born[NextId] + 1)]

\* createTask: the id is listed, then the Put of the record throws.
DBCreateTaskTorn ==
  /\ ListNewId
  /\ UNCHANGED store

DBDeleteTask(t) ==
  /\ hasTask(t)
  /\ idSet' = idSet \ {t}
  /\ UNCHANGED <<store, born>>

DBUpdateTask(t, newTask) ==
  /\ hasTask(t)
  /\ store' = [store EXCEPT ![t] = newTask]
  /\ UNCHANGED <<idSet, born>>
=============================================================================
