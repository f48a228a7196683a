# Online scriptor: a TLA+ model and proofs

The program lets a user create scripts in a browser, start and stop them, repeat them
periodically and watch their output. It is two processes with two threads or more each,
a leveldb table, one child process per running script, and two socket pairs. This project
models what goes on between them.

## Inventory

| part | state | operations | talks to |
|---|---|---|---|
| command manager (`cmd_mgr.*`), thread 1 of the task manager process | tables of running tasks by pid and by task, map of timers by task, libevent timers | ten commands, timer callback, SIGCHLD callback | http server (command socket), IO manager (messages), database, kernel (fork, kill, waitpid) |
| task table (`task_db_helper.*`, `db_guard.*`, `task.*`) | list of ids, record by id | init, create, get, update, delete | leveldb |
| starting a script (`script_helper.*`) | three pipes per script | pipe, fork, close, dup2, exec | kernel |
| IO manager (`io_mgr.*`), thread 2 of the task manager process | table by descriptor, bufferevents, pending messages | add, remove, switch on, switch off, write to stdin; read and end of file | command manager (messages), scripts (pipes), websocket process (io socket) |
| http server (`http_mgr.*`), many threads | `sockMutex`, the command socket | one handler per command | pages, command manager |
| frames (`buffer_helper.*`, `util.*`, `cmd_msg.*`) | partly received frame | make, read one, fill | both ends of the sockets |
| websocket routing (`ws_conn_mgr.*`, `http_ws_mgr.cpp`), two threads | connection by task, task by connection, `handleLock` | open, close, send | pages, IO manager (io socket) |
| start-up and shutdown (`main.cpp`, `task_mgr.cpp`, the same in `test_task_mgr.cpp`) | socket pairs, where each process and thread is | fork, tie to the parent, database, threads, ready byte, key; close, wait, SIGINT | everything |
| pages (`frontend/`) | the task as last answered, `ws`, `redirecting` | poll, start, stop, delete, input; a websocket per run | http server, websocket routing |

What is hard here: timers that fire after the task was started by hand or deleted; exits
that are handled after the id has been given to another task; descriptors that one thread
closes and the other believes to be open while the kernel hands out the number again;
exceptions that end a process in a callback; writes that fail half way through a handler;
connections that are closed after their successor was opened; one socket shared by many
handlers and read in arbitrary pieces; processes that die while their child is not tied to
them yet; two event loops that end each by its own socket; pages whose calls are answered
in another order than they were sent. `PROJECT.json` lists each of these hazards at its
line, with the property that watches it.

What makes each part correct: the tables agree with the kernel, one script per task, the
stored status is the truth, periodic tasks go on (command manager); output and input reach
the right task, pipes are emptied and closed (IO manager); routes lead to the newest
connection of the right task (websocket); each request takes effect once and gets its own
answer (http server and frames); no script runs without a manager and no manager without
the main process (start-up; the converse is not the code's: when the manager dies main goes
on serving, and a handler spins in `readN`); a page comes to show what is the case (pages).

## Modules

| module | models | notes |
|---|---|---|
| `TaskDB` | the leveldb table | `born` is auxiliary: how often an id has been handed out |
| `CmdMgr` | the command thread and the kernel's view of its children, EXTENDS `TaskDB` | one action per handler; a handler is one step because all are callbacks of one event loop |
| `IOMgr` | descriptors, message queue and callbacks of the IO thread | no specification of its own |
| `TaskMgr` | the process: `CmdMgr` and `IOMgr` interleaved | each handler of the command thread opens pipes and posts its messages in the step it takes in `CmdMgr` |
| `WsConnMgr` | routing of output to pages | each handler is one step: it holds `handleLock` |
| `Commands` | what a command may do and answer, as the http process sees it | no state |
| `TaskService` | abstract: a call takes effect once, between arrival and answer | |
| `CmdChannel` | mutex, socket, frames, read callback | implements `TaskService` |
| `Lifecycle` | processes and threads from start-up to the end, and a start of a script from fork to exec, EXTENDS `CmdMgr` | a start is several steps of two processes here and one step in `CmdMgr`, which it implements |
| `Pages` | task pages and the browser's sockets, EXTENDS `WsConnMgr` | the tasks behind the calls are cut down to what a page sees of them |
| `CmdMgrProofs`, `TaskMgrProofs`, `TaskMgrIOProofs`, `LifecycleProofs`, `WsConnMgrProofs`, `PagesProofs`, `CmdChannelProofs` | theorems | |
| `MC...` | small instances | |

State and code. `pid2RunningTask` and `taskId2RunningTask` are the maps of
`RunningTaskHelper` (a missing entry is 0 or `NoPid`), `mFds` is the third component of
its entries; `taskId2Event` is the map of `ScheduledTaskHelper` and `timers` what libevent
knows of those events, also of those that the map has lost; `idSet` and `store` are the
keys of leveldb; `procs` is the kernel's process table (`alive`, `exited`, `killed`, and
gone once waited for). `fds` is the descriptor table of the process with what is at the
other end, `fd2IOData` is the map of `TaskIOFdHelper`, `ioQueue` the message events that
have not fired. In `Lifecycle`, `main`, `mgr` and `io` are the program counters of the http
process, of the command thread with its process, and of the IO thread; `readyByte` is the byte in the socket and
`child` the process between `fork` and `exec`, with what it has done so far and whether its
parent lives. In `Pages`, `page` holds the variables of `task.html`, `socket` the readyState
of each `WebSocket`, `calls` the fetches that are not answered or whose answer is not
handled, `task` what the server would answer, and `others` the connections of clients that
are no page; the browser's `onopen` and the server's `OnOpen` of a connection come in any
order, and a start may be refused also for a task that does not run (the fork may fail). `crash` says why the process ended. In `CmdChannel`, `toMgr` and `toHttp`
are the bytes in the two directions of the command socket, `buffer` is the
`BufferHelper` of the command thread and `got` what `readOne` has read.

`born` in a record and in a process, `task` in descriptors, `for` in bytes, `opened`,
`produced` and `overtaken` are auxiliary: no guard that comes from the code reads them. (`task` is read by
the actions of the environment, and in an `ADD_FD` message it is the message's own field.)

What `CmdMgr` takes from the code's conditions: `CanStart` (listed, has a record, not
running, known interpreter), `RunsAgain` (exit code 0, interval, runs left), `CannotReap`
(the lookups that throw). Failures are `Fault`: a write to the database fails, a fork or
pipe fails, `addFds` throws after the fork (the IO thread has no event base, in `Lifecycle`).
When descriptors run out in `TaskMgr`, a start leaves the pipes it has made (`Leaked`). In the command handler the exception is
caught and answered; in the SIGCHLD callback it ends the process. Death of the process is
`Die`; the scripts die with it (`PR_SET_PDEATHSIG`; `Lifecycle` shows why a script that is
just being started does, too); `Restart` is every start of the program and empties the list of ids and
keeps the records, as `TaskDBHelper::init` does.

Messages to the IO thread are timers of zero seconds. libevent stamps them with a coarse
clock, or with the time of the last turn of the loop, and its heap does not keep equal stamps
in order. So each message of `ioQueue` says whether it has the stamp of the one before it
(`tie`), which may be for any two posted one after the other, and any of the first messages
with equal stamps may be the next (`Ready`). `overtaken` remembers that a message has fired
before an earlier one about the same descriptor.

Operators whose comment begins with "Slip" are not part of any specification: each is a
definition of the model as a plausible mistake would have it, kept to make sure that the
property it belongs to would notice (see "mutants" in `PROJECT.json`).

## Runs

| run | instance | question |
|---|---|---|
| `CmdMgrSafety` | 2 ids, each handed out twice, 2 pids, 3 events, tasks that are periodic, single or of an unknown type, codes 0 and 1, 1 fault | the seven invariants of `CmdMgr` |
| `CmdMgrLive` | `Lifecycle` with 1 periodic id, handed out twice, 2 pids, 3 events, 1 fault | no manager without main, no script without a manager, the steps of `Lifecycle` are those of `CmdMgr`; a periodic task runs again, an ended script leaves the table |
| `TaskMgrSafety` | 2 ids, each started once, 2 pids, 7 descriptors, equal time stamps in any order, nothing posted while 3 messages are pending, a user's request while none is | attribution of output and input, the cause of a lookup that fails |
| `TaskMgrLive` | 1 periodic id, 1 pid, 7 descriptors, 1 fault, equal time stamps in any order, nothing posted while a message is pending | pipes are emptied and closed, the process implements `CmdMgr` |
| `WsSafety` | `Pages` with 1 tab, 2 tasks, 2 connections, all of the page or all of other clients, 1 run, 2 calls on their way, 1 output with pages and 2 with other clients | routing; pages come to show the state of their task |
| `CmdChannel` | 2 handlers, 1 task id, frames of 4 + 2 bytes | framing (also that the closed form of `tryFullFill` is what its loop computes byte by byte, `FillsAsTheLoop`), mutual exclusion, implementation of `TaskService`, answers |

The bounds (`MaxId`, `MaxBorn`, `MaxRuns`, `MaxFaults`, `MaxFd`, `MaxData`, `MaxPending`,
`MaxAsked`, `MaxMsgs`, `MaxTask`, `BodyLen`, `MaxStarts`, `MaxCalls`, `MaxPageMsgs` are constants of the modules). Two ids, each given out twice, are the fewest for a reused id next to another
task, and for "the numbers of other tasks". Two pids are enough because a third live
script only matters if two of them belong to one task, which two pids show already. Three
events: two that the map has lost or overwritten and one it holds; the start of a task by
hand waits when events could run out (`EventsLeft`), so that no exit is blocked by the
bound. `MaxRuns` is 2 because the first run of a chain that is not the last one and the
last one are then both there. One fault shows what each failure leaves behind; two
failures in sequence are covered by the theorems, which hold for every bound. Six
descriptors make one start, and the kernel hands out the lowest free numbers; with seven the
second start fits only after the first run has given both its output ends back, and then it
reuses their numbers (its stdin pipe gets that of the first stdout), and else it fails half
way. A start or a reap posts its three messages together, and may do so while two are
pending, so five messages of two runs are on their way at most; the theorems about the IO thread hold for
every length of the queue. In
`CmdMgrLive` a fault is a failing write or fork, or a start without an event base; deaths
are not counted, so that the whole start-up and shutdown is gone through with every death at every
step, and again after a restart. In `WsSafety` two connections are an old one and its
successor; one run already gives an answer served before the start and handled after it
(with two runs and no output the same properties hold, in 351,629 states, which takes too
long to be kept beside the others). The outputs of an instance with pages are sent as in one
with other clients (`PagesImplement`), so order is a question for the latter, which has two. Either all connections are those of other clients, who
do what they like, or all are the page's; a mixture adds nothing to the maps, for which
the theorems hold with any number. Frames of 4 + 2 bytes can be cut inside the
length, between length and body, and inside the body; with `sockMutex` only one
frame is on its way at a time, which is an invariant (`SocketQuiet`), not an assumption.

Deadlock is checked except in `WsSafety` and `OpenPageIsServed`, where the connections of
the instance are used up in the end, and in `CmdChannel`, where the program really stops: after the
death of the task manager a handler spins on the end of the file with the mutex held.

Runs that are expected to fail, each a disagreement between the repository's text and its
code (quoted under "findings" in `PROJECT.json`):

* `ScheduledStartWithinMaxTimes`: a timer starts a task once more than `maxTimes`, after a
  start by hand has used the last run.
* `ExitRecordedOnOwnTask`: the exit of a deleted task's script is recorded on the new task
  with the same id.
* `RequestFindsFd`: a switch that is posted right after a start fires before the `ADD_FD`
  it needs, since their time stamps are equal; the lookup throws and the task manager ends.
  Every request of the model may be the victim, a removal too; the run needs one start and
  one switch, as test_task_mgr.cpp:142-145 sends them.
* `RemovedFdHasNoBufferevent`: the comment in `REMOVE_FD` is wrong when a process the
  script has left behind holds the pipe; the next output ends the task manager.
* `FailedWriteIsLogged`: input for a script that has just ended kills the task manager
  (SIGPIPE) instead of being logged.
* `OpenPageIsServed`: the close of a page's old connection removes the route of its new
  one, so that a page that starts its task again, or is reloaded, may show nothing. The run
  has one page and nobody else.
  (The repository promises correctness for one user at a time, README.MD:13; one tab is enough.)

## Fairness

`Lifecycle!LFairSpec`: weak fairness of the steps each process takes by itself once it can
(start-up, the callbacks of both loops, among them SIGCHLD and timers, the join, `wait`,
the `exit` of the signal handler, and the child between fork and exec). A timer or a SIGCHLD stays ready until the loop serves it, and the loop
cannot be kept from it for good because the wait for the child's byte ends. Nothing is assumed of
deaths, signals or the key that main waits for, so `NothingSurvives` and
`ShutdownCompletes` say what happens once the end has begun. `PeriodicRunsAgain` and
`EndedTaskStartable` are stated with the end of the process as a way out.
`Pages!PFairSpec`: calls are served and answered, the interval goes on polling, a socket
that is being closed is closed in the end, on both sides. `TaskMgr!TFairSpec`: weak fairness of the oldest message
(the clock goes on, so no later message can share its stamp for ever), of reads
and of ends of file of the IO thread; none for the command thread, which the properties of
`TaskMgrLive` do not need. `CmdChannel!FairSpec`: a handler that holds the mutex goes on,
and the command thread reads what is there. No fairness of users, of scripts (they may run
for ever), of restarts, or of a handler that waits for the mutex: `std::mutex` does not
promise it, so no property says that each waiting handler is served.

## Proofs

* `CmdMgrProofs`: type correctness, then the inductive invariant
  `IndInv == CoreInv /\ MappedEventPending /\ PeriodicTaskArmed`. `CoreInv` is what a step
  that leaves the events alone has to keep: types, the table, the status, live scripts,
  and three facts no run asks for but the others need. `DownIsEmpty`: a process that is
  down has no children and no mapped events, so that `Restart` cannot bring an old script
  back. `BornBounded`: no child and no record was made for a future holder of an id, so
  that handing an id out again makes every old record and child foreign to it; without
  it `CreateTask` would break `StatusTruthful` and `LiveScriptHasTask`. `RanIsRunnable`: a
  record that counts a run has a known interpreter, so that the timer of such a task
  starts it; without it a timer could be used up on a task that is still due, which would
  break `PeriodicTaskArmed`. `OneProcessPerTask` follows from the table being injective.
  All seven invariants of the run are theorems, for every number of ids, pids, events,
  runs and faults.
* `TaskMgrProofs`: every step of the process is a step of `CmdMgr` or leaves its variables
  alone (`StepSimulation`, one case per action), so `TSpec` implements `CmdMgr!Spec` and
  inherits its invariants.
* `TaskMgrIOProofs`: the IO thread's side of the process, with messages in every order that
  equal stamps allow. The inductive invariant is
  `IOInv == TTypeOK /\ CrashEnds /\ NumbersInv /\ OrderInv`, which rests on the
  types and the table of `CmdMgr`. `NumbersInv` says who believes what of a descriptor
  number: a running task's three numbers are different and its stdin number is still the open
  pipe of its script; a number whose `ADD_FD` is on its way is still the pipe it was, has no
  bufferevent yet and no second `ADD_FD`; input is addressed to the stdin pipe of its own task.
  `OutputAttributed` and `InputReachesOwnTask` follow from it, in whatever order messages
  fire. `OrderInv` says what the queue promises as long as no message has fired before an
  earlier one about its descriptor (`~overtaken`, a fact about the past and no assumption):
  a request finds its entry, in the table or added
  by a message in front of it and not removed in between, and the numbers of a running task
  are there once the queue is through. Messages about other descriptors may overtake each other
  freely: the lemma `FindsSooner` removes any message from the queue, not only the first.
  So a lookup fails only if `overtaken` holds (`MissesExplained`). `CrashEnds` (after a
  crash nothing is up, queued or running) keeps the blame from being lost: `overtaken` never
  changes between a crash and the restart. The
  actions are first reduced to a few kinds of step (`IOStepKind`: pipes opened or leaked,
  messages posted, a message handled, a descriptor read, closed or passed on, the end), and
  types, numbers and order are kept kind by kind. That a start gets six different numbers
  that exist, `Free(1)` to `Free(6)`, is a theorem about counting free numbers upwards
  (`FreeUpToNext`, with a least number in the place of an induction).
* `CmdChannelProofs`: `SocketInv` says that only the holder of the mutex has bytes on their
  way, and that what the command thread has half received, put before what is in the socket,
  is its request, or that what it has read, put before what comes, is its answer. Types
  (`ChannelTypeOK`: the buffer never holds a whole frame), `NeverGarbled`, `ReadsOwnAnswer`
  and `SocketQuiet` follow for any number of handlers, any body length and any cut of the
  bytes, and every step is one of `TaskService` or changes nothing there
  (`ChannelImplements`): the one that completes the frame is where the call takes effect.
  `FillsCorrect` proves the closed form of `tryFullFill`, which the model uses, against its
  loop (`FillLoop`, a recursive function): one turn takes the closed form of some bytes to
  that of one byte more (`LoopTurn`), so the closed form has the equation of the recursive
  function, which therefore exists (`LoopRuns`); and a first turn after which another
  solution differed would contradict that equation (`RunsAgree`, a least counterexample in
  the place of an induction).
* `LifecycleProofs`: types (`LTypeOK`); a child that has told its byte has a living manager
  (`StartedUnderManager`), since only a manager that lives reads the byte, a manager that
  ends takes a tied child with it, and a child is tied before it tells. It needs that
  `NoChild` is neither tied nor told. Then every step of `Lifecycle` is a step of `CmdMgr`
  or leaves its variables alone (`StepSimulation`): `FinishStart` is the start, the deaths
  of either process are `Die`, so the invariants of `CmdMgr` hold whenever processes die
  (`LifecycleCorrect`).
* `WsConnMgrProofs`: `RouteInv` (the maps, the order of openings, and that a mapped
  connection is alive) and `DataInv` (outputs on their way are newer than those shown).
* `PagesProofs`: types, with `SocketHasTab` and `Presence` (calls and live connections
  have their page, which a late `onopen` needs); pages are clients as `WsConnMgr` allows
  (`PagesImplement`), so routing is correct with them.

The assumptions used are those named in the modules (`DBAssumption`, `CmdAssumption`,
`IOAssumption`, `TaskMgrAssumption`, `WsAssumption`, `PagesAssumption`, `CommandsAssumption`,
`ChannelAssumption`).

Only model-checked: all liveness (outside the prover's reach): `NothingSurvives`,
`ShutdownCompletes`, `PeriodicRunsAgain`, `EndedTaskStartable`, `PipeDrained`,
`OutputEndReleased`, `PageConverges`, `IndicatorGoesOut`, `HolderIsAnswered`.
Every other property of a passing run is a theorem, none of them under a condition on time
stamps. What equal stamps break is the run `RequestFindsFd`; what they cannot break is
`InputReachesOwnTask`, `OutputAttributed` and `MissesOnlyOvertaken`.

## Plan

1. Done: `TaskDB`, `CmdMgr`, `IOMgr`, `TaskMgr`, `Lifecycle`, `WsConnMgr`, `Pages`,
   `Commands`, `CmdChannel` with their runs.
2. Done, proofs: the safety properties of all runs, and the three refinements
   (`TaskMgr` and `Lifecycle` of `CmdMgr`, `CmdChannel` of `TaskService`).
3. Done: equal time stamps of messages in every run and proof of `TaskMgr`.
4. Models that remain: a child whose `exec` or `dup2` fails goes on as a copy of the
   command manager on the same command socket, answers the same command a second time and
   so shifts every later answer by one; this needs a second command thread in
   `CmdChannel`. That `CmdMgr` implements the outcomes of `Commands`.

## Not modelled

Titles, script text, time stamps and contents of outputs; the message handler of the
websocket server, which ignores what it gets; http parsing and static files;
`CmdMgr::stop` and `IOMgr::stop` (no code sends or calls them); what a child that fails between `fork` and `exec` does as a
copy of the command manager on the shared sockets. When the child closes its own ends of the
pipes, in the belief that their numbers are other tasks', the parent does not know: it goes
on with a script that runs, and with pipes whose other end nobody holds, which is what the
model has (`ChildFds`, `OpenPipes`; that the parent may wait for such a child's byte for
ever makes fewer behaviours, not more).
That a stopped periodic task is armed again because `WEXITSTATUS` of a killed process is 0 is in the
model as in the code; no property forbids it. A frame that cannot be parsed ends the
thread that reads the io socket, since the catch of http_ws_mgr.cpp:27-31 is outside its loop;
the task manager sends well-formed frames only, so that is left out, and sends that throw
are caught in `sendMsgToTask`. In `Lifecycle` a `wait` that returns early (there is one child only) and a
main that is interrupted inside its signal handler. In `Pages` the deletion of a task while
its page is open (the answers change nothing on the page), failing fetches (they change
nothing either), the texts, and the list page, which shows the last answer.

Two properties one might expect of the pages are not those of the code. That a page which
shows a running task also shows its output: a run that a timer has started opens no
connection (task.html:118 has it as a TODO), and a `getTask` that was served before a start
closes the connection of that start when its answer comes late. That `redirecting` is right
while a task runs: the `onclose` of an old connection may come after the `enableRedirect`
of the new one.

The fixed commands of the interactive test driver (its start and end are in `Lifecycle`); the
experiments under `feasibility/`, which are programs of their own; the mock page under
`misc/`. The driver expects OK for stopping the task it has just deleted
(test_task_mgr.cpp:208), which `stopTask` answers with `NO_SUCH_TASK`.
