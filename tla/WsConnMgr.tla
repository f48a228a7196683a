----------------------------- MODULE WsConnMgr -----------------------------
(***************************************************************************)
(* The websocket side of the http/websocket process (ws_conn_mgr.cpp) and  *)
(* the thread that hands it the output of the scripts (http_ws_mgr.cpp,    *)
(* startWsIODataThread).                                                   *)
(*                                                                         *)
(* A page of task.html opens a connection for one task.  The open and close*)
(* handlers run on the thread of the websocket server, sendMsgToTask on the*)
(* thread that reads ioSock; each holds handleLock for all it does, so each*)
(* is one step.  Pages connect, reload (a second connection of the same    *)
(* task, before or after the first one is closed) and vanish as they like. *)
(* The other end of ioSock is the IO thread of the task manager (IOMgr).   *)
(***************************************************************************)
EXTENDS Integers, Sequences

CONSTANTS
  Tasks,     \* ids of the tasks that produce output
  NoTask,    \* no task; also the id of a request path without a valid taskId
  Hdls,      \* connections: a handle names one connection for ever
  NoHdl,     \* no connection
  MaxMsgs    \* bound: outputs of a task

ASSUME WsAssumption ==
  /\ NoTask \notin Tasks
  /\ NoHdl \notin Hdls
  /\ MaxMsgs \in Nat

VARIABLES
  taskId2Handle,   \* the connection a task's output is sent to
  handle2TaskId,   \* the task of a connection
  conn,            \* the server's view of a connection, and the task it asked for
  opened,          \* auxiliary: the connections in the order they were opened
  ioSock,          \* the outputs on their way, oldest first
  produced,        \* auxiliary: how many outputs each task has produced
  shown            \* the outputs each page has been sent

mapVars == <<taskId2Handle, handle2TaskId>>
dataVars == <<ioSock, produced, shown>>
vars == <<mapVars, conn, opened, dataVars>>

Output == [task : Tasks, n : Nat]

WsTypeOK ==
  /\ taskId2Handle \in [Tasks -> Hdls \cup {NoHdl}]
  /\ handle2TaskId \in [Hdls -> Tasks \cup {NoTask}]
  /\ conn \in [Hdls -> [state : {"new", "open", "closing", "closed"},
                        task : Tasks \cup {NoTask}]]
  /\ opened \in Seq(Hdls)
  /\ ioSock \in Seq(Output)
  /\ produced \in [Tasks -> Nat]
  /\ shown \in [Hdls -> Seq(Output)]

Init ==
  /\ taskId2Handle = [t \in Tasks |-> NoHdl]
  /\ handle2TaskId = [h \in Hdls |-> NoTask]
  /\ conn = [h \in Hdls |-> [state |-> "new", task |-> NoTask]]
  /\ opened = <<>>
  /\ ioSock = <<>>
  /\ produced = [t \in Tasks |-> 0]
  /\ shown = [h \in Hdls |-> <<>>]

-----------------------------------------------------------------------------
(* The two maps, under handleLock *)

\* Slip: an earlier connection of the task keeps the output (map::emplace).
addHandleUnlessThere(t, h) ==
  /\ taskId2Handle' = IF taskId2Handle[t] = NoHdl
                      THEN [taskId2Handle EXCEPT ![t] = h] ELSE taskId2Handle
  /\ handle2TaskId' = [handle2TaskId EXCEPT ![h] = t]

\* The new connection takes over the output of the task.
addHandle(t, h) ==
  /\ taskId2Handle' = [taskId2Handle EXCEPT ![t] = h]
  /\ handle2TaskId' = [handle2TaskId EXCEPT ![h] = t]

\* Slip: only the map by connection is cleaned.
removeFromOneMap(h) ==
  /\ handle2TaskId' = [handle2TaskId EXCEPT ![h] = NoTask]
  /\ UNCHANGED taskId2Handle

\* Slip: no check that the connection has an entry.
removeUnchecked(h) ==
  /\ taskId2Handle' = [t \in Tasks \cup {handle2TaskId[h]} |->
                         IF t = handle2TaskId[h] THEN NoHdl ELSE taskId2Handle[t]]
  /\ handle2TaskId' = [handle2TaskId EXCEPT ![h] = NoTask]

\* Both entries go, whichever connection the task's output is sent to by now.
removeHandle(h) ==
  IF handle2TaskId[h] # NoTask
  THEN /\ taskId2Handle' = [taskId2Handle EXCEPT ![handle2TaskId[h]] = NoHdl]
       /\ handle2TaskId' = [handle2TaskId EXCEPT ![h] = NoTask]
  ELSE UNCHANGED mapVars

\* Slip: an output is sent to every page of the server.
sendMsgToAll(m) ==
  shown' = [h \in Hdls |-> IF conn[h].state = "open" THEN Append(shown[h], m) ELSE shown[h]]

\* server.send throws for a connection that is not open (any more): the output is
\* lost.
sendMsgToTask(m) ==
  LET h == taskId2Handle[m.task] IN
    IF h # NoHdl /\ conn[h].state = "open"
    THEN shown' = [shown EXCEPT ![h] = Append(@, m)]
    ELSE UNCHANGED shown

-----------------------------------------------------------------------------
(* The thread of the websocket server *)

SetConn(h, state, t) == conn' = [conn EXCEPT ![h] = [state |-> state, task |-> t]]

\* The open handler, for the task named in the request path; without one the
\* server starts to close the connection.
OnOpen(h, t) ==
  /\ conn[h].state = "new"
  /\ IF t = NoTask
     THEN SetConn(h, "closing", t) /\ UNCHANGED <<mapVars, opened>>
     ELSE SetConn(h, "open", t) /\ addHandle(t, h) /\ opened' = Append(opened, h)
  /\ UNCHANGED dataVars

\* The page closes its connection or is gone: from now on nothing is sent.
Disconnect(h) ==
  /\ conn[h].state = "open"
  /\ SetConn(h, "closing", conn[h].task)
  /\ UNCHANGED <<mapVars, opened, dataVars>>

\* The close handler.
OnClose(h) ==
  /\ conn[h].state = "closing"
  /\ removeHandle(h)
  /\ SetConn(h, "closed", conn[h].task)
  /\ UNCHANGED <<opened, dataVars>>

-----------------------------------------------------------------------------
(* The thread that reads ioSock, and what it reads *)

\* The other end: the IO thread of the task manager sends an output of t (fdReadDelegate).
IOData(t) ==
  /\ produced[t] < MaxMsgs
  /\ produced' = [produced EXCEPT ![t] = @ + 1]
  /\ ioSock' = Append(ioSock, [task |-> t, n |-> produced[t] + 1])
  /\ UNCHANGED <<mapVars, conn, opened, shown>>

WsIODataThread ==
  /\ ioSock # <<>>
  /\ sendMsgToTask(Head(ioSock))
  /\ ioSock' = Tail(ioSock)
  /\ UNCHANGED <<mapVars, conn, opened, produced>>

Next ==
  \/ \E h \in Hdls, t \in Tasks \cup {NoTask} : OnOpen(h, t)
  \/ \E h \in Hdls : Disconnect(h)
  \/ \E h \in Hdls : OnClose(h)
  \/ \E t \in Tasks : IOData(t)
  \/ WsIODataThread

Spec == Init /\ [][Next]_vars

-----------------------------------------------------------------------------
(* What must hold *)

\* A route leads to a connection the other map has under that very task: closing
\* the connection takes the route away, and no task's output can go to another
\* task's page.
RoutingConsistent ==
  \A t \in Tasks : taskId2Handle[t] # NoHdl => handle2TaskId[taskId2Handle[t]] = t

\* A connection that has been closed is in neither map, whatever other connections
\* of its task came and went: the maps do not grow with every reload of a page, and
\* nothing is sent to a connection that the server has released.
ClosedIsUnrouted ==
  \A h \in Hdls : conn[h].state = "closed" =>
    /\ handle2TaskId[h] = NoTask
    /\ \A t \in Tasks : taskId2Handle[t] # h

OpenedBefore(g, h) ==
  \E i, j \in DOMAIN opened : i < j /\ opened[i] = g /\ opened[j] = h

\* If a task's output is sent anywhere, it is sent to the page opened last.
RouteIsNewest ==
  \A t \in Tasks, h \in Hdls :
    taskId2Handle[t] # NoHdl /\ conn[h].task = t => ~OpenedBefore(taskId2Handle[t], h)

\* A page is shown output of its own task only, in the order it was produced, and
\* no output appears on two pages.
OwnOutputInOrder ==
  /\ \A h \in Hdls : \A i \in DOMAIN shown[h] :
       /\ shown[h][i].task = conn[h].task
       /\ \A j \in 1 .. i - 1 : shown[h][j].n < shown[h][i].n
  /\ \A g, h \in Hdls : g # h =>
       \A i \in DOMAIN shown[g], j \in DOMAIN shown[h] : shown[g][i] # shown[h][j]

(* What the repository says and the code does not do *)

\* Design.MD, "view a task": the output of a task is sent to the front end over the
\* websocket.  So a page that is connected for a task receives its output, or
\* another page of the task does.
OpenPageIsServed ==
  \A h \in Hdls : conn[h].state = "open" => taskId2Handle[conn[h].task] # NoHdl
=============================================================================
