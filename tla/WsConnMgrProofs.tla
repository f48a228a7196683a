-------------------------- MODULE WsConnMgrProofs --------------------------
(***************************************************************************)
(* Proofs about WsConnMgr for any set of tasks and connections.            *)
(***************************************************************************)
EXTENDS WsConnMgr, TLAPS

USE WsAssumption

(* The inductive invariant.  The properties say nothing of the outputs on their *)
(* way or of what a connection may be that is in a map; the steps need both.    *)

\* A connection in the map is open, or closing and not yet cleaned up, and the
\* map knows the task it asked for.
MappedIsAlive ==
  \A h \in Hdls : handle2TaskId[h] # NoTask =>
    conn[h].state \in {"open", "closing"} /\ conn[h].task = handle2TaskId[h]

\* A new connection has not been opened and has been shown nothing.
NewIsBlank ==
  /\ \A i \in DOMAIN opened : conn[opened[i]].state # "new"
  /\ \A h \in Hdls : conn[h].state = "new" => shown[h] = <<>>

\* Outputs are numbered in the order they are on their way, and what is on its way
\* is newer than what has been shown.
QueueInOrder ==
  /\ \A j \in DOMAIN ioSock : ioSock[j].n <= produced[ioSock[j].task]
  /\ \A j \in DOMAIN ioSock : \A i \in 1 .. j - 1 :
       ioSock[i].task = ioSock[j].task => ioSock[i].n < ioSock[j].n
  /\ \A h \in Hdls : \A i \in DOMAIN shown[h] :
       /\ shown[h][i].n <= produced[shown[h][i].task]
       /\ \A j \in DOMAIN ioSock :
            shown[h][i].task = ioSock[j].task => shown[h][i].n < ioSock[j].n

RouteInv == WsTypeOK /\ RoutingConsistent /\ MappedIsAlive /\ NewIsBlank /\ RouteIsNewest

DataInv == QueueInOrder /\ OwnOutputInOrder

\* The invariant holds at the start.
LEMMA InitInv == Init => RouteInv /\ DataInv
<1> SUFFICES ASSUME Init PROVE RouteInv /\ DataInv
  OBVIOUS
<1>1. WsTypeOK /\ RoutingConsistent /\ MappedIsAlive /\ NewIsBlank
  BY DEF Init, WsTypeOK, RoutingConsistent, MappedIsAlive, NewIsBlank
<1>2. RouteIsNewest
  BY DEF Init, RouteIsNewest
<1>3. DataInv
  BY DEF Init, DataInv, QueueInOrder, OwnOutputInOrder
<1> QED BY <1>1, <1>2, <1>3 DEF RouteInv

(* The steps of the routes. *)

\* An opened connection: the new route is the newest.
LEMMA OpenRoute ==
  ASSUME RouteInv, NEW h \in Hdls, NEW t \in Tasks \cup {NoTask}, OnOpen(h, t)
  PROVE  RouteInv'
<1> USE DEF RouteInv
<1>1. WsTypeOK'
  <2> DEFINE Conn == [state : {"new", "open", "closing", "closed"}, task : Tasks \cup {NoTask}]
  <2>1. conn' \in [Hdls -> Conn]
    <3>1. \E c \in Conn : conn' = [conn EXCEPT ![h] = c]
      <4>1. CASE t = NoTask
        BY <4>1, [state |-> "closing", task |-> t] \in Conn DEF OnOpen, SetConn
      <4>2. CASE t # NoTask
        BY <4>2, [state |-> "open", task |-> t] \in Conn DEF OnOpen, SetConn
      <4> QED BY <4>1, <4>2
    <3>2. conn \in [Hdls -> Conn]
      BY DEF WsTypeOK
    <3> HIDE DEF Conn
    <3> QED BY <3>1, <3>2
  <2>2. UNCHANGED <<ioSock, produced, shown>>
    BY DEF OnOpen, dataVars
  <2>3. CASE t = NoTask
    <3>1. UNCHANGED <<taskId2Handle, handle2TaskId, opened>>
      BY <2>3 DEF OnOpen, mapVars
    <3> QED BY <2>1, <2>2, <3>1 DEF WsTypeOK
  <2>4. CASE t # NoTask
    <3>0. opened' = Append(opened, h) /\ addHandle(t, h)
      BY <2>4 DEF OnOpen
    <3>1. opened' \in Seq(Hdls)
      BY <3>0 DEF WsTypeOK
    <3>2. /\ taskId2Handle' \in [Tasks -> Hdls \cup {NoHdl}]
          /\ handle2TaskId' \in [Hdls -> Tasks \cup {NoTask}]
      BY <2>4, <3>0 DEF WsTypeOK, addHandle
    <3> QED BY <2>1, <2>2, <3>1, <3>2 DEF WsTypeOK
  <2> QED BY <2>3, <2>4
<1>2. /\ conn[h].state = "new"
      /\ conn'[h].task = t /\ conn'[h].state # "new"
      /\ \A x \in Hdls : x # h => conn'[x] = conn[x]
      /\ conn'[h].state \in {"open", "closing"}
      /\ shown' = shown
  BY DEF WsTypeOK, OnOpen, SetConn, dataVars
<1>3. handle2TaskId[h] = NoTask /\ \A x \in Tasks : taskId2Handle[x] # h
  BY <1>2 DEF MappedIsAlive, RoutingConsistent
<1>4. \A i \in DOMAIN opened : opened[i] \in Hdls /\ opened[i] # h
  BY <1>2 DEF NewIsBlank, WsTypeOK
<1>5. CASE t = NoTask
  <2>1. UNCHANGED <<mapVars, opened>>
    BY <1>5 DEF OnOpen
  <2>2. RoutingConsistent'
    BY <2>1 DEF RoutingConsistent, mapVars
  <2>3. MappedIsAlive'
    BY <2>1, <1>2, <1>3 DEF MappedIsAlive, mapVars
  <2>4. NewIsBlank'
    <3>1. \A i \in DOMAIN opened : conn'[opened[i]].state # "new"
      BY <1>2, <1>4 DEF NewIsBlank
    <3>2. \A x \in Hdls : conn'[x].state = "new" => shown'[x] = <<>>
      BY <1>2 DEF NewIsBlank
    <3> QED BY <2>1, <3>1, <3>2 DEF NewIsBlank
  <2>5. RouteIsNewest'
    BY <2>1, <1>2, <1>4, <1>5 DEF RouteIsNewest, OpenedBefore, mapVars, WsTypeOK
  <2> QED BY <1>1, <2>2, <2>3, <2>4, <2>5
<1>6. CASE t # NoTask
  <2>1. /\ taskId2Handle' = [taskId2Handle EXCEPT ![t] = h]
        /\ handle2TaskId' = [handle2TaskId EXCEPT ![h] = t]
        /\ opened' = Append(opened, h)
    BY <1>6 DEF OnOpen, addHandle
  <2>2. RoutingConsistent'
    BY <2>1, <1>3, <1>6 DEF RoutingConsistent, WsTypeOK
  <2>3. MappedIsAlive'
    BY <2>1, <1>2, <1>6 DEF MappedIsAlive, WsTypeOK
  <2>4. /\ DOMAIN opened' = 1 .. Len(opened) + 1
        /\ \A i \in DOMAIN opened : opened'[i] = opened[i]
        /\ opened'[Len(opened) + 1] = h
        /\ DOMAIN opened = 1 .. Len(opened) /\ Len(opened) \in Nat
    BY <2>1 DEF WsTypeOK
  <2>5. NewIsBlank'
    <3>1. \A i \in DOMAIN opened' : conn'[opened'[i]].state # "new"
      BY <2>4, <1>2, <1>4 DEF NewIsBlank
    <3>2. \A x \in Hdls : conn'[x].state = "new" => shown'[x] = <<>>
      BY <1>2 DEF NewIsBlank
    <3> QED BY <3>1, <3>2 DEF NewIsBlank
  <2>6. RouteIsNewest'
    <3> SUFFICES ASSUME NEW u \in Tasks, NEW x \in Hdls,
                        taskId2Handle'[u] # NoHdl, conn'[x].task = u,
                        NEW i \in DOMAIN opened', NEW j \in DOMAIN opened', i < j,
                        opened'[i] = taskId2Handle'[u], opened'[j] = x
                 PROVE  FALSE
      BY DEF RouteIsNewest, OpenedBefore
    <3>1. i \in DOMAIN opened
      BY <2>4
    <3>2. u # t /\ taskId2Handle'[u] = taskId2Handle[u]
      BY <3>1, <2>1, <2>4, <1>4 DEF WsTypeOK
    <3>3. x # h
      BY <3>2, <1>2
    <3>4. j \in DOMAIN opened
      BY <3>3, <2>4
    <3> QED BY <3>1, <3>2, <3>3, <3>4, <2>4, <1>2 DEF RouteIsNewest, OpenedBefore
  <2> QED BY <1>1, <2>2, <2>3, <2>5, <2>6
<1> QED BY <1>5, <1>6

\* A connection that closes takes a route away, its own or a newer one.
LEMMA CloseRoute ==
  ASSUME RouteInv, NEW h \in Hdls, OnClose(h)
  PROVE  RouteInv'
<1> USE DEF RouteInv
<1>1. WsTypeOK'
  BY DEF WsTypeOK, OnClose, SetConn, removeHandle, mapVars, dataVars
<1>2. /\ conn' = [conn EXCEPT ![h] = [state |-> "closed", task |-> conn[h].task]]
      /\ conn[h].state = "closing"
      /\ UNCHANGED <<opened, shown>>
  BY DEF OnClose, SetConn, dataVars
<1>3. \A x \in Hdls : conn'[x].task = conn[x].task /\ (x # h => conn'[x] = conn[x])
  BY <1>2 DEF WsTypeOK
<1>4. /\ handle2TaskId'[h] = NoTask
      /\ \A x \in Hdls : x # h => handle2TaskId'[x] = handle2TaskId[x]
  BY DEF OnClose, removeHandle, mapVars, WsTypeOK
<1>5. \A t \in Tasks : taskId2Handle'[t] # NoHdl =>
        taskId2Handle'[t] = taskId2Handle[t] /\ taskId2Handle[t] # h
  BY DEF OnClose, removeHandle, mapVars, WsTypeOK, RoutingConsistent
<1>6. RoutingConsistent'
  BY <1>4, <1>5 DEF RoutingConsistent, WsTypeOK
<1>7. MappedIsAlive'
  BY <1>3, <1>4 DEF MappedIsAlive
<1>8. NewIsBlank'
  BY <1>2, <1>3 DEF NewIsBlank, WsTypeOK
<1>9. RouteIsNewest'
  BY <1>2, <1>3, <1>5 DEF RouteIsNewest, OpenedBefore, WsTypeOK
<1> QED BY <1>1, <1>6, <1>7, <1>8, <1>9

\* The other steps leave the maps and the order of openings alone.
LEMMA DisconnectRoute ==
  ASSUME RouteInv, NEW h \in Hdls, Disconnect(h)
  PROVE  RouteInv'
<1> USE DEF RouteInv
<1>1. WsTypeOK'
  BY DEF WsTypeOK, Disconnect, SetConn, mapVars, dataVars
<1>2. /\ \A x \in Hdls : conn'[x].task = conn[x].task /\ (x # h => conn'[x] = conn[x])
      /\ conn[h].state = "open" /\ conn'[h].state = "closing"
      /\ UNCHANGED <<taskId2Handle, handle2TaskId, opened, shown>>
  BY DEF WsTypeOK, Disconnect, SetConn, mapVars, dataVars
<1>3. RoutingConsistent' /\ MappedIsAlive' /\ NewIsBlank'
  <2>1. RoutingConsistent' /\ MappedIsAlive'
    BY <1>2 DEF RoutingConsistent, MappedIsAlive
  <2>2. \A i \in DOMAIN opened : opened[i] \in Hdls
    BY DEF WsTypeOK
  <2>3. NewIsBlank'
    BY <1>2, <2>2 DEF NewIsBlank
  <2> QED BY <2>1, <2>3
<1>4. RouteIsNewest'
  BY <1>2 DEF RouteIsNewest, OpenedBefore
<1> QED BY <1>1, <1>3, <1>4

\* A new output leaves the maps alone.
LEMMA ProduceRoute ==
  ASSUME RouteInv, NEW t \in Tasks, IOData(t)
  PROVE  RouteInv'
<1> USE DEF RouteInv
<1>1. [task |-> t, n |-> produced[t] + 1] \in Output
  BY DEF WsTypeOK, Output
<1>2. WsTypeOK'
  <2>1. ioSock' \in Seq(Output)
    BY <1>1 DEF WsTypeOK, IOData
  <2>2. produced' \in [Tasks -> Nat]
    BY DEF WsTypeOK, IOData
  <2> QED BY <2>1, <2>2 DEF WsTypeOK, IOData, mapVars
<1>3. UNCHANGED <<taskId2Handle, handle2TaskId, conn, opened, shown>>
  BY DEF IOData, mapVars
<1>4. RoutingConsistent' /\ MappedIsAlive' /\ NewIsBlank' /\ RouteIsNewest'
  BY <1>3 DEF RoutingConsistent, MappedIsAlive, NewIsBlank, RouteIsNewest, OpenedBefore
<1> QED BY <1>2, <1>4

\* So does the delivery of one.
LEMMA ForwardRoute ==
  ASSUME RouteInv, WsIODataThread
  PROVE  RouteInv'
<1> USE DEF RouteInv
<1>1. Head(ioSock) \in Output /\ Tail(ioSock) \in Seq(Output)
  BY DEF WsTypeOK, WsIODataThread
<1>2. WsTypeOK'
  <2>1. shown' \in [Hdls -> Seq(Output)]
    <3> DEFINE h == taskId2Handle[Head(ioSock).task]
    <3>1. CASE h # NoHdl /\ conn[h].state = "open"
      <4>1. h \in Hdls
        BY <1>1, <3>1 DEF WsTypeOK, Output
      <4>2. shown' = [shown EXCEPT ![h] = Append(@, Head(ioSock))]
        BY <3>1 DEF WsIODataThread, sendMsgToTask
      <4>3. Append(shown[h], Head(ioSock)) \in Seq(Output)
        BY <1>1, <4>1 DEF WsTypeOK
      <4> HIDE DEF h
      <4> QED BY <4>1, <4>2, <4>3 DEF WsTypeOK
    <3>2. CASE ~(h # NoHdl /\ conn[h].state = "open")
      BY <3>2 DEF WsIODataThread, sendMsgToTask, WsTypeOK
    <3> QED BY <3>1, <3>2
  <2> QED BY <1>1, <2>1 DEF WsTypeOK, WsIODataThread, mapVars
<1>3. UNCHANGED <<taskId2Handle, handle2TaskId, conn, opened>>
  BY DEF WsIODataThread, mapVars
<1>4. RoutingConsistent' /\ MappedIsAlive' /\ RouteIsNewest'
  BY <1>3 DEF RoutingConsistent, MappedIsAlive, RouteIsNewest, OpenedBefore
<1>5. \A h \in Hdls : conn[h].state = "new" => shown'[h] = shown[h]
  BY DEF WsIODataThread, sendMsgToTask, WsTypeOK
<1>6. NewIsBlank'
  BY <1>3, <1>5 DEF NewIsBlank
<1> QED BY <1>2, <1>4, <1>6

\* Every step keeps the routes in order.
LEMMA NextRoute == RouteInv /\ [Next]_vars => RouteInv'
<1> SUFFICES ASSUME RouteInv, [Next]_vars PROVE RouteInv'
  OBVIOUS
<1>1. CASE UNCHANGED vars
  BY <1>1 DEF vars, mapVars, dataVars, RouteInv, WsTypeOK, RoutingConsistent,
              MappedIsAlive, NewIsBlank, RouteIsNewest, OpenedBefore
<1> QED
  BY <1>1, OpenRoute, CloseRoute, DisconnectRoute, ProduceRoute, ForwardRoute DEF Next

(* The steps of the outputs. *)

\* Connections that come and go do not touch what has been shown.
LEMMA ConnData ==
  ASSUME RouteInv, DataInv, UNCHANGED dataVars,
         \A h \in Hdls : conn[h].state = "new" \/ conn'[h].task = conn[h].task
  PROVE  DataInv'
<1>1. QueueInOrder'
  BY DEF DataInv, QueueInOrder, dataVars
<1>2. \A h \in Hdls : \A i \in DOMAIN shown[h] : shown[h][i].task = conn'[h].task
  BY DEF RouteInv, NewIsBlank, DataInv, OwnOutputInOrder
<1>3. OwnOutputInOrder'
  BY <1>2 DEF DataInv, OwnOutputInOrder, dataVars
<1> QED BY <1>1, <1>3 DEF DataInv

\* A new output is the newest of its task.
LEMMA ProduceData ==
  ASSUME RouteInv, DataInv, NEW t \in Tasks, IOData(t)
  PROVE  DataInv'
<1> DEFINE m == [task |-> t, n |-> produced[t] + 1]
<1>1. /\ ioSock \in Seq(Output) /\ produced \in [Tasks -> Nat]
      /\ shown \in [Hdls -> Seq(Output)]
  BY DEF RouteInv, WsTypeOK
<1>2. /\ ioSock' = Append(ioSock, m)
      /\ produced' = [produced EXCEPT ![t] = produced[t] + 1]
      /\ UNCHANGED <<conn, shown>>
  BY DEF IOData
<1>3. m \in Output /\ m.task = t /\ m.n = produced[t] + 1
  BY <1>1 DEF Output
<1>4. /\ DOMAIN ioSock' = 1 .. Len(ioSock) + 1 /\ Len(ioSock) \in Nat
      /\ DOMAIN ioSock = 1 .. Len(ioSock)
      /\ \A j \in DOMAIN ioSock : ioSock'[j] = ioSock[j]
      /\ ioSock'[Len(ioSock) + 1] = m
  <2> HIDE DEF m
  <2> QED BY <1>1, <1>2, <1>3
<1> HIDE DEF m
<1>5. \A j \in DOMAIN ioSock : ioSock[j] \in Output
  BY <1>1
<1>6. \A x \in Tasks : produced[x] \in Nat /\ produced'[x] \in Nat /\ produced[x] <= produced'[x]
  BY <1>1, <1>2
<1>7. produced'[t] = produced[t] + 1
  BY <1>1, <1>2
<1>8. \A o \in Output : o.task \in Tasks /\ o.n \in Nat
  BY DEF Output
<1>9. \A j \in DOMAIN ioSock' : ioSock'[j].n <= produced'[ioSock'[j].task]
  <2> SUFFICES ASSUME NEW j \in DOMAIN ioSock'
               PROVE  ioSock'[j].n <= produced'[ioSock'[j].task]
    OBVIOUS
  <2>1. CASE j \in DOMAIN ioSock
    <3>1. ioSock[j].n <= produced[ioSock[j].task]
      BY <2>1 DEF DataInv, QueueInOrder
    <3>2. ioSock[j].task \in Tasks /\ ioSock[j].n \in Nat /\ ioSock'[j] = ioSock[j]
      BY <2>1, <1>4, <1>5, <1>8
    <3> QED BY <3>1, <3>2, <1>6
  <2>2. CASE j = Len(ioSock) + 1
    BY <2>2, <1>3, <1>4, <1>6, <1>7
  <2> QED BY <2>1, <2>2, <1>4
<1>10. \A j \in DOMAIN ioSock' : \A i \in 1 .. j - 1 :
         ioSock'[i].task = ioSock'[j].task => ioSock'[i].n < ioSock'[j].n
  <2> SUFFICES ASSUME NEW j \in DOMAIN ioSock', NEW i \in 1 .. j - 1,
                      ioSock'[i].task = ioSock'[j].task
               PROVE  ioSock'[i].n < ioSock'[j].n
    OBVIOUS
  <2>1. i \in DOMAIN ioSock /\ ioSock'[i] = ioSock[i]
    BY <1>4
  <2>2. CASE j \in DOMAIN ioSock
    BY <2>1, <2>2, <1>4 DEF DataInv, QueueInOrder
  <2>3. CASE j = Len(ioSock) + 1
    <3>1. ioSock[i].n <= produced[t]
      BY <2>1, <2>3, <1>3, <1>4 DEF DataInv, QueueInOrder
    <3>2. ioSock[i].n \in Nat /\ produced[t] \in Nat
      BY <2>1, <1>5, <1>6, <1>8
    <3> QED BY <3>1, <3>2, <2>1, <2>3, <1>3, <1>4
  <2> QED BY <2>2, <2>3, <1>4
<1>11. \A h \in Hdls : \A i \in DOMAIN shown[h] :
         shown[h][i].task \in Tasks /\ shown[h][i].n \in Nat
  BY <1>1, <1>8
<1>12. \A h \in Hdls : \A i \in DOMAIN shown[h] :
         /\ shown[h][i].n <= produced'[shown[h][i].task]
         /\ \A j \in DOMAIN ioSock' :
              shown[h][i].task = ioSock'[j].task => shown[h][i].n < ioSock'[j].n
  <2> SUFFICES ASSUME NEW h \in Hdls, NEW i \in DOMAIN shown[h]
               PROVE  /\ shown[h][i].n <= produced'[shown[h][i].task]
                      /\ \A j \in DOMAIN ioSock' :
                           shown[h][i].task = ioSock'[j].task => shown[h][i].n < ioSock'[j].n
    OBVIOUS
  <2>1. shown[h][i].n <= produced[shown[h][i].task]
    BY DEF DataInv, QueueInOrder
  <2>2. shown[h][i].n <= produced'[shown[h][i].task]
    BY <2>1, <1>6, <1>11
  <2>3. ASSUME NEW j \in DOMAIN ioSock', shown[h][i].task = ioSock'[j].task
        PROVE  shown[h][i].n < ioSock'[j].n
    <3>1. CASE j \in DOMAIN ioSock
      BY <2>3, <3>1, <1>4 DEF DataInv, QueueInOrder
    <3>2. CASE j = Len(ioSock) + 1
      BY <2>1, <2>3, <3>2, <1>3, <1>4, <1>6, <1>11
    <3> QED BY <3>1, <3>2, <1>4
  <2> QED BY <2>2, <2>3
<1>13. QueueInOrder'
  BY <1>2, <1>9, <1>10, <1>12 DEF QueueInOrder
<1>14. OwnOutputInOrder'
  BY <1>2 DEF DataInv, OwnOutputInOrder
<1> QED BY <1>13, <1>14 DEF DataInv

\* The oldest output goes to a page of its own task, which has only seen older ones.
LEMMA ForwardData ==
  ASSUME RouteInv, DataInv, WsIODataThread
  PROVE  DataInv'
<1> DEFINE m == Head(ioSock)
           h == taskId2Handle[m.task]
<1>1. /\ ioSock \in Seq(Output) /\ ioSock # <<>> /\ produced \in [Tasks -> Nat]
      /\ shown \in [Hdls -> Seq(Output)]
  BY DEF RouteInv, WsTypeOK, WsIODataThread
<1>2. ioSock' = Tail(ioSock) /\ UNCHANGED <<conn, produced>>
  BY DEF WsIODataThread
<1>3. m \in Output /\ m = ioSock[1] /\ 1 \in DOMAIN ioSock
  BY <1>1
<1>4. /\ Len(ioSock) \in Nat /\ DOMAIN ioSock = 1 .. Len(ioSock)
      /\ DOMAIN ioSock' = 1 .. Len(ioSock) - 1
      /\ \A j \in DOMAIN ioSock' : ioSock'[j] = ioSock[j + 1]
  BY <1>1, <1>2
<1>5. m.task \in Tasks /\ m.n \in Nat
  BY <1>3 DEF Output
<1>6. \A o \in Output : o.task \in Tasks /\ o.n \in Nat
  BY DEF Output
<1>7. \A x \in Hdls : \A i \in DOMAIN shown[x] :
        shown[x][i].task = m.task => shown[x][i].n < m.n
  BY <1>3 DEF DataInv, QueueInOrder
<1>8. \A j \in DOMAIN ioSock' : ioSock'[j].task = m.task => m.n < ioSock'[j].n
  <2> SUFFICES ASSUME NEW j \in DOMAIN ioSock', ioSock'[j].task = m.task
               PROVE  m.n < ioSock'[j].n
    OBVIOUS
  <2>1. j + 1 \in DOMAIN ioSock /\ 1 \in 1 .. (j + 1) - 1 /\ ioSock'[j] = ioSock[j + 1]
    BY <1>4
  <2> QED BY <2>1, <1>3 DEF DataInv, QueueInOrder
<1>9. /\ \A j \in DOMAIN ioSock' : ioSock'[j].n <= produced'[ioSock'[j].task]
      /\ \A j \in DOMAIN ioSock' : \A i \in 1 .. j - 1 :
           ioSock'[i].task = ioSock'[j].task => ioSock'[i].n < ioSock'[j].n
  <2>1. \A j \in DOMAIN ioSock' : ioSock'[j].n <= produced'[ioSock'[j].task]
    <3> SUFFICES ASSUME NEW j \in DOMAIN ioSock'
                 PROVE  ioSock'[j].n <= produced'[ioSock'[j].task]
      OBVIOUS
    <3>1. j + 1 \in DOMAIN ioSock /\ ioSock'[j] = ioSock[j + 1]
      BY <1>4
    <3> QED BY <3>1, <1>2 DEF DataInv, QueueInOrder
  <2>2. ASSUME NEW j \in DOMAIN ioSock', NEW i \in 1 .. j - 1,
               ioSock'[i].task = ioSock'[j].task
        PROVE  ioSock'[i].n < ioSock'[j].n
    <3>1. /\ j + 1 \in DOMAIN ioSock /\ i + 1 \in 1 .. (j + 1) - 1
          /\ ioSock'[j] = ioSock[j + 1] /\ ioSock'[i] = ioSock[i + 1]
      BY <1>4
    <3> QED BY <3>1, <2>2 DEF DataInv, QueueInOrder
  <2> QED BY <2>1, <2>2
<1>10. \A x \in Hdls : \A i \in DOMAIN shown[x] :
         /\ shown[x][i].n <= produced'[shown[x][i].task]
         /\ \A j \in DOMAIN ioSock' :
              shown[x][i].task = ioSock'[j].task => shown[x][i].n < ioSock'[j].n
  BY <1>2, <1>4 DEF DataInv, QueueInOrder
<1>11. CASE shown' = shown
  <2>1. QueueInOrder'
    BY <1>9, <1>10, <1>11 DEF QueueInOrder
  <2>2. OwnOutputInOrder'
    BY <1>2, <1>11 DEF DataInv, OwnOutputInOrder
  <2> QED BY <2>1, <2>2 DEF DataInv
<1>12. CASE h # NoHdl /\ conn[h].state = "open"
  <2>1. h \in Hdls
    BY <1>5, <1>12 DEF RouteInv, WsTypeOK
  <2>2. shown' = [shown EXCEPT ![h] = Append(@, m)]
    BY <1>12 DEF WsIODataThread, sendMsgToTask
  <2>3. conn[h].task = m.task
    BY <1>5, <1>12, <2>1 DEF RouteInv, RoutingConsistent, MappedIsAlive
  <2>4. \A x \in Hdls : x # h => shown'[x] = shown[x]
    BY <2>1, <2>2, <1>1
  <2>5. shown[h] \in Seq(Output) /\ shown'[h] = Append(shown[h], m)
    BY <2>1, <2>2, <1>1
  <2> HIDE DEF m, h
  <2>6. /\ Len(shown[h]) \in Nat /\ DOMAIN shown[h] = 1 .. Len(shown[h])
        /\ DOMAIN shown'[h] = 1 .. Len(shown[h]) + 1
        /\ \A i \in DOMAIN shown[h] : shown'[h][i] = shown[h][i]
        /\ shown'[h][Len(shown[h]) + 1] = m
    BY <2>5, <1>3
  <2>7. \A i \in DOMAIN shown'[h] : i \in DOMAIN shown[h] \/ i = Len(shown[h]) + 1
    BY <2>6
  <2>8. m.n <= produced'[m.task]
    BY <1>2, <1>3 DEF DataInv, QueueInOrder
  <2>9. QueueInOrder'
    <3>1. ASSUME NEW x \in Hdls, NEW i \in DOMAIN shown'[x]
          PROVE  /\ shown'[x][i].n <= produced'[shown'[x][i].task]
                 /\ \A j \in DOMAIN ioSock' :
                      shown'[x][i].task = ioSock'[j].task => shown'[x][i].n < ioSock'[j].n
      <4>1. CASE x # h
        BY <4>1, <3>1, <2>4, <1>10
      <4>2. CASE x = h /\ i \in DOMAIN shown[h]
        BY <4>2, <2>6, <1>10
      <4>3. CASE x = h /\ i = Len(shown[h]) + 1
        BY <4>3, <2>6, <2>8, <1>8
      <4> QED BY <4>1, <4>2, <4>3, <3>1, <2>7
    <3> QED BY <3>1, <1>9 DEF QueueInOrder
  <2>10. ASSUME NEW x \in Hdls, NEW i \in DOMAIN shown'[x]
         PROVE  /\ shown'[x][i].task = conn'[x].task
                /\ \A j \in 1 .. i - 1 : shown'[x][j].n < shown'[x][i].n
    <3>1. CASE x # h
      BY <3>1, <2>10, <2>4, <1>2 DEF DataInv, OwnOutputInOrder
    <3>2. CASE x = h /\ i \in DOMAIN shown[h]
      <4>1. \A j \in 1 .. i - 1 : j \in DOMAIN shown[h]
        BY <3>2, <2>6
      <4> QED BY <4>1, <3>2, <2>6, <1>2 DEF DataInv, OwnOutputInOrder
    <3>3. CASE x = h /\ i = Len(shown[h]) + 1
      <4>1. \A j \in 1 .. i - 1 : j \in DOMAIN shown[h]
        BY <3>3, <2>6
      <4>2. \A j \in DOMAIN shown[h] : shown[h][j].task = m.task
        BY <2>1, <2>3 DEF DataInv, OwnOutputInOrder
      <4> QED BY <4>1, <4>2, <3>3, <2>1, <2>3, <2>6, <1>2, <1>7
    <3> QED BY <3>1, <3>2, <3>3, <2>7, <2>10
  <2>11. \A x \in Hdls : \A i \in DOMAIN shown[x] : shown[x][i] # m
    <3>1. \A x \in Hdls : \A i \in DOMAIN shown[x] : shown[x][i].n \in Nat
      BY <1>1, <1>6
    <3> QED BY <3>1, <1>5, <1>7
  <2>12. ASSUME NEW x \in Hdls, NEW y \in Hdls, x # y,
                NEW i \in DOMAIN shown'[x], NEW j \in DOMAIN shown'[y]
         PROVE  shown'[x][i] # shown'[y][j]
    <3>1. shown'[x][i] = m \/ (i \in DOMAIN shown[x] /\ shown'[x][i] = shown[x][i])
      BY <2>12, <2>4, <2>6, <2>7
    <3>2. shown'[y][j] = m \/ (j \in DOMAIN shown[y] /\ shown'[y][j] = shown[y][j])
      BY <2>12, <2>4, <2>6, <2>7
    <3>3. x # h \/ y # h
      BY <2>12
    <3>4. x # h => i \in DOMAIN shown[x] /\ shown'[x][i] = shown[x][i]
      BY <2>4, <2>12
    <3>5. y # h => j \in DOMAIN shown[y] /\ shown'[y][j] = shown[y][j]
      BY <2>4, <2>12
    <3> QED BY <3>1, <3>2, <3>3, <3>4, <3>5, <2>11, <2>12 DEF DataInv, OwnOutputInOrder
  <2>13. OwnOutputInOrder'
    BY <2>10, <2>12 DEF OwnOutputInOrder
  <2> QED BY <2>9, <2>13 DEF DataInv
<1>13. CASE ~(h # NoHdl /\ conn[h].state = "open")
  BY <1>13, <1>11 DEF WsIODataThread, sendMsgToTask
<1> QED BY <1>12, <1>13

\* Every step keeps the outputs in order.
LEMMA NextData == RouteInv /\ DataInv /\ [Next]_vars => DataInv'
<1> SUFFICES ASSUME RouteInv, DataInv, [Next]_vars PROVE DataInv'
  OBVIOUS
<1>1. ASSUME NEW h \in Hdls, NEW t \in Tasks \cup {NoTask}, OnOpen(h, t)
      PROVE  DataInv'
  <2>1. UNCHANGED dataVars /\ conn[h].state = "new" /\ \A x \in Hdls : x # h => conn'[x] = conn[x]
    BY <1>1 DEF OnOpen, SetConn, RouteInv, WsTypeOK
  <2> QED BY <2>1, ConnData
<1>2. ASSUME NEW h \in Hdls, Disconnect(h) \/ OnClose(h)
      PROVE  DataInv'
  <2>0. UNCHANGED dataVars /\ \E s \in {"closing", "closed"} : SetConn(h, s, conn[h].task)
    BY <1>2 DEF Disconnect, OnClose
  <2>1. UNCHANGED dataVars /\ \A x \in Hdls : conn'[x].task = conn[x].task
    BY <2>0 DEF SetConn, RouteInv, WsTypeOK
  <2> QED BY <2>1, ConnData
<1>3. CASE UNCHANGED vars
  BY <1>3, ConnData DEF vars
<1> QED BY <1>1, <1>2, <1>3, ProduceData, ForwardData DEF Next

\* The routes and the outputs stay in order: the inductive invariant holds always.
THEOREM Invariance == Spec => [](RouteInv /\ DataInv)
BY InitInv, NextRoute, NextData, PTL DEF Spec

\* The values of all variables are of the right shape, always.
THEOREM TypeCorrect == Spec => []WsTypeOK
<1>1. RouteInv => WsTypeOK
  BY DEF RouteInv
<1> QED BY <1>1, Invariance, PTL

\* A route always leads to a connection of the task.
THEOREM RoutesCorrect == Spec => []RoutingConsistent
<1>1. RouteInv => RoutingConsistent
  BY DEF RouteInv
<1> QED BY <1>1, Invariance, PTL

\* A closed connection is in neither map.
THEOREM NoStaleRoutes == Spec => []ClosedIsUnrouted
<1>1. RouteInv => ClosedIsUnrouted
  <2> SUFFICES ASSUME RouteInv, NEW h \in Hdls, conn[h].state = "closed"
               PROVE  handle2TaskId[h] = NoTask /\ \A t \in Tasks : taskId2Handle[t] # h
    BY DEF ClosedIsUnrouted
  <2>1. handle2TaskId[h] = NoTask
    BY DEF RouteInv, MappedIsAlive
  <2> QED BY <2>1 DEF RouteInv, RoutingConsistent
<1> QED BY <1>1, Invariance, PTL

\* Output goes to the page opened last, if it goes anywhere.
THEOREM NewestServed == Spec => []RouteIsNewest
<1>1. RouteInv => RouteIsNewest
  BY DEF RouteInv
<1> QED BY <1>1, Invariance, PTL

\* Every page sees its own task's output, in order, and no output is seen twice.
THEOREM OutputCorrect == Spec => []OwnOutputInOrder
<1>1. DataInv => OwnOutputInOrder
  BY DEF DataInv
<1> QED BY <1>1, Invariance, PTL
=============================================================================
