---------------------------- MODULE PagesProofs ----------------------------
(***************************************************************************)
(* The pages use the websocket server as any client may (WsConnMgr), so    *)
(* what is proved of its routes holds with pages that reload, poll and open*)
(* connections of their own accord.                                        *)
(***************************************************************************)
EXTENDS Pages, WsConnMgrProofs

\* The server's side of a page's connection is a step of the server, and so is what
\* another client does and what the outputs do.
LEMMA ServerStep ==
  ASSUME \/ \E h \in Hdls : Server(h) \/ OtherClient(h)
         \/ Outputs,
         \A h \in Hdls : socket[h].task \in Tasks \cup {NoTask}
  PROVE  Next
<1>1. ASSUME NEW h \in Hdls, Server(h) PROVE Next
  BY <1>1 DEF Server, Next
<1>2. ASSUME NEW h \in Hdls, OtherClient(h) PROVE Next
  BY <1>2 DEF OtherClient, Next
<1>3. CASE Outputs
  BY <1>3 DEF Outputs, Next
<1> QED BY <1>1, <1>2, <1>3

\* What a page and its tasks do by themselves does not touch the server.
LEMMA PageStep ==
  ASSUME \/ \E t \in PageTasks : TimerStarts(t) \/ RunEnds(t)
         \/ \E c \in calls : Serve(c) \/ Answered(c)
         \/ \E g \in Browsers, t \in PageTasks : PageOpens(g, t)
         \/ \E g \in Browsers : PageCloses(g) \/ Poll(g) \/ ClickStart(g)
         \/ \E h \in Hdls : WsOnOpen(h) \/ WsOnClose(h)
  PROVE  UNCHANGED vars
BY DEF TimerStarts, RunEnds, Serve, Answered, PageOpens, PageCloses, Poll, ClickStart,
       WsOnOpen, WsOnClose

-----------------------------------------------------------------------------
(* Types *)

\* A connection that was asked for has its page; the types are kept only with it.
SocketHasTab == \A h \in Hdls : socket[h].state # "none" => socket[h].tab \in Browsers

PageInv == PageTypes /\ SocketHasTab

\* A call is sent by a page.
LEMMA CallType ==
  ASSUME NEW g \in Browsers, NEW op \in {"first", "get", "start", "enable"}
  PROVE  Call(g, op) \in Calls
BY DEF Call, Calls

\* Closing keeps the type and the page of a connection.
LEMMA ClosingType ==
  ASSUME PageInv, NEW h \in Hdls
  PROVE  /\ Closing(socket[h]) \in Socket
         /\ Closing(socket[h]).state # "none" => Closing(socket[h]).tab \in Browsers
<1>1. socket[h] \in Socket /\ (socket[h].state # "none" => socket[h].tab \in Browsers)
  BY DEF PageInv, PageTypes, SocketHasTab
<1> QED BY <1>1 DEF Closing, Socket

\* openWs gives the page a connection of its own.
LEMMA OpenWsType ==
  ASSUME PageInv, NEW g \in Browsers, NEW old, NEW p \in PageData, OpenWs(g, old, p)
  PROVE  page' \in [Browsers -> PageData] /\ socket' \in [Hdls -> Socket] /\ SocketHasTab'
<1>1. PICK h \in Fresh :
        /\ page' = [page EXCEPT ![g] = [p EXCEPT !.ws = h]]
        /\ socket' = [i \in Hdls |->
             IF i = h THEN [tab |-> g, task |-> page[g].task, state |-> "connecting"]
             ELSE IF i \in old THEN Closing(socket[i]) ELSE socket[i]]
  BY DEF OpenWs
<1>2. [p EXCEPT !.ws = h] \in PageData
  BY <1>1 DEF Fresh, PageData
<1>3. [tab |-> g, task |-> page[g].task, state |-> "connecting"] \in Socket
  BY DEF PageInv, PageTypes, PageData, Socket
<1>4. socket' \in [Hdls -> Socket]
  BY <1>1, <1>3, ClosingType DEF PageInv, PageTypes
<1>5. SocketHasTab'
  BY <1>1, ClosingType DEF PageInv, SocketHasTab
<1> QED BY <1>1, <1>2, <1>4, <1>5 DEF PageInv, PageTypes

\* The data of the page with what is known of the task, and with the redirection hidden.
LEMMA PageDataType ==
  ASSUME NEW d \in PageData, NEW r \in BOOLEAN, NEW b \in BOOLEAN,
         NEW s \in {"none", "loading", "shown"}
  PROVE  /\ [d EXCEPT !.state = s, !.running = r] \in PageData
         /\ [d EXCEPT !.redirecting = b] \in PageData
BY DEF PageData

\* The answer to getTask keeps the types.
LEMMA GotTaskType ==
  ASSUME PageInv, NEW g \in Browsers, NEW c, GotTask(g, c)
  PROVE  page' \in [Browsers -> PageData] /\ socket' \in [Hdls -> Socket] /\ SocketHasTab'
<1> DEFINE p == [page[g] EXCEPT !.state = IF c.op = "first" THEN "shown" ELSE @,
                                !.running = (c.answer = "running")]
<1>1. p \in PageData
  <2>1. page[g] \in PageData
    BY DEF PageInv, PageTypes
  <2>2. (IF c.op = "first" THEN "shown" ELSE page[g].state) \in {"none", "loading", "shown"}
    BY <2>1 DEF PageData
  <2>3. (c.answer = "running") \in BOOLEAN
    OBVIOUS
  <2> QED BY <2>1, <2>2, <2>3, PageDataType
<1>2. ASSUME page' = [page EXCEPT ![g] = [p EXCEPT !.redirecting = @ /\ page[g].ws = NoHdl]],
             CloseWs(g)
      PROVE  page' \in [Browsers -> PageData] /\ socket' \in [Hdls -> Socket] /\ SocketHasTab'
  <2> HIDE DEF p
  <2>1. [p EXCEPT !.redirecting = @ /\ page[g].ws = NoHdl] \in PageData
    <3>1. (p.redirecting /\ page[g].ws = NoHdl) \in BOOLEAN
      OBVIOUS
    <3> QED BY <1>1, <3>1, PageDataType
  <2>2. socket' \in [Hdls -> Socket]
    BY <1>2, ClosingType DEF CloseWs, PageInv, PageTypes
  <2>3. SocketHasTab'
    BY <1>2, ClosingType DEF CloseWs, PageInv, SocketHasTab
  <2> QED BY <1>2, <2>1, <2>2, <2>3 DEF PageInv, PageTypes
<1>3. CASE OpenWs(g, {}, p)
  BY <1>1, <1>3, OpenWsType
<1>4. CASE page' = [page EXCEPT ![g] = p] /\ UNCHANGED socket
  <2> HIDE DEF p
  <2> QED BY <1>1, <1>4 DEF PageInv, PageTypes, SocketHasTab
<1> QED BY <1>2, <1>3, <1>4 DEF GotTask

\* A new run keeps the types of the tasks.
LEMMA NewRunType ==
  ASSUME PageInv, NEW t \in Tasks, NewRun(t)
  PROVE  task' \in [Tasks -> TaskState]
<1>1. task[t] \in TaskState
  BY DEF PageInv, PageTypes
<1>2. [running |-> TRUE, redirect |-> FALSE, starts |-> task[t].starts + 1] \in TaskState
  BY <1>1 DEF TaskState
<1> QED BY <1>2 DEF NewRun, PageInv, PageTypes

\* A call that is served is a call still.
LEMMA ServeType == ASSUME PageInv, NEW c \in calls, Serve(c) PROVE PageInv'
<1>1. c \in Calls
  BY DEF PageInv, PageTypes
<1>2. \A a \in {"running", "idle", "ok", "refused"} :
        (calls \ {c}) \cup {[c EXCEPT !.answer = a]} \subseteq Calls
  BY <1>1 DEF Calls, PageInv, PageTypes
<1>3. calls' \subseteq Calls
  BY <1>2 DEF Serve
<1> DEFINE t == page[c.page].task
<1>4. t \in Tasks \/ t \notin Tasks
  OBVIOUS
<1>5. task' \in [Tasks -> TaskState]
  <2>1. CASE UNCHANGED task
    BY <2>1 DEF PageInv, PageTypes
  <2>2. CASE NewRun(t) /\ t \in Tasks
    BY <2>2, NewRunType
  <2>3. CASE NewRun(t) /\ t \notin Tasks
    BY <2>3 DEF NewRun, PageInv, PageTypes
  <2>4. CASE task' = [task EXCEPT ![t].redirect = TRUE]
    BY <2>4 DEF PageInv, PageTypes, TaskState
  <2> QED BY <2>1, <2>2, <2>3, <2>4 DEF Serve
<1> QED BY <1>3, <1>5 DEF Serve, PageInv, PageTypes, SocketHasTab

\* An answer keeps the types, whatever the page does with it.
LEMMA AnsweredType == ASSUME PageInv, NEW c \in calls, Answered(c) PROVE PageInv'
<1>1. c \in Calls /\ c.page \in Browsers
  BY DEF PageInv, PageTypes, Calls
<1>2. page[c.page] \in PageData
  BY <1>1 DEF PageInv, PageTypes
<1>3. calls' \subseteq Calls
  <2>1. Call(c.page, "get") \in Calls
    BY <1>1, CallType
  <2> QED BY <2>1 DEF Answered, PageInv, PageTypes
<1>4. CASE GotTask(c.page, c)
  BY <1>1, <1>3, <1>4, GotTaskType DEF Answered, PageInv, PageTypes
<1>5. CASE OpenWs(c.page, {page[c.page].ws}, page[c.page])
  BY <1>1, <1>2, <1>3, <1>5, OpenWsType DEF Answered, PageInv, PageTypes
<1>6. CASE UNCHANGED <<page, socket>>
  BY <1>3, <1>6 DEF Answered, PageInv, PageTypes, SocketHasTab
<1>7. CASE GotSwitch(c.page, c) /\ UNCHANGED socket
  <2>1. (c.answer = "ok") \in BOOLEAN
    OBVIOUS
  <2>2. [page[c.page] EXCEPT !.redirecting = (c.answer = "ok")] \in PageData
    BY <1>2, <2>1, PageDataType
  <2>3. page' \in [Browsers -> PageData]
    BY <1>7, <2>2 DEF GotSwitch, PageInv, PageTypes
  <2> QED BY <1>3, <1>7, <2>3 DEF Answered, PageInv, PageTypes, SocketHasTab
<1> QED BY <1>4, <1>5, <1>6, <1>7 DEF Answered

\* Every step keeps the types.
LEMMA NextPageType == PageInv /\ [PNext]_pvars => PageInv'
<1> SUFFICES ASSUME PageInv, [PNext]_pvars PROVE PageInv'
  OBVIOUS
<1>1. ASSUME NEW t \in PageTasks, TimerStarts(t) PROVE PageInv'
  <2>1. t \in Tasks
    BY PagesAssumption
  <2> QED BY <1>1, <2>1, NewRunType DEF TimerStarts, PageInv, PageTypes, SocketHasTab
<1>2. ASSUME NEW t \in PageTasks, RunEnds(t) PROVE PageInv'
  <2>1. task' \in [Tasks -> TaskState]
    BY <1>2 DEF RunEnds, PageInv, PageTypes, TaskState
  <2> QED BY <1>2, <2>1 DEF RunEnds, PageInv, PageTypes, SocketHasTab
<1>3. ASSUME NEW g \in Browsers, NEW t \in PageTasks, PageOpens(g, t) PROVE PageInv'
  <2>1. [NoPage EXCEPT !.state = "loading", !.task = t] \in PageData
    BY PagesAssumption DEF NoPage, PageData
  <2>2. Call(g, "first") \in Calls
    BY CallType
  <2> QED BY <1>3, <2>1, <2>2 DEF PageOpens, PageInv, PageTypes, SocketHasTab
<1>4. ASSUME NEW g \in Browsers, PageCloses(g) PROVE PageInv'
  <2>1. NoPage \in PageData
    BY DEF NoPage, PageData
  <2>2. socket' \in [Hdls -> Socket]
    BY <1>4 DEF PageCloses, PageInv, PageTypes, Socket
  <2>3. SocketHasTab'
    BY <1>4 DEF PageCloses, PageInv, PageTypes, SocketHasTab, Socket
  <2> QED BY <1>4, <2>1, <2>2, <2>3 DEF PageCloses, PageInv, PageTypes
<1>5. ASSUME NEW g \in Browsers, Poll(g) \/ ClickStart(g) PROVE PageInv'
  <2>1. Call(g, "get") \in Calls /\ Call(g, "start") \in Calls
    BY CallType
  <2> QED BY <1>5, <2>1 DEF Poll, ClickStart, PageInv, PageTypes, SocketHasTab
<1>6. ASSUME NEW h \in Hdls, WsOnOpen(h) PROVE PageInv'
  <2>1. socket[h].tab \in Browsers
    BY <1>6 DEF WsOnOpen, PageInv, SocketHasTab
  <2>2. Call(socket[h].tab, "enable") \in Calls
    BY <2>1, CallType
  <2>3. socket' \in [Hdls -> Socket]
    BY <1>6 DEF WsOnOpen, PageInv, PageTypes, Socket
  <2>4. SocketHasTab'
    BY <1>6, <2>1 DEF WsOnOpen, PageInv, PageTypes, SocketHasTab, Socket
  <2> QED BY <1>6, <2>2, <2>3, <2>4 DEF WsOnOpen, PageInv, PageTypes
<1>7. ASSUME NEW h \in Hdls, WsOnClose(h) PROVE PageInv'
  <2>1. socket[h].tab \in Browsers
    BY <1>7 DEF WsOnClose, PageInv, SocketHasTab
  <2>2. socket' \in [Hdls -> Socket]
    BY <1>7 DEF WsOnClose, PageInv, PageTypes, Socket
  <2>3. SocketHasTab'
    BY <1>7, <2>1 DEF WsOnClose, PageInv, PageTypes, SocketHasTab, Socket
  <2>4. page' \in [Browsers -> PageData]
    BY <1>7, <2>1 DEF WsOnClose, PageInv, PageTypes, PageData
  <2> QED BY <1>7, <2>2, <2>3, <2>4 DEF WsOnClose, PageInv, PageTypes
<1>8. ASSUME UNCHANGED pageVars PROVE PageInv'
  BY <1>8 DEF pageVars, PageInv, PageTypes, SocketHasTab
<1>9. CASE Outputs
  BY <1>8, <1>9 DEF Outputs
<1>10. ASSUME NEW h \in Hdls, Server(h) \/ OtherClient(h) PROVE PageInv'
  BY <1>8, <1>10 DEF Server, OtherClient
<1>11. CASE UNCHANGED pvars
  BY <1>8, <1>11 DEF pvars
<1> QED BY <1>1, <1>2, <1>3, <1>4, <1>5, <1>6, <1>7, <1>9, <1>10, <1>11, ServeType, AnsweredType
        DEF PNext

\* The types hold in every reachable state.
LEMMA PageInvariance == PSpec => []PageInv
<1>1. PInit => PageInv
  BY DEF PInit, PageInv, PageTypes, SocketHasTab, NoPage, NoSocket, TaskState, PageData, Socket
<1> QED BY <1>1, NextPageType, PTL DEF PSpec

-----------------------------------------------------------------------------
(* Calls and connections go with their page *)

Live == {"connecting", "open", "closing"}

\* The page of a call, and of a connection that may still call, is there.
Presence ==
  /\ \A c \in calls : page[c.page].state # "none"
  /\ \A h \in Hdls : socket[h].state \in Live => page[socket[h].tab].state # "none"

\* A page that is there stays there; a connection it opens is its own.
LEMMA OpenWsPresence ==
  ASSUME PageInv, Presence, NEW g \in Browsers, NEW old, NEW p, OpenWs(g, old, p),
         p \in PageData, p.state # "none"
  PROVE  /\ \A b \in Browsers : page[b].state # "none" => page'[b].state # "none"
         /\ page'[g].state # "none"
         /\ \A h \in Hdls : socket'[h].state \in Live => page'[socket'[h].tab].state # "none"
<1>1. PICK h \in Fresh :
        /\ page' = [page EXCEPT ![g] = [p EXCEPT !.ws = h]]
        /\ socket' = [i \in Hdls |->
             IF i = h THEN [tab |-> g, task |-> page[g].task, state |-> "connecting"]
             ELSE IF i \in old THEN Closing(socket[i]) ELSE socket[i]]
  BY DEF OpenWs
<1>2. page \in [Browsers -> PageData] /\ socket \in [Hdls -> Socket]
  BY DEF PageInv, PageTypes
<1>3. [p EXCEPT !.ws = h].state # "none"
  BY DEF PageData
<1>4. page'[g].state # "none" /\ \A b \in Browsers \ {g} : page'[b] = page[b]
  BY <1>1, <1>2, <1>3
<1>5. ASSUME NEW i \in Hdls, socket'[i].state \in Live
      PROVE  page'[socket'[i].tab].state # "none"
  <2>1. CASE i = h
    BY <1>1, <1>4, <2>1
  <2>2. CASE i # h
    <3>1. socket'[i] = socket[i] \/ socket'[i] = Closing(socket[i])
      BY <1>1, <2>2
    <3>2. socket'[i].tab = socket[i].tab /\ socket[i].state \in Live
      BY <1>2, <1>5, <3>1 DEF Closing, Live, Socket
    <3>3. socket[i].tab \in Browsers /\ page[socket[i].tab].state # "none"
      BY <3>2 DEF PageInv, SocketHasTab, Presence, Live
    <3> QED BY <1>4, <3>2, <3>3
  <2> QED BY <2>1, <2>2
<1> QED BY <1>4, <1>5

\* So does the answer to getTask.
LEMMA GotTaskPresence ==
  ASSUME PageInv, Presence, NEW g \in Browsers, page[g].state # "none", NEW c, GotTask(g, c)
  PROVE  /\ \A b \in Browsers : page[b].state # "none" => page'[b].state # "none"
         /\ page'[g].state # "none"
         /\ \A h \in Hdls : socket'[h].state \in Live => page'[socket'[h].tab].state # "none"
<1> DEFINE p == [page[g] EXCEPT !.state = IF c.op = "first" THEN "shown" ELSE @,
                                !.running = (c.answer = "running")]
           q == [p EXCEPT !.redirecting = @ /\ page[g].ws = NoHdl]
<1>1. page \in [Browsers -> PageData] /\ socket \in [Hdls -> Socket] /\ page[g] \in PageData
  BY DEF PageInv, PageTypes
<1>2. p.state # "none" /\ q.state # "none"
  BY <1>1 DEF PageData
<1>3. p \in PageData
  <2>1. (IF c.op = "first" THEN "shown" ELSE page[g].state) \in {"none", "loading", "shown"}
    BY <1>1 DEF PageData
  <2>2. (c.answer = "running") \in BOOLEAN
    OBVIOUS
  <2> QED BY <1>1, <2>1, <2>2, PageDataType
<1>4. ASSUME NEW d, d.state # "none", page' = [page EXCEPT ![g] = d],
             \A h \in Hdls : socket'[h] = socket[h] \/ socket'[h] = Closing(socket[h])
      PROVE  /\ \A b \in Browsers : page[b].state # "none" => page'[b].state # "none"
             /\ page'[g].state # "none"
             /\ \A h \in Hdls : socket'[h].state \in Live => page'[socket'[h].tab].state # "none"
  <2>1. page'[g].state # "none" /\ \A b \in Browsers \ {g} : page'[b] = page[b]
    BY <1>1, <1>4
  <2>2. ASSUME NEW h \in Hdls, socket'[h].state \in Live
        PROVE  socket'[h].tab = socket[h].tab /\ socket[h].state \in Live
    BY <1>1, <1>4, <2>2 DEF Closing, Live, Socket
  <2>3. \A h \in Hdls : socket[h].state \in Live =>
          socket[h].tab \in Browsers /\ page[socket[h].tab].state # "none"
    BY DEF PageInv, SocketHasTab, Presence, Live
  <2> QED BY <2>1, <2>2, <2>3
<1>5. CASE page' = [page EXCEPT ![g] = q] /\ CloseWs(g)
  <2>1. \A h \in Hdls : socket'[h] = socket[h] \/ socket'[h] = Closing(socket[h])
    BY <1>5 DEF CloseWs
  <2> HIDE DEF q
  <2> QED BY <1>2, <1>4, <1>5, <2>1
<1>6. CASE OpenWs(g, {}, p)
  <2> HIDE DEF p
  <2> QED BY <1>2, <1>3, <1>6, OpenWsPresence
<1>7. CASE page' = [page EXCEPT ![g] = p] /\ UNCHANGED socket
  <2> HIDE DEF p
  <2> QED BY <1>2, <1>4, <1>7
<1> QED BY <1>5, <1>6, <1>7 DEF GotTask

\* An answer is taken in by a page that is there, and it stays there.
LEMMA AnsweredPresence ==
  ASSUME PageInv, Presence, NEW c \in calls, Answered(c) PROVE Presence'
<1> DEFINE g == c.page
<1>1. calls \subseteq Calls /\ g \in Browsers /\ page[g].state # "none" /\ page[g] \in PageData
  BY DEF PageInv, PageTypes, Calls, Presence
<1>2. Call(g, "get").page = g
  BY DEF Call
<1>3. calls' \subseteq calls \cup {Call(g, "get")}
  BY DEF Answered
<1>4. ASSUME \A b \in Browsers : page[b].state # "none" => page'[b].state # "none",
             \A h \in Hdls : socket'[h].state \in Live => page'[socket'[h].tab].state # "none"
      PROVE  Presence'
  <2>1. ASSUME NEW d \in calls' PROVE page'[d.page].state # "none"
    <3>1. d.page \in Browsers /\ page[d.page].state # "none"
      BY <1>1, <1>2, <1>3, <2>1 DEF Calls, Presence
    <3> QED BY <1>4, <3>1
  <2> QED BY <1>4, <2>1 DEF Presence
<1>5. CASE GotTask(g, c)
  BY <1>1, <1>4, <1>5, GotTaskPresence
<1>6. CASE OpenWs(g, {page[g].ws}, page[g])
  BY <1>1, <1>4, <1>6, OpenWsPresence
<1>7. CASE UNCHANGED <<page, socket>>
  BY <1>4, <1>7 DEF Presence
<1>8. CASE GotSwitch(g, c) /\ UNCHANGED socket
  <2>1. page \in [Browsers -> PageData] /\ [page[g] EXCEPT !.redirecting = (c.answer = "ok")].state = page[g].state
    BY <1>1 DEF PageInv, PageTypes, PageData
  <2>2. \A b \in Browsers : page'[b].state = page[b].state
    BY <1>8, <2>1 DEF GotSwitch
  <2>3. \A h \in Hdls : socket[h].state \in Live => socket[h].tab \in Browsers
    BY DEF PageInv, SocketHasTab, Live
  <2> QED BY <1>4, <1>8, <2>2, <2>3 DEF Presence
<1> QED BY <1>5, <1>6, <1>7, <1>8 DEF Answered

\* Every step keeps calls and connections with their page.
LEMMA NextPresence == PageInv /\ Presence /\ [PNext]_pvars => Presence'
<1> SUFFICES ASSUME PageInv, Presence, [PNext]_pvars PROVE Presence'
  OBVIOUS
<1>0. /\ page \in [Browsers -> PageData] /\ socket \in [Hdls -> Socket]
      /\ calls \subseteq Calls
      /\ \A h \in Hdls : socket[h].state \in Live => socket[h].tab \in Browsers
  BY DEF PageInv, PageTypes, SocketHasTab, Live
<1>1. ASSUME UNCHANGED <<page, socket, calls>> PROVE Presence'
  BY <1>1 DEF Presence
<1>2. ASSUME NEW c \in calls, Serve(c) PROVE Presence'
  <2>1. \A a : [c EXCEPT !.answer = a].page = c.page
    BY <1>0 DEF Calls
  <2>2. \E a \in {"running", "idle", "ok", "refused"} :
          calls' = (calls \ {c}) \cup {[c EXCEPT !.answer = a]}
    <3>1. CASE calls' = (calls \ {c}) \cup
               {[c EXCEPT !.answer = IF task[page[c.page].task].running THEN "running" ELSE "idle"]}
      BY <3>1
    <3>2. CASE calls' = (calls \ {c}) \cup {[c EXCEPT !.answer = "ok"]}
      BY <3>2
    <3>3. CASE calls' = (calls \ {c}) \cup {[c EXCEPT !.answer = "refused"]}
      BY <3>3
    <3> QED BY <1>2, <3>1, <3>2, <3>3, Zenon DEF Serve
  <2>3. ASSUME NEW d \in calls' PROVE page[d.page].state # "none"
    BY <2>1, <2>2, <2>3 DEF Presence
  <2>4. UNCHANGED <<page, socket>>
    BY <1>2 DEF Serve
  <2> QED BY <2>3, <2>4 DEF Presence
<1>3. ASSUME NEW g \in Browsers, NEW t \in PageTasks, PageOpens(g, t) PROVE Presence'
  <2>1. page'[g].state = "loading" /\ \A b \in Browsers \ {g} : page'[b] = page[b]
    BY <1>0, <1>3 DEF PageOpens, NoPage
  <2>2. Call(g, "first").page = g
    BY DEF Call
  <2>3. ASSUME NEW c \in calls' PROVE page'[c.page].state # "none"
    BY <1>0, <1>3, <2>1, <2>2, <2>3 DEF PageOpens, Presence, Calls
  <2>4. ASSUME NEW h \in Hdls, socket'[h].state \in Live
        PROVE  page'[socket'[h].tab].state # "none"
    BY <1>0, <1>3, <2>1, <2>4 DEF PageOpens, Presence
  <2> QED BY <2>3, <2>4 DEF Presence
<1>4. ASSUME NEW g \in Browsers, PageCloses(g) PROVE Presence'
  <2>1. \A b \in Browsers \ {g} : page'[b] = page[b]
    BY <1>0, <1>4 DEF PageCloses
  <2>2. ASSUME NEW c \in calls' PROVE page'[c.page].state # "none"
    BY <1>0, <1>4, <2>1, <2>2 DEF PageCloses, Presence, Calls
  <2>3. ASSUME NEW h \in Hdls, socket'[h].state \in Live
        PROVE  page'[socket'[h].tab].state # "none"
    <3>1. socket[h].tab # g
      BY <1>0, <1>4, <2>3 DEF PageCloses, Live, Socket
    <3> QED BY <1>0, <1>4, <2>1, <2>3, <3>1 DEF PageCloses, Presence
  <2> QED BY <2>2, <2>3 DEF Presence
<1>5. ASSUME NEW g \in Browsers, Poll(g) \/ ClickStart(g) PROVE Presence'
  <2>1. page[g].state # "none" /\ page' = page /\ socket' = socket
    BY <1>5 DEF Poll, ClickStart
  <2>2. calls' \subseteq calls \cup {Call(g, "get"), Call(g, "start")}
    BY <1>5 DEF Poll, ClickStart
  <2>3. Call(g, "get").page = g /\ Call(g, "start").page = g
    BY DEF Call
  <2> QED BY <2>1, <2>2, <2>3 DEF Presence
<1>6. ASSUME NEW h \in Hdls, WsOnOpen(h) PROVE Presence'
  <2>1. socket[h].state \in Live /\ page' = page
    BY <1>6 DEF WsOnOpen, Live
  <2>2. Call(socket[h].tab, "enable").page = socket[h].tab
    BY DEF Call
  <2>3. ASSUME NEW c \in calls' PROVE page'[c.page].state # "none"
    BY <1>6, <2>1, <2>2, <2>3 DEF WsOnOpen, Presence
  <2>4. ASSUME NEW i \in Hdls, socket'[i].state \in Live
        PROVE  socket'[i].tab = socket[i].tab /\ socket[i].state \in Live
    BY <1>0, <1>6, <2>1, <2>4 DEF WsOnOpen, Socket
  <2> QED BY <2>1, <2>3, <2>4 DEF Presence
<1>7. ASSUME NEW h \in Hdls, WsOnClose(h) PROVE Presence'
  <2>1. \A b \in Browsers : page'[b].state = page[b].state
    BY <1>0, <1>7 DEF WsOnClose, PageData
  <2>2. ASSUME NEW i \in Hdls, socket'[i].state \in Live
        PROVE  socket'[i].tab = socket[i].tab /\ socket[i].state \in Live
    BY <1>0, <1>7, <2>2 DEF WsOnClose, Socket, Live
  <2>3. \A c \in calls : c.page \in Browsers
    BY <1>0 DEF Calls
  <2> QED BY <1>0, <1>7, <2>1, <2>2, <2>3 DEF WsOnClose, Presence
<1>8. ASSUME \/ \E t \in PageTasks : TimerStarts(t) \/ RunEnds(t)
             \/ \E h \in Hdls : Server(h) \/ OtherClient(h)
             \/ Outputs \/ UNCHANGED pvars
      PROVE  Presence'
  BY <1>1, <1>8 DEF TimerStarts, RunEnds, Server, OtherClient, Outputs, pageVars, pvars
<1> QED BY <1>2, <1>3, <1>4, <1>5, <1>6, <1>7, <1>8, AnsweredPresence DEF PNext

-----------------------------------------------------------------------------
(* What follows *)

\* The types of the pages, their connections and calls.
THEOREM PageTypeCorrect == PSpec => []PageTypeOK
<1>1. PInit => Presence
  BY DEF PInit, Presence, NoSocket, Live
<1>2. PageInv /\ Presence => PageTypeOK
  BY DEF PageInv, Presence, PageTypeOK
<1> QED BY <1>1, <1>2, NextPresence, PageInvariance, PTL DEF PSpec

\* Pages are clients of the websocket server like any other.
LEMMA PagesImplement == PSpec => Spec
<1>1. PInit => Init
  BY DEF PInit
<1>2. PageInv /\ [PNext]_pvars => [Next]_vars
  <2> SUFFICES ASSUME PageInv, [PNext]_pvars PROVE [Next]_vars
    OBVIOUS
  <2>1. \A h \in Hdls : socket[h].task \in Tasks \cup {NoTask}
    BY DEF PageInv, PageTypes, Socket
  <2>2. CASE UNCHANGED pvars
    BY <2>2 DEF pvars
  <2> QED BY <2>1, <2>2, ServerStep, PageStep DEF PNext
<1> QED BY <1>1, <1>2, PageInvariance, PTL DEF PSpec, Spec

\* With pages that reload, poll and start again a task's output goes to the connection
\* opened last or to none, in order, and to no page of another task.
THEOREM PagesServed ==
  PSpec => [](/\ RoutingConsistent /\ ClosedIsUnrouted
              /\ RouteIsNewest /\ OwnOutputInOrder)
BY PagesImplement, RoutesCorrect, NoStaleRoutes, NewestServed, OutputCorrect, PTL
=============================================================================
