------------------------------- MODULE Pages -------------------------------
(***************************************************************************)
(* The task pages (task.html, taskHelper.js) around the websocket server   *)
(* (WsConnMgr).                                                            *)
(*                                                                         *)
(* A page polls its task, starts and stops it, and keeps one variable ws:  *)
(* the connection it opened last.  Every call is a fetch of its own: calls *)
(* are served in any order and answered in any order, between the events of*)
(* the sockets.  What runs behind the calls is cut down to what the pages  *)
(* see of it: does the task run, is its output sent on.  The list of tasks *)
(* (index.html) sends the same commands and keeps nothing.                 *)
(***************************************************************************)
EXTENDS WsConnMgr, FiniteSets

CONSTANTS
  Browsers,   \* the tabs: each shows one page at a time
  NoTab,
  PageTasks,  \* bound: the tasks a page is opened for
  OtherSets,  \* the sets of connections that may be those of other clients
  MaxStarts,  \* bound: runs of a task
  MaxCalls,   \* bound: the user and the poll wait while so many calls are on their way
  MaxPageMsgs \* bound: outputs of a task where there are pages

ASSUME PagesAssumption ==
  /\ NoTab \notin Browsers
  /\ PageTasks \subseteq Tasks /\ OtherSets \subseteq SUBSET Hdls
  /\ MaxStarts \in Nat /\ MaxCalls \in Nat /\ MaxPageMsgs \in Nat

VARIABLES
  task,     \* a task: it runs, its output is sent on, its runs so far
  page,     \* a page: its data and its ws
  socket,   \* the browser's view of a connection: its page, the task, the readyState
  others,   \* the connections of clients that are no page here and do what they like
  calls     \* the calls on their way, with their answer

pageVars == <<task, page, socket, others, calls>>
pvars == <<vars, pageVars>>

NoPage == [state |-> "none", task |-> NoTask, running |-> FALSE, ws |-> NoHdl, redirecting |-> FALSE]
NoSocket == [tab |-> NoTab, task |-> NoTask, state |-> "none"]

\* Equal calls at the same stage count once (a bound).
Call(g, op) == [page |-> g, op |-> op, answer |-> "none"]
Calls == [page : Browsers, op : {"first", "get", "start", "enable"},
          answer : {"none", "running", "idle", "ok", "refused"}]

TaskState == [running : BOOLEAN, redirect : BOOLEAN, starts : Nat]
PageData == [state : {"none", "loading", "shown"}, task : Tasks \cup {NoTask},
             running : BOOLEAN, ws : Hdls \cup {NoHdl}, redirecting : BOOLEAN]
Socket == [tab : Browsers \cup {NoTab}, task : Tasks \cup {NoTask},
           state : {"none", "connecting", "open", "closing", "closed"}]

PageTypes ==
  /\ task \in [Tasks -> TaskState]
  /\ page \in [Browsers -> PageData]
  /\ socket \in [Hdls -> Socket]
  /\ others \in OtherSets
  /\ calls \subseteq Calls

\* No answer reaches the page that is loaded next in its tab.
PageTypeOK == PageTypes /\ \A c \in calls : page[c.page].state # "none"

PInit ==
  /\ Init
  /\ task = [t \in Tasks |-> [running |-> FALSE, redirect |-> FALSE, starts |-> 0]]
  /\ page = [g \in Browsers |-> NoPage]
  /\ socket = [h \in Hdls |-> NoSocket]
  /\ others \in OtherSets
  /\ calls = {}

-----------------------------------------------------------------------------
(* The tasks *)

\* Bound: without a connection for a page there is no page and no need of tasks.
WithPages == others # Hdls

StartsLeft(t) ==
  task[t].starts + Cardinality({c \in calls : c.op = "start" /\ c.answer = "none"}) < MaxStarts

\* The descriptors of a new run are not redirected.
NewRun(t) == task' = [task EXCEPT ![t] = [running |-> TRUE, redirect |-> FALSE, starts |-> @.starts + 1]]

TimerStarts(t) ==
  /\ WithPages /\ ~task[t].running /\ StartsLeft(t)
  /\ NewRun(t)
  /\ UNCHANGED <<vars, page, socket, others, calls>>

\* The last output of a run may come after its end.
RunEnds(t) ==
  /\ task[t].running
  /\ task' = [task EXCEPT ![t].running = FALSE]
  /\ UNCHANGED <<vars, page, socket, others, calls>>

\* A call takes effect.  A start is refused for a task that runs, and may fail for one
\* that does not.
Serve(c) ==
  LET t == page[c.page].task
      Answer(a) == calls' = (calls \ {c}) \cup {[c EXCEPT !.answer = a]} IN
  /\ c \in calls /\ c.answer = "none"
  /\ \/ c.op \in {"first", "get"} /\ Answer(IF task[t].running THEN "running" ELSE "idle")
        /\ UNCHANGED task
     \/ c.op = "start" /\ ~task[t].running /\ NewRun(t) /\ Answer("ok")
     \/ c.op = "enable" /\ task[t].running /\ Answer("ok")
        /\ task' = [task EXCEPT ![t].redirect = TRUE]
     \/ /\ c.op = "start" \/ (c.op = "enable" /\ ~task[t].running)
        /\ Answer("refused") /\ UNCHANGED task
  /\ UNCHANGED <<vars, page, socket, others>>

-----------------------------------------------------------------------------
(* The page *)

\* close(): nothing for a socket that is closed already.
Closing(s) == IF s.state \in {"connecting", "open"} THEN [s EXCEPT !.state = "closing"] ELSE s

CloseWs(g) == socket' = [h \in Hdls |-> IF h = page[g].ws THEN Closing(socket[h]) ELSE socket[h]]

Fresh == {h \in Hdls \ others : socket[h] = NoSocket}

\* openWs, after the closing of the connections in old.
OpenWs(g, old, p) ==
  \E h \in Fresh :
    /\ page' = [page EXCEPT ![g] = [p EXCEPT !.ws = h]]
    /\ socket' = [i \in Hdls |->
         IF i = h THEN [tab |-> g, task |-> page[g].task, state |-> "connecting"]
         ELSE IF i \in old THEN Closing(socket[i]) ELSE socket[i]]

\* created
PageOpens(g, t) ==
  /\ WithPages /\ page[g].state = "none"
  /\ page' = [page EXCEPT ![g] = [NoPage EXCEPT !.state = "loading", !.task = t]]
  /\ calls' = calls \cup {Call(g, "first")}
  /\ UNCHANGED <<vars, task, socket, others>>

\* Slip: the calls of a page outlive it, as promises kept by a page that is not reloaded.
PageClosesCallsLive(g) ==
  /\ page[g].state # "none"
  /\ page' = [page EXCEPT ![g] = NoPage]
  /\ socket' = [h \in Hdls |-> IF socket[h].tab = g THEN [socket[h] EXCEPT !.state = "closed"] ELSE socket[h]]
  /\ UNCHANGED <<vars, task, others, calls>>

\* The tab is closed or reloaded: its connections end, its calls are answered to nobody.
PageCloses(g) ==
  /\ page[g].state # "none"
  /\ page' = [page EXCEPT ![g] = NoPage]
  /\ socket' = [h \in Hdls |-> IF socket[h].tab = g THEN [socket[h] EXCEPT !.state = "closed"] ELSE socket[h]]
  /\ calls' = {c \in calls : c.page # g}
  /\ UNCHANGED <<vars, task, others>>

MayCall(g) == Cardinality({c \in calls : c.page = g}) < MaxCalls

\* Slip: the timer polls only while the page takes the task for idle.
PollWhileIdle(g) ==
  /\ page[g].state = "shown" /\ ~page[g].running /\ MayCall(g)
  /\ calls' = calls \cup {Call(g, "get")}
  /\ UNCHANGED <<vars, task, page, socket, others>>

\* setInterval, or what follows a stop, a deletion and an input: their callbacks call
\* getTask and change nothing else.
Poll(g) ==
  /\ page[g].state = "shown" /\ MayCall(g)
  /\ calls' = calls \cup {Call(g, "get")}
  /\ UNCHANGED <<vars, task, page, socket, others>>

\* The button starts by what the page has seen last, also before the first answer.
ClickStart(g) ==
  /\ page[g].state # "none" /\ ~page[g].running
  /\ StartsLeft(page[g].task) /\ MayCall(g)
  /\ calls' = calls \cup {Call(g, "start")}
  /\ UNCHANGED <<vars, task, page, socket, others>>

\* Slip: the connection of a run that has ended is kept.
GotTaskKeepsWs(g, c) ==
  LET p == [page[g] EXCEPT !.state = IF c.op = "first" THEN "shown" ELSE @,
                           !.running = (c.answer = "running")] IN
  IF c.op = "first" /\ p.running THEN OpenWs(g, {}, p)
  ELSE page' = [page EXCEPT ![g] = p] /\ UNCHANGED socket

\* getTask is answered: ws is closed if the task does not run, whichever run it was
\* opened for.  The first answer opens it.
GotTask(g, c) ==
  LET p == [page[g] EXCEPT !.state = IF c.op = "first" THEN "shown" ELSE @,
                           !.running = (c.answer = "running")] IN
  \/ /\ c.answer = "idle"
     /\ page' = [page EXCEPT ![g] = [p EXCEPT !.redirecting = @ /\ page[g].ws = NoHdl]]
     /\ CloseWs(g)
  \/ c.answer = "running" /\ c.op = "first" /\ OpenWs(g, {}, p)
  \/ /\ c.answer = "running" /\ c.op = "get"
     /\ page' = [page EXCEPT ![g] = p] /\ UNCHANGED socket

GotSwitch(g, c) == page' = [page EXCEPT ![g].redirecting = (c.answer = "ok")]

Answered(c) ==
  LET g == c.page IN
  /\ c \in calls /\ c.answer # "none"
  /\ \/ c.op \in {"first", "get"} /\ GotTask(g, c) /\ calls' = calls \ {c}
     \/ /\ c.op = "start"
        /\ IF c.answer = "ok"
           THEN OpenWs(g, {page[g].ws}, page[g])
           ELSE UNCHANGED <<page, socket>>
        /\ calls' = (calls \ {c}) \cup {Call(g, "get")}
     \/ /\ c.op = "enable"
        /\ GotSwitch(g, c)
        /\ calls' = calls \ {c} /\ UNCHANGED socket
  /\ UNCHANGED <<vars, task, others>>

-----------------------------------------------------------------------------
(* The sockets *)

\* onopen: the handshake is answered, the server may still have to call OnOpen.
WsOnOpen(h) ==
  /\ socket[h].state = "connecting"
  /\ socket' = [socket EXCEPT ![h].state = "open"]
  /\ calls' = calls \cup {Call(socket[h].tab, "enable")}
  /\ UNCHANGED <<vars, task, page, others>>

\* onclose, of whichever connection of the page.
WsOnClose(h) ==
  /\ socket[h].state = "closing" /\ conn[h].state # "open"
  /\ socket' = [socket EXCEPT ![h].state = "closed"]
  /\ page' = [page EXCEPT ![socket[h].tab].redirecting = FALSE]
  /\ UNCHANGED <<vars, task, others, calls>>

\* The server's side.  A connection given up while it was made may still come up.
Server(h) ==
  /\ \/ socket[h] # NoSocket /\ OnOpen(h, socket[h].task)
     \/ socket[h].state \in {"closing", "closed"} /\ Disconnect(h)
     \/ OnClose(h)
  /\ UNCHANGED pageVars

OtherClient(h) ==
  /\ h \in others
  /\ \/ \E t \in Tasks \cup {NoTask} : OnOpen(h, t)
     \/ Disconnect(h)
  /\ UNCHANGED pageVars

\* Other clients switch the redirection as they like.
Outputs ==
  /\ \/ \E t \in Tasks :
          /\ task[t].redirect \/ others # {}
          /\ WithPages => produced[t] < MaxPageMsgs
          /\ IOData(t)
     \/ WsIODataThread
  /\ UNCHANGED pageVars

PNext ==
  \/ \E t \in PageTasks : TimerStarts(t) \/ RunEnds(t)
  \/ \E c \in calls : Serve(c)
  \/ \E g \in Browsers, t \in PageTasks : PageOpens(g, t)
  \/ \E g \in Browsers : PageCloses(g) \/ Poll(g) \/ ClickStart(g)
  \/ \E c \in calls : Answered(c)
  \/ \E h \in Hdls : WsOnOpen(h) \/ WsOnClose(h) \/ Server(h)
  \/ \E h \in Hdls : OtherClient(h)
  \/ Outputs

PSpec == PInit /\ [][PNext]_pvars

\* Calls are served and answered, polls go on, closings are carried out.  Nothing is
\* assumed of the user, of the runs and of the outputs.
PFairSpec ==
  /\ PSpec
  /\ \A c \in Calls : WF_pvars(Serve(c)) /\ WF_pvars(Answered(c))
  /\ \A g \in Browsers : WF_pvars(Poll(g))
  /\ \A h \in Hdls : WF_pvars(Server(h)) /\ WF_pvars(WsOnOpen(h)) /\ WF_pvars(WsOnClose(h))

-----------------------------------------------------------------------------
(* What must hold *)

\* A page comes to know whether its task runs, however old the answers are that reach
\* it in between: when the task stays as it is, the page shows it so for good.
PageConverges ==
  \A g \in Browsers, t \in Tasks, r \in BOOLEAN :
    <>[](page[g].state = "shown" /\ page[g].task = t /\ task[t].running = r)
      => <>[](page[g].running = r)

\* When the runs of its task are over a page shows no redirection for good and its ws is
\* closed: no late answer to an enableRedirect and no late onopen brings it back.
IndicatorGoesOut ==
  \A g \in Browsers, t \in Tasks :
    <>[](page[g].state = "shown" /\ page[g].task = t /\ ~task[t].running)
      => <>[](/\ ~page[g].redirecting
              /\ page[g].ws # NoHdl => socket[page[g].ws].state = "closed")
=============================================================================
