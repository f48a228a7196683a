------------------------------- MODULE IOMgr -------------------------------
(***************************************************************************)
(* The IO thread of the task manager process (io_mgr.cpp, io_mgr.hpp) and  *)
(* the file descriptors it shares with the command thread: the parent's    *)
(* ends of the three pipes of every script (script_helper.cpp).            *)
(*                                                                         *)
(* The command thread never touches the IO thread's table, it posts        *)
(* messages (addMsgEvent).  A message is a libevent timer that expires at  *)
(* once, so messages come in the order of their time stamps.  The stamps   *)
(* are those of a coarse clock, or of the last turn of the loop: messages  *)
(* that are posted together have the same one as often as not, and come in *)
(* any order.  A callback that throws ends the process; crash says which.  *)
(*                                                                         *)
(* This module has no specification of its own: TaskMgr composes it with   *)
(* the command thread.                                                     *)
(***************************************************************************)
EXTENDS Integers, Sequences, SequencesExt

CONSTANTS
  MaxFd,     \* file descriptors are 1 .. MaxFd (bounds the model)
  MaxPending, \* bound: nothing is posted while so many messages are pending
  MaxData,   \* bound: reads needed to empty the fullest pipe
  Written    \* bound: the outputs a script writes to (a set of OutKinds)

Fds == 1 .. MaxFd
OutKinds == {"stdout", "stderr"}

ASSUME IOAssumption ==
  MaxFd \in Nat /\ MaxPending \in Nat /\ MaxData \in Nat /\ Written \subseteq OutKinds

VARIABLES
  fds,         \* the descriptor table of the process
  fd2IOData,   \* TaskIOFdHelper: the task and the redirect switch of a descriptor
  ioQueue,     \* the message events that have not fired
  crash,       \* the exception or signal that ended the process, if any
  overtaken    \* auxiliary: a message has fired before an earlier one about its descriptor

ioVars == <<fds, fd2IOData, ioQueue, crash, overtaken>>

\* A descriptor: which end it is and of whose script, who holds the other end,
\* how much is in the pipe, and whether a bufferevent owns it.
Closed == [kind |-> "closed", task |-> 0, peer |-> "none", data |-> 0, bev |-> FALSE]

Pipe(kind, t) == [kind |-> kind, task |-> t, peer |-> "script", data |-> 0, bev |-> FALSE]

\* One that nobody knows any more.
Leaked == [Closed EXCEPT !.kind = "leaked"]

NoData == [task |-> 0, redirect |-> FALSE]

\* tie: same time stamp as the message before it.  task is auxiliary except in
\* an ADD_FD message: the task the sender was thinking of.
Message(type, fd, kind, t, tie) ==
  [msgType |-> type, fd |-> fd, fdType |-> kind, task |-> t, tie |-> tie]

Causes == {"none", "add", "remove", "redirect", "read", "sigpipe"}

IOTypeOK ==
  /\ fds \in [Fds -> [kind : {"closed", "leaked", "stdin"} \cup OutKinds, task : Nat,
                      peer : {"script", "descendant", "none"}, data : 0 .. MaxData,
                      bev : BOOLEAN]]
  /\ fd2IOData \in [Fds -> [task : Nat, redirect : BOOLEAN]]
  /\ ioQueue \in Seq([msgType : {"ADD_FD", "REMOVE_FD", "ENABLE_FD_REDIRECT",
                                 "DISABLE_FD_REDIRECT", "PUT_DATA_TO_FD"},
                      fd : Fds, fdType : {"stdin"} \cup OutKinds, task : Nat, tie : BOOLEAN])
  /\ crash \in Causes
  /\ overtaken \in BOOLEAN

IOInit ==
  /\ fds = [f \in Fds |-> Closed]
  /\ fd2IOData = [f \in Fds |-> NoData]
  /\ ioQueue = <<>>
  /\ crash = "none"
  /\ overtaken = FALSE

\* The process ends and with it all its descriptors.
IODown(cause) ==
  /\ fds' = [f \in Fds |-> Closed]
  /\ fd2IOData' = [f \in Fds |-> NoData]
  /\ ioQueue' = <<>>
  /\ crash' = cause

hasFd(f) == fd2IOData[f] # NoData

-----------------------------------------------------------------------------
(* Called by the command thread *)

\* addMsgEvent for several messages of one type; fdsOf names the descriptors.  The
\* clock may tick before each of them or not; the first of a queue has no other to
\* share its stamp with.
Post(type, kinds, fdsOf, t) ==
  \E tie \in [1 .. Len(kinds) -> BOOLEAN] :
    /\ Len(ioQueue) < MaxPending
    /\ ioQueue = <<>> => ~tie[1]
    /\ ioQueue' = ioQueue \o
         [i \in 1 .. Len(kinds) |-> Message(type, fdsOf[kinds[i]], kinds[i], t, tie[i])]

addFds(t, fdsOf) == Post("ADD_FD", <<"stdin", "stdout", "stderr">>, fdsOf, t)
removeFds(t, fdsOf) == Post("REMOVE_FD", <<"stdin", "stdout", "stderr">>, fdsOf, t)
enableRedirect(t, fdsOf) == Post("ENABLE_FD_REDIRECT", <<"stdout", "stderr">>, fdsOf, t)
disableRedirect(t, fdsOf) == Post("DISABLE_FD_REDIRECT", <<"stdout", "stderr">>, fdsOf, t)
putToStdin(t, fdsOf) == Post("PUT_DATA_TO_FD", <<"stdin">>, fdsOf, t)

FreeUpTo(f) == Cardinality({g \in 1 .. f : fds[g] = Closed})

\* The k-th lowest free descriptor: what pipe() hands out.
Free(k) == CHOOSE f \in Fds : fds[f] = Closed /\ FreeUpTo(f) = k

\* startScriptWithIORedir makes three pipes, six descriptors, and the parent keeps
\* one of each: the write end of the first, the read ends of the others.
KeptFds == [stdin |-> Free(2), stdout |-> Free(3), stderr |-> Free(5)]

\* The ends the child puts in the place of its descriptors 0, 1 and 2.
ChildFds == [stdin |-> Free(1), stdout |-> Free(4), stderr |-> Free(6)]

CanOpen == FreeUpTo(MaxFd) >= 6

\* The third pipe cannot be made, or the fork fails: what was opened stays open.
LeakPipes ==
  LET n == IF CanOpen THEN 6 ELSE 2 * (FreeUpTo(MaxFd) \div 2)
  IN  fds' = [f \in Fds |-> IF fds[f] = Closed /\ FreeUpTo(f) <= n THEN Leaked ELSE fds[f]]

\* One of the new pipes.  Its other end is gone if the child has closed that number.
NewPipe(kind, t, closed) ==
  [Pipe(kind, t) EXCEPT !.peer = IF ChildFds[kind] \in closed THEN "none" ELSE "script"]

\* The child closes some numbers first, in the belief that they are other tasks'.
OpenPipes(t, closed) ==
  fds' = [f \in Fds |->
            IF f = KeptFds.stdin THEN NewPipe("stdin", t, closed)
            ELSE IF f = KeptFds.stdout THEN NewPipe("stdout", t, closed)
            ELSE IF f = KeptFds.stderr THEN NewPipe("stderr", t, closed)
            ELSE fds[f]]

\* The script of t ends; processes it has started may keep its ends open.
ScriptEnds(t, left) ==
  fds' = [f \in Fds |-> IF fds[f].task = t /\ fds[f].peer = "script"
                        THEN [fds[f] EXCEPT !.peer = left] ELSE fds[f]]

-----------------------------------------------------------------------------
(* The callbacks of the IO thread *)

\* The messages whose event may be the next to fire.
Ready == {i \in DOMAIN ioQueue : \A j \in 2 .. i : ioQueue[j].tie}

Consume(i) ==
  ioQueue' = LET rest == RemoveAt(ioQueue, i)
             IN  IF i = 1 /\ rest # <<>> THEN [rest EXCEPT ![1].tie = FALSE] ELSE rest

AddFd(m) ==
  /\ fds' = [fds EXCEPT ![m.fd].bev = (m.fdType \in OutKinds)]
  /\ fd2IOData' = [fd2IOData EXCEPT ![m.fd] = [task |-> m.task, redirect |-> FALSE]]

\* Slip: the parent's end of the stdin pipe is closed with its entry.
RemoveFdCloses(m) ==
  /\ fd2IOData' = [fd2IOData EXCEPT ![m.fd] = NoData]
  /\ fds' = [fds EXCEPT ![m.fd] = IF m.fdType = "stdin" THEN Closed ELSE @]

\* The bufferevent is left alone: a comment says that it is gone by now.
RemoveFd(m) ==
  /\ fd2IOData' = [fd2IOData EXCEPT ![m.fd] = NoData]
  /\ UNCHANGED fds

SetRedirect(m, on) ==
  /\ fd2IOData' = [fd2IOData EXCEPT ![m.fd].redirect = on]
  /\ UNCHANGED fds

\* What the message does: ends the process for this cause, or changes the tables.
\* SIGPIPE has its default action: a write to a pipe nobody reads kills.
MsgCause(m) ==
  CASE m.msgType = "ADD_FD" -> IF hasFd(m.fd) THEN "add" ELSE "none"
    [] m.msgType = "REMOVE_FD" -> IF hasFd(m.fd) THEN "none" ELSE "remove"
    [] m.msgType = "PUT_DATA_TO_FD" ->
         IF hasFd(m.fd) /\ fds[m.fd].peer = "none" THEN "sigpipe" ELSE "none"
    [] OTHER -> IF hasFd(m.fd) THEN "none" ELSE "redirect"

Handle(m) ==
  \/ m.msgType = "ADD_FD" /\ AddFd(m)
  \/ m.msgType = "REMOVE_FD" /\ RemoveFd(m)
  \/ m.msgType = "ENABLE_FD_REDIRECT" /\ SetRedirect(m, TRUE)
  \/ m.msgType = "DISABLE_FD_REDIRECT" /\ SetRedirect(m, FALSE)
  \/ m.msgType = "PUT_DATA_TO_FD" /\ UNCHANGED <<fds, fd2IOData>>

Overtakes(i) == \E j \in 1 .. i - 1 : ioQueue[j].fd = ioQueue[i].fd

onMsgEventCb(i) ==
  /\ i \in Ready
  /\ overtaken' = (overtaken \/ Overtakes(i))
  /\ IF MsgCause(ioQueue[i]) = "none"
     THEN Handle(ioQueue[i]) /\ Consume(i) /\ UNCHANGED crash
     ELSE IODown(MsgCause(ioQueue[i]))

\* Slip: the pipe is read only while somebody watches.
ReadWhileRedirected(f) ==
  /\ fds[f].bev /\ fds[f].data > 0
  /\ IF hasFd(f)
     THEN /\ fd2IOData[f].redirect
          /\ fds' = [fds EXCEPT ![f].data = @ - 1]
          /\ UNCHANGED <<fd2IOData, ioQueue, crash, overtaken>>
     ELSE IODown("read") /\ UNCHANGED overtaken

\* onOutFdReadCb, onErrFdReadCb: one read of the pipe, sent on if the switch of
\* the descriptor is on.
fdReadDelegate(f) ==
  /\ fds[f].bev /\ fds[f].data > 0
  /\ IF hasFd(f)
     THEN fds' = [fds EXCEPT ![f].data = @ - 1] /\ UNCHANGED <<fd2IOData, ioQueue, crash, overtaken>>
     ELSE IODown("read") /\ UNCHANGED overtaken

\* Slip: the end of file also drops the entry the command thread will remove.
EOFRemovesEntry(f) ==
  /\ fds[f].bev /\ fds[f].data = 0 /\ fds[f].peer = "none"
  /\ fds' = [fds EXCEPT ![f] = Closed]
  /\ fd2IOData' = [fd2IOData EXCEPT ![f] = NoData]
  /\ UNCHANGED <<ioQueue, crash, overtaken>>

\* Slip: BEV_OPT_CLOSE_ON_FREE is forgotten.
EOFKeepsOpen(f) ==
  /\ fds[f].bev /\ fds[f].data = 0 /\ fds[f].peer = "none"
  /\ fds' = [fds EXCEPT ![f].bev = FALSE]
  /\ UNCHANGED <<fd2IOData, ioQueue, crash, overtaken>>

\* End of file: the bufferevent is freed and closes its descriptor, whose number
\* is free from now on.
onFdEventCb(f) ==
  /\ fds[f].bev /\ fds[f].data = 0 /\ fds[f].peer = "none"
  /\ fds' = [fds EXCEPT ![f] = Closed]
  /\ UNCHANGED <<fd2IOData, ioQueue, crash, overtaken>>

-----------------------------------------------------------------------------
(* The other ends of the pipes *)

ScriptWrites(f) ==
  /\ fds[f].kind \in Written /\ fds[f].peer # "none"
  /\ fds[f].data < MaxData
  /\ fds' = [fds EXCEPT ![f].data = @ + 1]
  /\ UNCHANGED <<fd2IOData, ioQueue, crash, overtaken>>

\* The processes the scripts of t have left behind end.
DescendantsEnd(t) ==
  /\ \E f \in Fds : fds[f].task = t /\ fds[f].peer = "descendant"
  /\ fds' = [f \in Fds |-> IF fds[f].task = t /\ fds[f].peer = "descendant"
                           THEN [fds[f] EXCEPT !.peer = "none"] ELSE fds[f]]
  /\ UNCHANGED <<fd2IOData, ioQueue, crash, overtaken>>
=============================================================================
