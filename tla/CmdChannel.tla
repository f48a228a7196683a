----------------------------- MODULE CmdChannel -----------------------------
(***************************************************************************)
(* How a command of the user reaches the task manager and how the answer   *)
(* comes back: the handlers of the http server (http_mgr.cpp), any number  *)
(* of threads; the one socket to the task manager, guarded by sockMutex    *)
(* (awaitTaskMgrRes); frames of four bytes of length and a body, cut into  *)
(* pieces by the socket in any way (buffer_helper.cpp, util.cpp); the read *)
(* callback of the command thread (cmd_mgr.cpp, onCmdSockReadCb).          *)
(*                                                                         *)
(* When the task manager dies nobody starts it again.  A handler that is   *)
(* reading then gets a reset if its request was never read, and an end of  *)
(* file otherwise, on which readN spins for ever with the mutex held: no   *)
(* action of this module, and from then on no request is served.           *)
(***************************************************************************)
EXTENDS Commands, Sequences, SequencesExt

CONSTANTS
  Clients,   \* threads of the http server
  NoClient,
  NoCall,    \* no command
  BodyLen    \* bytes in the body of a frame

LenLen == 4  \* bytes of length in front of a body

ASSUME ChannelAssumption ==
  /\ NoClient \notin Clients
  /\ NoCall \notin CmdMsg
  /\ BodyLen \in Nat \ {0}

VARIABLES
  listed, running,   \* the tasks (Commands)
  mgr,               \* the task manager: up, dead, or dead of bytes it cannot parse
  phase,             \* where each handler is
  call,              \* the command it has been asked for
  got,               \* the bytes of the answer it has read
  lock,              \* the holder of sockMutex
  toMgr, toHttp,     \* the bytes on their way, in each direction
  buffer             \* BufferHelper of the command thread: length and content

taskVars == <<listed, running>>
httpVars == <<phase, call, got, lock>>
sockVars == <<toMgr, toHttp, buffer>>
vars == <<taskVars, mgr, httpVars, sockVars>>

-----------------------------------------------------------------------------
(* Frames *)

\* The k-th byte of the frame that carries msg.  for is auxiliary: whose request it
\* is, or answers.
Byte(msg, k, c) == [msg |-> msg, k |-> k, for |-> c]

FrameLen == LenLen + BodyLen

make(msg, c) == [k \in 1 .. FrameLen |-> Byte(msg, k, c)]

\* A frame made up of the bytes of one message in their order.
Intact(frame) == frame = make(frame[1].msg, frame[1].for)

NoBuffer == [length |-> <<>>, content |-> <<>>]

\* The buffer when these bytes of a frame have arrived: the length first, what there
\* is of the content behind it.
Partly(bytes) ==
  IF Len(bytes) <= LenLen THEN [length |-> bytes, content |-> <<>>]
  ELSE [length |-> SubSeq(bytes, 1, LenLen),
        content |-> SubSeq(bytes, LenLen + 1, Len(bytes))]

FrameAt(bytes, k) == SubSeq(bytes, (k - 1) * FrameLen + 1, k * FrameLen)

Filled(all, n) ==
  [frames |-> [k \in 1 .. n |-> FrameAt(all, k)],
   buffer |-> Partly(SubSeq(all, n * FrameLen + 1, Len(all)))]

\* Slip: the length of the last frame is kept for the next one.
FillKeepingLength(b, bytes) ==
  LET all == b.length \o b.content \o bytes
      n   == Len(all) \div FrameLen
  IN  IF n = 0 THEN Filled(all, n)
      ELSE [Filled(all, n) EXCEPT !.buffer.length = SubSeq(all, 1, LenLen)]

\* Slip: the content is complete one byte too late.
FillOneTooMany(b, bytes) ==
  LET all == b.length \o b.content \o bytes
  IN  Filled(all, (Len(all) - 1) \div FrameLen)

\* tryFullFill: every complete frame is handed out, the length and the content keep
\* what is left.
tryFullFill(b, bytes) ==
  LET all == b.length \o b.content \o bytes
  IN  Filled(all, Len(all) \div FrameLen)

\* Slip: the length is not cleared with the content.
FillByteKeepingLength(b, byte) ==
  IF Len(b.length) < LenLen
  THEN [b EXCEPT !.length = Append(@, byte)]
  ELSE LET content == Append(b.content, byte) IN
         IF Len(content) = BodyLen
         THEN [b EXCEPT !.content = <<>>, !.frames = Append(@, b.length \o content)]
         ELSE [b EXCEPT !.content = content]

\* The loop itself, one byte of it: into the length until that is complete, then into
\* the content; a complete frame is handed out and both start anew.
fullFillOne(b, byte) ==
  IF Len(b.length) < LenLen
  THEN [b EXCEPT !.length = Append(@, byte)]
  ELSE LET content == Append(b.content, byte) IN
         IF Len(content) = BodyLen
         THEN [length |-> <<>>, content |-> <<>>, frames |-> Append(b.frames, b.length \o content)]
         ELSE [b EXCEPT !.content = content]

\* One byte after the other; loop[k] is the state of the loop after k bytes.
FillLoop(b, bytes) ==
  LET loop[k \in 0 .. Len(bytes)] ==
        IF k = 0 THEN [length |-> b.length, content |-> b.content, frames |-> <<>>]
        ELSE fullFillOne(loop[k - 1], bytes[k])
      last == loop[Len(bytes)]
  IN  [frames |-> last.frames, buffer |-> [length |-> last.length, content |-> last.content]]

Bytes == [msg : CmdMsg \cup [status : Statuses], k : 1 .. FrameLen, for : Clients]

Phases == {"idle", "called", "locked", "reading"}

ChannelTypeOK ==
  /\ listed \subseteq TaskIds /\ running \subseteq TaskIds
  /\ mgr \in {"up", "dead", "garbled"}
  /\ phase \in [Clients -> Phases]
  /\ call \in [Clients -> CmdMsg \cup {NoCall}]
  /\ \A c \in Clients : (phase[c] = "idle") = (call[c] = NoCall)
  /\ got \in [Clients -> Seq(Bytes)]
  /\ lock \in Clients \cup {NoClient}
  /\ toMgr \in Seq(Bytes) /\ toHttp \in Seq(Bytes)
  /\ buffer.length \in Seq(Bytes) /\ buffer.content \in Seq(Bytes)
  /\ Len(buffer.length) <= LenLen /\ Len(buffer.content) < BodyLen

Init ==
  /\ listed = {} /\ running = {}
  /\ mgr = "up"
  /\ phase = [c \in Clients |-> "idle"]
  /\ call = [c \in Clients |-> NoCall]
  /\ got = [c \in Clients |-> <<>>]
  /\ lock = NoClient
  /\ toMgr = <<>> /\ toHttp = <<>>
  /\ buffer = NoBuffer

-----------------------------------------------------------------------------
(* The handlers of the http server *)

\* A request arrives and has a task id (it is answered 400 otherwise).
Request(c) ==
  /\ phase[c] = "idle"
  /\ \E msg \in CmdMsg : call' = [call EXCEPT ![c] = msg]
  /\ phase' = [phase EXCEPT ![c] = "called"]
  /\ UNCHANGED <<taskVars, mgr, got, lock, sockVars>>

\* Slip: no mutex.
NoMutex(c) ==
  /\ phase[c] = "called"
  /\ lock' = c
  /\ phase' = [phase EXCEPT ![c] = "locked"]
  /\ UNCHANGED <<taskVars, mgr, call, got, sockVars>>

Lock(c) ==
  /\ phase[c] = "called"
  /\ lock = NoClient
  /\ lock' = c
  /\ phase' = [phase EXCEPT ![c] = "locked"]
  /\ UNCHANGED <<taskVars, mgr, call, got, sockVars>>

\* The lock_guard and the handler go out of scope.
Leave(c) ==
  /\ lock' = NoClient
  /\ phase' = [phase EXCEPT ![c] = "idle"]
  /\ call' = [call EXCEPT ![c] = NoCall]
  /\ got' = [got EXCEPT ![c] = <<>>]

\* Slip: the handler gives up the mutex as soon as its request is written.
WriteAndUnlock(c) ==
  /\ phase[c] = "locked"
  /\ IF mgr = "up"
     THEN /\ toMgr' = toMgr \o make(call[c], c)
          /\ phase' = [phase EXCEPT ![c] = "reading"]
          /\ lock' = NoClient
          /\ UNCHANGED <<call, got>>
     ELSE Leave(c) /\ UNCHANGED toMgr
  /\ UNCHANGED <<taskVars, mgr, toHttp, buffer>>

\* writeOne; without a reader the write fails, and writeN throws.
WriteOne(c) ==
  /\ phase[c] = "locked"
  /\ IF mgr = "up"
     THEN /\ toMgr' = toMgr \o make(call[c], c)
          /\ phase' = [phase EXCEPT ![c] = "reading"]
          /\ UNCHANGED <<call, got, lock>>
     ELSE Leave(c) /\ UNCHANGED toMgr
  /\ UNCHANGED <<taskVars, mgr, toHttp, buffer>>

\* How many bytes readN still wants, first of the length and then of the body.
Wanted(c) ==
  IF Len(got[c]) < LenLen THEN LenLen - Len(got[c]) ELSE FrameLen - Len(got[c])

\* One read of readN: some of the bytes that are there, never more than wanted.
\* With the last one the answer is parsed and sent to the user.
ReadN(c, n) ==
  /\ phase[c] = "reading"
  /\ n \in 1 .. Wanted(c) /\ n <= Len(toHttp)
  /\ LET bytes == got[c] \o SubSeq(toHttp, 1, n) IN
       IF Len(bytes) = FrameLen
       THEN Leave(c)
       ELSE got' = [got EXCEPT ![c] = bytes] /\ UNCHANGED <<phase, call, lock>>
  /\ toHttp' = SubSeq(toHttp, n + 1, Len(toHttp))
  /\ UNCHANGED <<taskVars, mgr, toMgr, buffer>>

\* The task manager has died with the request unread: the read fails, once, and
\* readN throws.
ReadReset(c) ==
  /\ phase[c] = "reading"
  /\ mgr # "up" /\ toMgr # <<>> /\ toHttp = <<>>
  /\ toMgr' = <<>>
  /\ Leave(c)
  /\ UNCHANGED <<taskVars, mgr, toHttp, buffer>>

-----------------------------------------------------------------------------
(* The task manager *)

\* Slip: the status of the handler is not kept.
AlwaysAnswerOK(frame) ==
  \E o \in Outcomes(listed, running, frame[1].msg) :
    /\ listed' = o.listed /\ running' = o.running
    /\ toHttp' = toHttp \o make([status |-> "OK"], frame[1].for)
    /\ UNCHANGED mgr

\* Slip: an exception is logged and nobody is answered.
AnswerUnlessFailed(frame) ==
  \E o \in Outcomes(listed, running, frame[1].msg) :
    /\ listed' = o.listed /\ running' = o.running
    /\ toHttp' = IF o.status = "FAILED" THEN toHttp
                 ELSE toHttp \o make([status |-> o.status], frame[1].for)
    /\ UNCHANGED mgr

\* handleCmdMsg for a frame of the user: one outcome, one answer.
handleCmdMsg(frame) ==
  \E o \in Outcomes(listed, running, frame[1].msg) :
    /\ listed' = o.listed /\ running' = o.running
    /\ toHttp' = toHttp \o make([status |-> o.status], frame[1].for)
    /\ UNCHANGED mgr

\* onCmdSockReadCb with n bytes there.  A body that is no JSON, or no command, is an
\* exception nobody catches.  No more than one frame is completed at a time: a
\* handler sends nothing before it has its answer.
OnCmdSockRead(n) ==
  /\ mgr = "up"
  /\ n \in 1 .. Len(toMgr)
  /\ toMgr' = SubSeq(toMgr, n + 1, Len(toMgr))
  /\ LET b == tryFullFill(buffer, SubSeq(toMgr, 1, n)) IN
       /\ buffer' = b.buffer
       /\ \/ b.frames = <<>> /\ UNCHANGED <<taskVars, mgr, toHttp>>
          \/ Len(b.frames) = 1 /\ Intact(b.frames[1]) /\ handleCmdMsg(b.frames[1])
          \/ b.frames # <<>> /\ (Len(b.frames) > 1 \/ ~Intact(b.frames[1]))
             /\ mgr' = "garbled" /\ UNCHANGED <<taskVars, toHttp>>
  /\ UNCHANGED httpVars

\* Scripts end; a timer starts a task, and nobody is answered (doWriteBack = false).
Background ==
  /\ mgr = "up"
  /\ \/ \E t \in running : running' = running \ {t} /\ UNCHANGED listed
     \/ \E t \in TaskIds : \E o \in startTask(listed, running, t) :
          listed' = o.listed /\ running' = o.running
  /\ UNCHANGED <<mgr, httpVars, sockVars>>

\* The task manager ends, for whatever reason; what it has written can be read.
Crash ==
  /\ mgr = "up"
  /\ mgr' = "dead"
  /\ buffer' = NoBuffer
  /\ UNCHANGED <<taskVars, httpVars, toMgr, toHttp>>

Next ==
  \/ \E c \in Clients : Request(c)
  \/ \E c \in Clients : Lock(c)
  \/ \E c \in Clients : WriteOne(c)
  \/ \E c \in Clients, n \in 1 .. FrameLen : ReadN(c, n)
  \/ \E c \in Clients : ReadReset(c)
  \/ \E n \in 1 .. Len(toMgr) : OnCmdSockRead(n)
  \/ Background
  \/ Crash

Spec == Init /\ [][Next]_vars

\* A handler that can go on does; so does the command thread.
FairSpec ==
  /\ Spec
  /\ \A c \in Clients :
       /\ WF_vars(WriteOne(c))
       /\ WF_vars(\E n \in 1 .. FrameLen : ReadN(c, n))
  /\ WF_vars(\E n \in 1 .. Len(toMgr) : OnCmdSockRead(n))

-----------------------------------------------------------------------------
(* What must hold *)

\* tryFullFill hands out the frames and keeps the bytes that its loop does byte by byte:
\* for whatever the buffer holds, for what is on the socket and two more requests behind
\* it, and wherever a read cuts them off.
FillsAsTheLoop ==
  \A c \in Clients : call[c] # NoCall =>
    LET request == make(call[c], c)
        stream  == toMgr \o request \o request
    IN  \A n \in 0 .. Len(stream) :
          LET bytes == SubSeq(stream, 1, n)
          IN  tryFullFill(buffer, bytes) = FillLoop(buffer, bytes)

\* The bytes of a request arrive as they were sent, whatever pieces the socket cuts
\* them into and however many handlers there are: the command thread never dies of
\* a frame it cannot parse.
NeverGarbled == mgr # "garbled"

\* A handler only reads bytes of the answer to its own request.
ReadsOwnAnswer ==
  \A c \in Clients : \A i \in DOMAIN got[c] : got[c][i].for = c /\ got[c][i].k = i

\* What is on its way belongs to the handler that holds the mutex, and there is at
\* most one frame of it: without a reading handler the socket is empty in both
\* directions, so the next request starts on a clean socket.
SocketQuiet ==
  /\ \A c \in Clients : phase[c] \in {"locked", "reading"} => lock = c
  /\ mgr = "up" /\ (\A c \in Clients : phase[c] # "reading") =>
       toMgr = <<>> /\ toHttp = <<>> /\ buffer = NoBuffer

\* The status that the first byte for c tells, if there is one.
AnswerIn(bytes, c) ==
  LET mine == {i \in DOMAIN bytes : bytes[i].for = c}
  IN  IF mine = {} THEN "none" ELSE bytes[Min(mine)].msg.status

\* The promise of the http interface.  A call has taken effect when its answer is on
\* its way.
AnswerFor(c) == AnswerIn(got[c] \o toHttp, c)

Service ==
  INSTANCE TaskService WITH
    answer <- [c \in Clients |-> AnswerFor(c)], NoAnswer <- "none", up <- (mgr = "up")

\* A call takes effect once, between its arrival and its answer, and the answer is
\* its own.
ImplementsService == Service!Spec

\* The handler that holds the mutex is answered and lets the others go on, unless
\* the task manager ends.
HolderIsAnswered ==
  \A c \in Clients : (lock = c) ~> (lock # c \/ mgr # "up")
=============================================================================
