---------------------------- MODULE TaskService ----------------------------
(***************************************************************************)
(* What the http interface promises (abstract): a call takes effect once,  *)
(* at one moment between its arrival and its answer, and the answer is the *)
(* outcome of that very call.  CmdChannel implements it.                   *)
(***************************************************************************)
EXTENDS Commands

CONSTANTS Clients, NoCall, NoAnswer

VARIABLES
  listed, running,   \* the tasks
  call,              \* the command each client waits for, NoCall if none
  answer,            \* the status it has led to, NoAnswer before
  up                 \* the task manager runs

vars == <<listed, running, call, answer, up>>

Init ==
  /\ listed = {} /\ running = {}
  /\ call = [c \in Clients |-> NoCall]
  /\ answer = [c \in Clients |-> NoAnswer]
  /\ up = TRUE

Call(c) ==
  /\ call[c] = NoCall
  /\ \E msg \in CmdMsg : call' = [call EXCEPT ![c] = msg]
  /\ UNCHANGED <<listed, running, answer, up>>

\* The call takes effect.
Perform(c) ==
  /\ up
  /\ call[c] # NoCall /\ answer[c] = NoAnswer
  /\ \E o \in Outcomes(listed, running, call[c]) :
       /\ listed' = o.listed /\ running' = o.running
       /\ answer' = [answer EXCEPT ![c] = o.status]
  /\ UNCHANGED <<call, up>>

\* The client gets its answer; without a task manager it may also be told of an
\* error, or wait for ever.
Return(c) ==
  /\ call[c] # NoCall
  /\ answer[c] # NoAnswer \/ ~up
  /\ call' = [call EXCEPT ![c] = NoCall]
  /\ answer' = [answer EXCEPT ![c] = NoAnswer]
  /\ UNCHANGED <<listed, running, up>>

\* Scripts end and timers start them again.
Background ==
  /\ up
  /\ \/ \E t \in running : running' = running \ {t} /\ UNCHANGED listed
     \/ \E t \in TaskIds : \E o \in startTask(listed, running, t) :
          listed' = o.listed /\ running' = o.running
  /\ UNCHANGED <<call, answer, up>>

Crash ==
  /\ up
  /\ up' = FALSE
  /\ UNCHANGED <<listed, running, call, answer>>

Next ==
  \/ \E c \in Clients : Call(c) \/ Perform(c) \/ Return(c)
  \/ Background
  \/ Crash

Spec == Init /\ [][Next]_vars
=============================================================================
