------------------------------ MODULE Sessions ------------------------------
(***************************************************************************)
(* What the server promises to its clients, connection by connection.      *)
(*                                                                         *)
(* At any moment exactly one party looks after a connection: the main loop *)
(* while it reads a request, the queue and then one worker once the        *)
(* request is complete, the main loop again while it writes the reply.  A  *)
(* reply that has been composed is delivered in full before the connection *)
(* reads its next request or is closed, unless the client has gone, or the *)
(* send buffer of its socket was full.                                     *)
(*                                                                         *)
(* The exception: a client that goes on after its last request was refused *)
(* may overtake the refusal.  Then a worker has the connection as well as  *)
(* the main loop, and if the loop is first, every promise is lost.         *)
(***************************************************************************)
EXTENDS Naturals

CONSTANTS
  Fds,       (* descriptors that connections may use                        *)
  Cut        (* those of them whose replies may be cut                      *)

VARIABLES
  phase,     (* who looks after each connection, and what for               *)
  answered   (* whether the reply composed last has been delivered entirely *)

vars == <<phase, answered>>

(* parting: the reply being written is the connection's last one. *)
Phases == {"free", "reading", "queued", "working", "replying", "parting",
           "closing", "overtaken", "lost"}

TypeOK ==
  /\ phase \in [Fds -> Phases]
  /\ answered \in [Fds -> BOOLEAN]

Init ==
  /\ phase = [fd \in Fds |-> "free"]
  /\ answered = [fd \in Fds |-> TRUE]

Move(fd, from, to) ==
  /\ phase[fd] \in from
  /\ phase' = [phase EXCEPT ![fd] = to]

Owe(fd) == answered' = [answered EXCEPT ![fd] = fd \in Cut]

Settle(fd) == answered' = [answered EXCEPT ![fd] = TRUE]

Open(fd)   == Move(fd, {"free"}, "reading") /\ UNCHANGED answered
Submit(fd) == Move(fd, {"reading"}, "queued") /\ UNCHANGED answered
Take(fd)   == Move(fd, {"queued"}, "working") /\ UNCHANGED answered

(* A worker answers, for good when the command is `quit'. *)
Answer(fd) == Owe(fd) /\ \E to \in {"replying", "parting"} : Move(fd, {"working"}, to)

(* A request that cannot be parsed is answered by an error and the last word. *)
Refuse(fd) == Move(fd, {"reading", "parting"}, "parting") /\ Owe(fd)

(* The reply has left entirely: the next request, or the end. *)
Deliver(fd) ==
  /\ Move(fd, {"replying"}, "reading") \/ Move(fd, {"parting"}, "closing")
  /\ Settle(fd)

(* The client has gone: nothing is owed to it. *)
Abandon(fd) ==
  /\ Move(fd, {"reading", "replying", "parting"}, "closing")
  /\ Settle(fd)

Close(fd) == answered[fd] /\ Move(fd, {"closing"}, "free") /\ UNCHANGED answered

(* The client goes on after the refusal, its request is answered as well,   *)
(* and the worker is done with it before the refusal has been written.      *)
Overtake(fd) == Move(fd, {"parting"}, "overtaken") /\ UNCHANGED answered
AnswerToo(fd) == phase[fd] = "overtaken" /\ Owe(fd) /\ UNCHANGED phase
Return(fd) == Move(fd, {"overtaken"}, "parting") /\ UNCHANGED answered

(* Or it is not. *)
Lose(fd) ==
  /\ phase[fd] = "overtaken"
  /\ phase' = [f \in Fds |-> "lost"]
  /\ answered' = [f \in Fds |-> TRUE]

Finish(fd) == Deliver(fd) \/ (phase[fd] # "reading" /\ Abandon(fd))

Next ==
  \E fd \in Fds :
    \/ Open(fd) \/ Submit(fd) \/ Take(fd) \/ Answer(fd) \/ Refuse(fd)
    \/ Deliver(fd) \/ Abandon(fd) \/ Close(fd)
    \/ Overtake(fd) \/ AnswerToo(fd) \/ Return(fd) \/ Lose(fd)

Safety == Init /\ [][Next]_vars

(* A request a worker has taken is answered; where the client takes its     *)
(* replies an answer leaves or its client has gone, and a connection that  *)
(* is to be closed is.                                                     *)
Spec ==
  /\ Safety
  /\ \A fd \in Fds : WF_vars(Answer(fd))
  /\ \A fd \in Fds \ Cut :
       WF_vars(Finish(fd)) /\ WF_vars(Close(fd)) /\ WF_vars(Return(fd) \/ Lose(fd))
=============================================================================
