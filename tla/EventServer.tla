---------------------------- MODULE EventServer -----------------------------
(***************************************************************************)
(* The server: clients and the kernel, the main loop (mainLoop, the poll   *)
(* of cevent.c over epoll, the event procedures of network.c), the queue   *)
(* of fired events and the workers (process_event, process_commond).       *)
(*                                                                         *)
(* The main loop accepts, reads and parses; a complete request has its     *)
(* read event removed, is pushed on the queue, and a worker is called.     *)
(* The worker executes the command, appends the reply and arms the write   *)
(* event; the main loop writes the reply and re-arms the read event.       *)
(*                                                                         *)
(* Locks.  cevents_poll holds cevts->lock during epoll_wait, which is the  *)
(* only long critical section: it is the control point "polling".  The     *)
(* other critical sections, under cevts->lock or qlock, are single steps.  *)
(*                                                                         *)
(* Every registration of an open connection has CEV_PERSIST                *)
(* (ConnectionCount below), so the branches of cevent.c and network.c for  *)
(* events without it are dead and not modelled.                            *)
(*                                                                         *)
(* A refused connection goes on being read until it is closed, and what    *)
(* follows the refusal may complete a request.  When the main loop then    *)
(* writes the refusal, it clears the connection in the hands of a worker:  *)
(* argv is freed and set to NULL, and the next write event frees the       *)
(* connection itself.  What the program does from there on is undefined:   *)
(* the loop is "astray", nothing moves any more, and no property speaks of *)
(* it but Undisturbed, which says that this does not happen, and fails.    *)
(***************************************************************************)
EXTENDS Naturals, Sequences, FiniteSets

CONSTANTS
  Fds,                 (* descriptors accept may return                      *)
  NoFd,                (* no descriptor                                      *)
  Listen,              (* the listening descriptor, svr->in_fd               *)
  Workers,             (* the threads of the pool                            *)
  ReplyLen,            (* units of a reply; a write moves at least one       *)
  MaxBacklog,          (* bound: connections waiting to be accepted          *)
  MaxOwed,             (* bound: a client owed this much sends nothing       *)
  MayBlock             (* the sockets whose send buffer can fill up          *)

ASSUME NamesAssumption ==
  /\ NoFd \notin Fds /\ Listen \notin Fds /\ NoFd # Listen
  /\ IsFiniteSet(Fds)
ASSUME BoundsAssumption ==
  /\ ReplyLen \in Nat \ {0}
  /\ MaxBacklog \in Nat
  /\ MaxOwed \in Nat
  /\ MayBlock \subseteq Fds

VARIABLES
  (* clients and kernel *)
  backlog,      (* connections completed and not yet accepted                *)
  peer,         (* what the client of a connection has closed                *)
  data,         (* whether a socket has unread bytes                         *)
  owed,         (* units of replies composed that the client has not been sent *)
  (* the table of events and the connections *)
  evmask,       (* events[fd].mask                                           *)
  wproc,        (* events[fd].write_proc                                     *)
  live,         (* whether fd is open and has its cio                        *)
  flag,         (* io->flag & IOF_CLOSE_AFTER_WRITE                          *)
  wcount,       (* io->wcount                                                *)
  connections,  (* svr->connections                                          *)
  queue,        (* cevts->fired_queue                                        *)
  (* the main loop *)
  mpc,          (* where it is, or "astray"                                  *)
  fired,        (* cevts->fired: the events of this batch still to be handled *)
  cur,          (* the descriptor of the batch whose read part is done       *)
  (* the workers *)
  status,       (* as in WorkerPool                                          *)
  pending,      (* calls of cthr_pool_run_task the main loop has yet to make *)
  at,           (* where a running worker is in process_event                *)
  job           (* the connection a running worker has popped                *)

client == <<backlog, peer, data>>
conns  == <<evmask, wproc, live, flag, wcount, connections>>
main   == <<mpc, fired, cur>>
pool   == <<status, pending, at, job>>
vars   == <<client, owed, conns, queue, main, pool>>

Pool == INSTANCE WorkerPool WITH open <- TRUE

Masks == SUBSET {"R", "W", "P"}

TypeOK ==
  /\ backlog \in 0 .. MaxBacklog
  /\ peer \in [Fds -> {"open", "half", "gone"}]
  /\ data \in [Fds -> BOOLEAN]
  /\ owed \in [Fds -> Nat]
  /\ evmask \in [Fds -> Masks]
  /\ wproc \in [Fds -> {"none", "write", "close"}]
  /\ live \in [Fds -> BOOLEAN]
  /\ flag \in [Fds -> BOOLEAN]
  /\ wcount \in [Fds -> Nat]
  /\ connections \in Nat
  /\ queue \in Seq(Fds)
  /\ mpc \in {"poll", "polling", "batch", "tasks", "astray"}
  /\ fired \in [Fds \cup {Listen} -> SUBSET {"R", "W"}]
  /\ cur \in Fds \cup {NoFd}
  /\ status \in [Workers -> Pool!Status]
  /\ pending \in Nat
  /\ at \in [Workers -> {"pop", "exec", "arm"}]
  /\ job \in [Workers -> Fds \cup {NoFd}]

Quiet == [f \in Fds \cup {Listen} |-> {}]

Init ==
  /\ backlog = 0
  /\ peer = [fd \in Fds |-> "open"]
  /\ data = [fd \in Fds |-> FALSE]
  /\ owed = [fd \in Fds |-> 0]
  /\ evmask = [fd \in Fds |-> {}]
  /\ wproc = [fd \in Fds |-> "none"]
  /\ live = [fd \in Fds |-> FALSE]
  /\ flag = [fd \in Fds |-> FALSE]
  /\ wcount = [fd \in Fds |-> 0]
  /\ connections = 0
  /\ queue = <<>>
  /\ mpc = "poll"
  /\ fired = Quiet
  /\ cur = NoFd
  /\ Pool!Init
  /\ at = [w \in Workers |-> "pop"]
  /\ job = [w \in Workers |-> NoFd]

-----------------------------------------------------------------------------
(* Who looks after a connection *)

InQueue(fd) == \E i \in DOMAIN queue : queue[i] = fd

HeldBy(w, fd) == status[w] = "running" /\ at[w] # "pop" /\ job[w] = fd

Held(fd) == \E w \in Workers : HeldBy(w, fd)

Taken(fd) == InQueue(fd) \/ Held(fd)

Sane == mpc # "astray"

-----------------------------------------------------------------------------
(* Clients *)

Connect ==
  /\ Sane
  /\ backlog < MaxBacklog
  /\ backlog' = backlog + 1
  /\ UNCHANGED <<peer, data, owed, conns, queue, main, pool>>

(* Any bytes: the rest of a request, a request, or nonsense. *)
Send(fd) ==
  /\ Sane
  /\ live[fd] /\ peer[fd] = "open" /\ ~data[fd]
  /\ owed[fd] < MaxOwed
  /\ data' = [data EXCEPT ![fd] = TRUE]
  /\ UNCHANGED <<backlog, peer, owed, conns, queue, main, pool>>

(* The client stops sending, and may still read; or it goes altogether. *)
Hangup(fd) ==
  /\ Sane
  /\ live[fd]
  /\ \/ peer[fd] = "open" /\ peer' = [peer EXCEPT ![fd] = "half"]
     \/ peer[fd] # "gone" /\ peer' = [peer EXCEPT ![fd] = "gone"]
  /\ UNCHANGED <<backlog, data, owed, conns, queue, main, pool>>

-----------------------------------------------------------------------------
(* The main loop: cevents_poll *)

PollEnter ==
  /\ mpc = "poll"
  /\ mpc' = "polling"
  /\ UNCHANGED <<client, owed, conns, queue, fired, cur, pool>>

Readable(fd) == data[fd] \/ peer[fd] # "open"

(* What epoll_wait reports of one socket, `room' saying whether the send     *)
(* buffer takes at least one unit.                                          *)
EventsReadFirst(fd, room) ==       (* mutant: else-if between the two bits *)
  {e \in evmask[fd] : \/ e = "R" /\ Readable(fd)
                      \/ e = "W" /\ room /\ ~("R" \in evmask[fd] /\ Readable(fd))}

Events(fd, room) ==
  {e \in evmask[fd] : \/ e = "R" /\ Readable(fd)
                      \/ e = "W" /\ room}

Ready(blocked) ==
  [f \in Fds \cup {Listen} |->
     IF f = Listen THEN {e \in {"R"} : backlog > 0}
                   ELSE Events(f, f \notin blocked)]

(* A wait that reports nothing is one that timed out. *)
PollReturn ==
  /\ mpc = "polling"
  /\ \E blocked \in SUBSET {fd \in MayBlock : peer[fd] # "gone"} :
       fired' = Ready(blocked)
  /\ mpc' = "batch"
  /\ UNCHANGED <<client, owed, conns, queue, cur, pool>>

(* The read part of an entry comes before its write part, and both before *)
(* the next entry.                                                        *)
InBatch(fd, part) ==
  /\ mpc = "batch"
  /\ part \in fired[fd]
  /\ cur = NoFd \/ cur = fd
  /\ part = "W" => "R" \notin fired[fd]

(* Each write procedure clears the connection or destroys it. *)
Handled(fd, part) ==
  /\ fired' = [fired EXCEPT ![fd] = @ \ {part}]
  /\ cur' = IF part = "R" /\ "W" \in fired[fd] THEN fd ELSE NoFd
  /\ mpc' = IF part = "W" /\ Taken(fd) THEN "astray" ELSE "batch"

EndBatch ==
  /\ mpc = "batch"
  /\ fired = Quiet
  /\ mpc' = "tasks"
  /\ UNCHANGED <<client, owed, conns, queue, fired, cur, pool>>

(* mainLoop: one call of the pool for every event pushed, whatever becomes *)
(* of the call; then the next round.                                       *)
RunTask ==
  /\ mpc = "tasks"
  /\ Pool!Drop \/ \E w \in Workers : Pool!Call(w)
  /\ UNCHANGED <<client, owed, conns, queue, main, at, job>>

NextRound ==
  /\ mpc = "tasks"
  /\ pending = 0
  /\ mpc' = "poll"
  /\ UNCHANGED <<client, owed, conns, queue, fired, cur, pool>>
-----------------------------------------------------------------------------
(* The main loop: tcp_accept_event_proc *)

(* accept may return any descriptor that is not in use.  Nothing resets the *)
(* write procedure the descriptor had before.                               *)
Accept(fd) ==
  /\ InBatch(Listen, "R")
  /\ ~live[fd]
  /\ live' = [live EXCEPT ![fd] = TRUE]
  /\ evmask' = [evmask EXCEPT ![fd] = @ \cup {"R", "P"}]
  /\ owed' = [owed EXCEPT ![fd] = 0]
  /\ connections' = connections + 1
  /\ backlog' = backlog - 1
  /\ Handled(Listen, "R")
  /\ UNCHANGED <<peer, data, wproc, flag, wcount, queue, pool>>

AcceptFailsCounted ==              (* mutant: counts before it looks *)
  /\ InBatch(Listen, "R")
  /\ connections' = connections + 1
  /\ Handled(Listen, "R")
  /\ UNCHANGED <<client, owed, evmask, wproc, live, flag, wcount, queue, pool>>

(* No descriptor is left, and the connection stays in the backlog; or it has *)
(* been aborted, and leaves it.                                             *)
AcceptFails ==
  /\ InBatch(Listen, "R")
  /\ backlog' \in {backlog, backlog - 1}
  /\ Handled(Listen, "R")
  /\ UNCHANGED <<peer, data, owed, conns, queue, pool>>

-----------------------------------------------------------------------------
(* The main loop: read_event_proc *)

(* read takes all there is; what it means is for the parser to say. *)
TakeBytes(fd) ==
  /\ data[fd]
  /\ data' = [data EXCEPT ![fd] = FALSE]

(* The request goes on: wait for more. *)
ReadMore(fd) ==
  /\ InBatch(fd, "R")
  /\ TakeBytes(fd)
  /\ Handled(fd, "R")
  /\ UNCHANGED <<backlog, peer, owed, conns, queue, pool>>

KeepReading(fd) == UNCHANGED evmask        (* mutant: READ is not deleted *)

StopReading(fd) == evmask' = [evmask EXCEPT ![fd] = @ \ {"R"}]

(* cevents_push_fired pushes on the left, cevents_pop_fired pops on the right. *)
PushFired(fd) == queue' = Append(queue, fd)

(* The request is complete: no more reading, to the queue, one more call.   *)
(* Nobody asks whether an earlier one was refused: the parser has kept the  *)
(* bulks it took before, and starts again at the head of rbuf.              *)
ReadRequest(fd) ==
  /\ InBatch(fd, "R")
  /\ TakeBytes(fd)
  /\ StopReading(fd)
  /\ PushFired(fd)
  /\ Pool!Submit
  /\ Handled(fd, "R")
  /\ UNCHANGED <<backlog, peer, owed, wproc, live, flag, wcount, connections, at, job>>

ArmWriteOnly(fd) ==                (* mutant: the procedure stays as it was *)
  /\ evmask' = [evmask EXCEPT ![fd] = @ \cup {"W"}]
  /\ UNCHANGED wproc

(* cevents_add_event(CEV_WRITE, write_event_proc). *)
ArmWrite(fd) ==
  /\ evmask' = [evmask EXCEPT ![fd] = @ \cup {"W"}]
  /\ wproc' = [wproc EXCEPT ![fd] = "write"]

(* The request makes no sense: an error reply, and the flag that closes the *)
(* connection after it.  The read event stays on.                           *)
ReadRefused(fd) ==
  /\ InBatch(fd, "R")
  /\ TakeBytes(fd)
  /\ flag' = [flag EXCEPT ![fd] = TRUE]
  /\ wcount' = [wcount EXCEPT ![fd] = @ + ReplyLen]
  /\ owed' = [owed EXCEPT ![fd] = @ + ReplyLen]
  /\ ArmWrite(fd)
  /\ Handled(fd, "R")
  /\ UNCHANGED <<backlog, peer, live, connections, queue, pool>>

InstallNothing(fd) ==              (* mutant: the write event is not armed *)
  /\ evmask' = [evmask EXCEPT ![fd] = @ \ {"R"}]
  /\ wproc' = [wproc EXCEPT ![fd] = "close"]

(* cio_close_destroy_install: the next write event destroys the connection. *)
InstallClose(fd) ==
  /\ evmask' = [evmask EXCEPT ![fd] = (@ \cup {"W", "P"}) \ {"R"}]
  /\ wproc' = [wproc EXCEPT ![fd] = "close"]

CloseAnyway(fd) == InstallClose(fd)  (* mutant: the flag is not looked at *)

CloseUnlessFlagged(fd) ==
  IF flag[fd] THEN UNCHANGED <<evmask, wproc>> ELSE InstallClose(fd)

(* End of file, or the connection was reset.  A connection that closes after *)
(* its reply is left alone.                                                  *)
ReadEnd(fd) ==
  /\ InBatch(fd, "R")
  /\ peer[fd] = "gone" \/ (peer[fd] = "half" /\ ~data[fd])
  /\ CloseUnlessFlagged(fd)
  /\ Handled(fd, "R")
  /\ UNCHANGED <<client, owed, live, flag, wcount, connections, queue, pool>>

-----------------------------------------------------------------------------
(* The main loop: write_event_proc, cio_close_destroy *)

Writing(fd, procedure) ==
  /\ InBatch(fd, "W")
  /\ wproc[fd] = procedure

(* cio_clear, as far as it matters here: what has not been written is lost. *)
ClearIo(fd) ==
  /\ wcount' = [wcount EXCEPT ![fd] = 0]
  /\ flag' = [flag EXCEPT ![fd] = FALSE]

ReadAgain(fd) ==
  /\ evmask' = [evmask EXCEPT ![fd] = (@ \cup {"R", "P"}) \ {"W"}]
  /\ UNCHANGED wproc

AfterClearedFlag(fd) == ReadAgain(fd)   (* mutant: cio_clear before the test *)

AfterNoRead(fd) ==                      (* mutant: the read event stays deleted *)
  IF flag[fd] THEN InstallClose(fd)
  ELSE evmask' = [evmask EXCEPT ![fd] = @ \ {"W"}] /\ UNCHANGED wproc

AfterReply(fd) == IF flag[fd] THEN InstallClose(fd) ELSE ReadAgain(fd)

(* response.  write stops at EAGAIN when the buffer is full; the persistent *)
(* connection goes on as if everything had been written.                    *)
WriteReply(fd) ==
  /\ Writing(fd, "write")
  /\ \E n \in 1 .. wcount[fd] :
       /\ n = wcount[fd] \/ fd \in MayBlock
       /\ owed' = [owed EXCEPT ![fd] = @ - n]
  /\ ClearIo(fd)
  /\ AfterReply(fd)
  /\ Handled(fd, "W")
  /\ UNCHANGED <<client, live, connections, queue, pool>>

(* write fails: nothing can be owed to that client any more. *)
WriteFails(fd) ==
  /\ Writing(fd, "write")
  /\ peer[fd] = "gone"
  /\ owed' = [owed EXCEPT ![fd] = 0]
  /\ ClearIo(fd)
  /\ InstallClose(fd)
  /\ Handled(fd, "W")
  /\ UNCHANGED <<client, live, connections, queue, pool>>

(* The descriptor is free again, its write procedure stays in the table. *)
Destroy(fd) ==
  /\ Writing(fd, "close")
  /\ evmask' = [evmask EXCEPT ![fd] = {}]
  /\ connections' = connections - 1
  /\ live' = [live EXCEPT ![fd] = FALSE]
  /\ ClearIo(fd)
  /\ peer' = [peer EXCEPT ![fd] = "open"]
  /\ data' = [data EXCEPT ![fd] = FALSE]
  /\ Handled(fd, "W")
  /\ UNCHANGED <<backlog, owed, wproc, queue, pool>>

-----------------------------------------------------------------------------
(* The workers: process_event *)

WorkerOnly == Sane /\ UNCHANGED <<client, main>>

Park(w) ==
  /\ Pool!Park(w)
  /\ WorkerOnly
  /\ UNCHANGED <<owed, conns, queue, at, job>>

StartTask(w) ==
  /\ Pool!Run(w)
  /\ at' = [at EXCEPT ![w] = "pop"]
  /\ WorkerOnly
  /\ UNCHANGED <<owed, conns, queue, job>>

Working(w, where) == status[w] = "running" /\ at[w] = where

PopFiredButLast(w) ==              (* mutant: the last one is never popped *)
  /\ Working(w, "pop")
  /\ Len(queue) > 1
  /\ queue' = Tail(queue)
  /\ job' = [job EXCEPT ![w] = Head(queue)]
  /\ at' = [at EXCEPT ![w] = "exec"]
  /\ WorkerOnly
  /\ UNCHANGED <<owed, conns, status, pending>>

PopFired(w) ==
  /\ Working(w, "pop")
  /\ queue # <<>>
  /\ queue' = Tail(queue)
  /\ job' = [job EXCEPT ![w] = Head(queue)]
  /\ at' = [at EXCEPT ![w] = "exec"]
  /\ WorkerOnly
  /\ UNCHANGED <<owed, conns, status, pending>>

(* An empty queue ends the task. *)
PopNothing(w) ==
  /\ Working(w, "pop")
  /\ queue = <<>>
  /\ Pool!Finish(w)
  /\ WorkerOnly
  /\ UNCHANGED <<owed, conns, queue, at, job>>

(* process_commond up to the reply: every command appends one, and `quit' *)
(* also sets the flag.                                                    *)
Execute(w) ==
  /\ Working(w, "exec")
  /\ LET fd == job[w] IN
       /\ \E quit \in BOOLEAN : flag' = [flag EXCEPT ![fd] = @ \/ quit]
       /\ wcount' = [wcount EXCEPT ![fd] = @ + ReplyLen]
       /\ owed' = [owed EXCEPT ![fd] = @ + ReplyLen]
  /\ at' = [at EXCEPT ![w] = "arm"]
  /\ WorkerOnly
  /\ UNCHANGED <<evmask, wproc, live, connections, queue, status, pending, job>>

(* _reply arms the write event, under the lock that the poll holds; after *)
(* this the worker does not look at the connection again.                 *)
Reply(w) ==
  /\ Working(w, "arm")
  /\ mpc # "polling"
  /\ ArmWrite(job[w])
  /\ at' = [at EXCEPT ![w] = "pop"]
  /\ job' = [job EXCEPT ![w] = NoFd]
  /\ WorkerOnly
  /\ UNCHANGED <<owed, live, flag, wcount, connections, queue, status, pending>>

-----------------------------------------------------------------------------
Clients == Connect \/ \E fd \in Fds : Send(fd) \/ Hangup(fd)

MainLoop ==
  \/ PollEnter \/ PollReturn \/ EndBatch \/ RunTask \/ NextRound
  \/ AcceptFails
  \/ \E fd \in Fds :
       \/ Accept(fd) \/ ReadMore(fd) \/ ReadRequest(fd) \/ ReadRefused(fd) \/ ReadEnd(fd)
       \/ WriteReply(fd) \/ WriteFails(fd) \/ Destroy(fd)

Worker(w) ==
  \/ Park(w) \/ StartTask(w) \/ PopFired(w) \/ PopNothing(w)
  \/ Execute(w) \/ Reply(w)

(* Whatever it does, nothing is said of it. *)
Undefined == ~Sane /\ UNCHANGED vars

Next == Clients \/ MainLoop \/ (\E w \in Workers : Worker(w)) \/ Undefined

(* The main loop and the workers are scheduled; clients do as they like.    *)
(* A worker that wants cevts->lock gets it although the main loop holds it  *)
(* most of the time: cevents_poll sleeps after every round to let it.       *)
Fairness ==
  /\ WF_vars(MainLoop)
  /\ \A w \in Workers : WF_vars(Worker(w)) /\ SF_vars(Reply(w))

Spec == Init /\ [][Next]_vars /\ Fairness

-----------------------------------------------------------------------------
(* The main loop never clears or destroys a connection while its request is *)
(* in the queue or with a worker.  A client that goes on after a refusal   *)
(* makes it do so.                                                         *)
Undisturbed == Sane

(* A connection whose request waits for a worker or is with one is in the  *)
(* queue once or with one worker, never both.  It is open and not read from, *)
(* and the main loop has no event of it armed or at hand but the one that  *)
(* writes the refusal of an earlier request.                               *)
OneOwner == Sane =>
  \A fd \in Fds :
    /\ \A i, j \in DOMAIN queue : queue[i] = fd /\ queue[j] = fd => i = j
    /\ \A v, w \in Workers : HeldBy(v, fd) /\ HeldBy(w, fd) => v = w
    /\ ~(InQueue(fd) /\ Held(fd))
    /\ Taken(fd) =>
         /\ live[fd] /\ "R" \notin evmask[fd] \cup fired[fd]
         /\ "W" \in evmask[fd] \cup fired[fd] => flag[fd] /\ wproc[fd] = "write"

(* Bytes that wait to be written, with no worker about to arm the write    *)
(* event, have it armed, and with the procedure that writes.               *)
ReplyArmed == Sane =>
  \A fd \in Fds : live[fd] /\ wcount[fd] > 0 /\ ~Held(fd) =>
    "W" \in evmask[fd] /\ wproc[fd] = "write"

(* svr->connections, which two code paths change, counts the connections   *)
(* that are open, and exactly these are registered with the poll.          *)
ConnectionCount == Sane =>
  /\ connections = Cardinality({fd \in Fds : live[fd]})
  /\ \A fd \in Fds : IF live[fd] THEN "P" \in evmask[fd] ELSE evmask[fd] = {}

(* A connection that is open can always make progress: something is armed, *)
(* or its request is with the workers.                                     *)
Attended == Sane =>
  \A fd \in Fds : live[fd] =>
    "R" \in evmask[fd] \/ "W" \in evmask[fd] \/ Taken(fd)

-----------------------------------------------------------------------------
(* Liveness, as long as nothing has gone astray *)

(* A connection that is to be closed after its reply is closed. *)
RefusedCloses == \A fd \in Fds : flag[fd] ~> ~live[fd] \/ ~Sane

(* The connection of a client that has stopped sending is closed, unless a *)
(* request of it is with the workers.                                      *)
AbandonedCloses ==
  \A fd \in Fds :
    live[fd] /\ peer[fd] # "open" /\ ~InQueue(fd) ~> ~live[fd] \/ InQueue(fd) \/ ~Sane

(* A request is popped as long as some worker is on its way to the queue. *)
Active(w) == status[w] = "called" \/ status[w] = "running"

ActiveWorkerDrains ==
  \A fd \in Fds :
    InQueue(fd) /\ (\E w \in Workers : Active(w)) ~> ~InQueue(fd) \/ ~Sane

(* Every complete request reaches a worker. *)
RequestServed == \A fd \in Fds : InQueue(fd) ~> ~InQueue(fd) \/ ~Sane

-----------------------------------------------------------------------------
(* The server keeps the promise of Sessions. *)
Phase(fd) ==
  CASE ~live[fd] -> "free"
    [] live[fd] /\ Taken(fd) /\ "W" \in evmask[fd] -> "overtaken"
    [] live[fd] /\ InQueue(fd) /\ "W" \notin evmask[fd] -> "queued"
    [] live[fd] /\ ~InQueue(fd) /\ Held(fd) /\ "W" \notin evmask[fd] ->
         IF \E w \in Workers : HeldBy(w, fd) /\ at[w] = "exec" THEN "working"
         ELSE IF flag[fd] THEN "parting" ELSE "replying"
    [] OTHER ->
         IF "W" \notin evmask[fd] THEN "reading"
         ELSE IF wproc[fd] = "close" THEN "closing"
         ELSE IF flag[fd] THEN "parting" ELSE "replying"

(* A reply cut by a full send buffer is lost. *)
Cleared(fd) == fd \in MayBlock \/ owed[fd] = 0

Session == INSTANCE Sessions
             WITH Cut <- MayBlock,
                  phase <- [fd \in Fds |-> IF Sane THEN Phase(fd) ELSE "lost"],
                  answered <- [fd \in Fds |-> Sane => Cleared(fd)]

KeepsSessions == Session!Safety

ImplementsSessions == Session!Spec
=============================================================================
