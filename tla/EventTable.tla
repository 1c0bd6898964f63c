----------------------------- MODULE EventTable -----------------------------
(***************************************************************************)
(* The table of events of cevent.c over its three backends (epoll, select, *)
(* kqueue), and the calls network.c makes of it for its connections.       *)
(*                                                                         *)
(* Three parties keep an account of what a descriptor waits for: the table *)
(* (mask, maxfd), the kernel (the epoll set, the kqueue filters) or the    *)
(* descriptor sets of select, and the owner of the connection.  Nobody     *)
(* looks at the result of a call, so that a call the kernel refuses goes   *)
(* unnoticed.                                                              *)
(*                                                                         *)
(* Every call is a critical section under cevts->lock and a step here; a   *)
(* handler that makes two is interrupted between them by the workers, whose *)
(* replies arm write events.  What a handler does besides its calls is in  *)
(* EventServer.                                                            *)
(*                                                                         *)
(* Two things end what can be said of the program.  "outside": a call has  *)
(* written behind the table of events or the sets of select, which check   *)
(* their descriptors badly or not at all.  "astray": a write event has     *)
(* cleared or destroyed a connection in the hands of the workers, as in    *)
(* EventServer.                                                            *)
(***************************************************************************)
EXTENDS Integers

CONSTANTS
  Sockets,        (* descriptors accept may return                           *)
  Listen,         (* svr->in_fd                                              *)
  MaxEvents,      (* MAX_EVENTS                                              *)
  SetSize,        (* FD_SETSIZE, how many descriptors an fd_set has room for *)
  Backends,       (* the backends this may be built with                     *)
  Garbage,        (* what maxfd may be at the start: cevents_create swaps    *)
                  (* the arguments of memset, which then clears nothing      *)
  ReadsFirst      (* whether kqueue reports the read filter of a descriptor  *)
                  (* before its write filter                                 *)

ASSUME DescriptorsAssumption ==
  /\ Sockets \subseteq Nat /\ Listen \in Nat \ Sockets
  /\ MaxEvents \in Nat /\ SetSize \in Nat
ASSUME BackendsAssumption ==
  /\ Backends \subseteq {"epoll", "select", "kqueue"}
  /\ Garbage \subseteq Int
  /\ ReadsFirst \in BOOLEAN

Fds == Sockets \cup {Listen}

VARIABLES
  backend,   (* the one it has been built with                               *)
  mask,      (* events[fd].mask                                              *)
  wproc,     (* events[fd].write_proc                                        *)
  maxfd,     (* cevts->maxfd                                                 *)
  kernel,    (* what the kernel, or the sets of select, watch of a descriptor *)
  known,     (* the descriptors in the epoll set                             *)
  open,      (* the descriptors open                                         *)
  flag,      (* the connections with IOF_CLOSE_AFTER_WRITE                   *)
  ready,     (* what is ready when the wait ends                             *)
  fired,     (* cevts->fired: the events still to be handled                 *)
  at,        (* the next call of the main loop                               *)
  sock,      (* the descriptor it is for                                     *)
  away       (* the connections whose request is queued or with a worker     *)

table == <<mask, wproc, maxfd, kernel, known>>
world == <<backend, open, flag>>
batch == <<ready, fired>>
vars  == <<table, world, batch, at, sock, away>>

IO    == {"R", "W"}
All   == {"R", "W", "P"}
Quiet == [fd \in Fds |-> {}]

(* The control points of the main loop: before, in and after a wait, before *)
(* each call of the table, and the two of no return.                       *)
Points == {"start", "poll", "polling", "batch", "install", "unread", "push",
           "refuse", "armclose", "disarmread", "rearm", "disarmwrite",
           "unregister", "close", "outside", "astray"}

TypeOK ==
  /\ backend \in Backends
  /\ mask \in [Fds -> SUBSET All]
  /\ wproc \in [Fds -> {"none", "reply", "close"}]
  /\ maxfd \in Int
  /\ kernel \in [Fds -> SUBSET IO]
  /\ known \subseteq Fds
  /\ open \subseteq Fds
  /\ flag \subseteq Sockets
  /\ ready \in [Fds -> SUBSET IO]
  /\ fired \in [Fds -> SUBSET IO]
  /\ at \in Points
  /\ sock \in Fds
  /\ away \subseteq Sockets

(* events is several megabytes of fresh memory, which is zero. *)
Init ==
  /\ backend \in Backends
  /\ mask = Quiet
  /\ wproc = [fd \in Fds |-> "none"]
  /\ maxfd \in Garbage
  /\ kernel = Quiet
  /\ known = {}
  /\ open = {Listen}
  /\ flag = {}
  /\ ready = Quiet
  /\ fired = Quiet
  /\ at = "start"
  /\ sock = Listen
  /\ away = {}

Sane == at \notin {"outside", "astray"}

-----------------------------------------------------------------------------
(* cevents_add_event_impl and cevents_del_event_impl of the three backends *)

(* epoll_ctl refuses to add what it has and to modify what it has not. *)
Accepted(fd) ==
  \/ backend = "select"
  \/ backend = "kqueue" /\ fd \in open
  \/ backend = "epoll" /\ fd \in open /\ (fd \in known <=> mask[fd] # {})

EpollAddNew(fd, bits) ==          (* mutant: EPOLL_CTL_MOD without the old mask *)
  /\ kernel' = [kernel EXCEPT ![fd] = bits \cap IO]
  /\ known' = known \cup {fd}

(* EPOLL_CTL_MOD replaces what was watched. *)
EpollAdd(fd, bits) ==
  /\ kernel' = [kernel EXCEPT ![fd] = (mask[fd] \cup bits) \cap IO]
  /\ known' = known \cup {fd}

EpollDel(fd, bits) ==
  IF fd \in known /\ fd \in open
  THEN LET left == mask[fd] \ bits IN
       /\ kernel' = [kernel EXCEPT ![fd] = left \cap IO]
       /\ known' = IF left = {} THEN known \ {fd} ELSE known
  ELSE UNCHANGED <<kernel, known>>

(* FD_SET and FD_CLR look at no limit. *)
OutOfSet(fd) == backend = "select" /\ fd >= SetSize

SelectAdd(fd, bits) ==
  kernel' = [kernel EXCEPT ![fd] = @ \cup (bits \cap IO)] /\ UNCHANGED known

SelectDel(fd, bits) ==
  kernel' = [kernel EXCEPT ![fd] = @ \ bits] /\ UNCHANGED known

(* A filter for each event; one that is not there is not missed. *)
KqueueAdd(fd, bits) == SelectAdd(fd, bits)
KqueueDel(fd, bits) == SelectDel(fd, bits)

Watch(fd, bits) ==
  \/ backend = "epoll" /\ EpollAdd(fd, bits)
  \/ backend = "select" /\ SelectAdd(fd, bits)
  \/ backend = "kqueue" /\ KqueueAdd(fd, bits)

Unwatch(fd, bits) ==
  \/ backend = "epoll" /\ EpollDel(fd, bits)
  \/ backend = "select" /\ SelectDel(fd, bits)
  \/ backend = "kqueue" /\ KqueueDel(fd, bits)

-----------------------------------------------------------------------------
(* cevents_add_event *)

(* The table ends before MAX_EVENTS, which `fd > MAX_EVENTS' lets in. *)
OutOfTable(fd) == fd = MaxEvents

AddOutside(fd) == OutOfTable(fd) \/ (fd < MaxEvents /\ OutOfSet(fd))

Enter(fd, bits, proc) ==
  /\ mask' = [mask EXCEPT ![fd] = @ \cup bits]
  /\ wproc' = IF "W" \in bits THEN [wproc EXCEPT ![fd] = proc] ELSE wproc
  /\ maxfd' = IF fd > maxfd THEN fd ELSE maxfd

AddEvent(fd, bits, proc) ==
  IF fd > MaxEvents \/ AddOutside(fd) \/ ~Accepted(fd) THEN UNCHANGED table
  ELSE Watch(fd, bits) /\ Enter(fd, bits, proc)

-----------------------------------------------------------------------------
(* cevents_del_event *)

Lower(fd) == {g \in Fds : g < fd /\ mask[g] # {}}

(* When nothing is left maxfd stays. *)
Sink(fd) ==
  IF Lower(fd) = {} THEN UNCHANGED maxfd
  ELSE \E j \in Lower(fd) : maxfd' = j /\ \A g \in Lower(fd) : g <= j

Leave(fd, bits) ==
  /\ mask' = [mask EXCEPT ![fd] = @ \ bits]
  /\ IF maxfd = fd /\ mask[fd] \subseteq bits THEN Sink(fd) ELSE UNCHANGED maxfd
  /\ UNCHANGED wproc

DelOutside(fd) == OutOfTable(fd) \/ (fd < MaxEvents /\ mask[fd] # {} /\ OutOfSet(fd))

DelEvent(fd, bits) ==
  IF fd > MaxEvents \/ DelOutside(fd) \/ mask[fd] = {} THEN UNCHANGED table
  ELSE Unwatch(fd, bits) /\ Leave(fd, bits)

-----------------------------------------------------------------------------
(* cevents_poll *)

(* select copies whole sets, looks at maxfd + 1 descriptors of each, and the *)
(* loop over the result at as many entries of the table.                   *)
PollOutside == backend = "select" /\ (maxfd >= SetSize \/ maxfd >= MaxEvents)

(* The wait, cevts->lock held. *)
PollEnter ==
  /\ at = "poll"
  /\ at' = IF PollOutside THEN "outside" ELSE "polling"
  /\ ready' \in {r \in [Fds -> SUBSET IO] :
                   r[Listen] \subseteq {"R"} /\ \A fd \in Fds \ open : r[fd] = {}}
  /\ UNCHANGED <<table, world, fired, sock, away>>

SelectPollBelow(fd) ==            (* mutant: i < maxfd *)
  {e \in mask[fd] \cap kernel[fd] \cap ready[fd] : fd < maxfd}

(* select looks up to maxfd, and at the mask; the other two take what they  *)
(* get.  Entries without an event, hang-ups for instance, call no procedure. *)
SelectPoll(fd) == {e \in mask[fd] \cap kernel[fd] \cap ready[fd] : fd <= maxfd}
EpollPoll(fd)  == kernel[fd] \cap ready[fd]
KqueuePoll(fd) == kernel[fd] \cap ready[fd]

Report(fd) ==
  CASE backend = "epoll" -> EpollPoll(fd)
    [] backend = "select" -> SelectPoll(fd)
    [] backend = "kqueue" -> KqueuePoll(fd)

PollReturn ==
  /\ at = "polling"
  /\ at' = "batch"
  /\ fired' = [fd \in Fds |-> Report(fd)]
  /\ ready' = Quiet
  /\ UNCHANGED <<table, world, sock, away>>

HandleAnyOrder(fd, part, next) ==  (* mutant: the write part may come first *)
  /\ at = "batch"
  /\ part \in fired[fd]
  /\ mask[fd] # {}
  /\ fired' = [fired EXCEPT ![fd] = @ \ {part}]
  /\ at' = IF part = "W" /\ fd \in away THEN "astray" ELSE next
  /\ UNCHANGED <<table, backend, ready, away>>

(* epoll and select report a descriptor once and the read part of an entry  *)
(* comes first; kqueue reports filters.  Entries come in any order.  An     *)
(* entry whose descriptor has no mask any more would be passed over:       *)
(* NoStaleEvent says that there is none.  Both write procedures clear the   *)
(* connection or destroy it.                                               *)
Handle(fd, part, next) ==
  /\ at = "batch"
  /\ part \in fired[fd]
  /\ part = "W" /\ (ReadsFirst \/ backend # "kqueue") => "R" \notin fired[fd]
  /\ mask[fd] # {}
  /\ fired' = [fired EXCEPT ![fd] = @ \ {part}]
  /\ at' = IF part = "W" /\ fd \in away THEN "astray" ELSE next
  /\ UNCHANGED <<table, backend, ready, away>>

EndBatch ==
  /\ at = "batch" /\ fired = Quiet
  /\ at' = "poll"
  /\ UNCHANGED <<table, world, batch, sock, away>>

-----------------------------------------------------------------------------
(* The event procedures, up to their first call of the table *)

(* accept: a new connection, which waits for a request. *)
Accept ==
  /\ Handle(Listen, "R", "install")
  /\ \E fd \in Sockets \ open :
       /\ open' = open \cup {fd}
       /\ sock' = fd
       /\ flag' = flag \ {fd}

AcceptFails == Handle(Listen, "R", "batch") /\ UNCHANGED <<open, flag, sock>>

ReadMore(fd) == Handle(fd, "R", "batch") /\ UNCHANGED <<open, flag, sock>>

(* Nobody asks whether an earlier request was refused. *)
ReadRequest(fd) ==
  /\ Handle(fd, "R", "unread")
  /\ sock' = fd
  /\ UNCHANGED <<open, flag>>

ReadRefused(fd) ==
  /\ Handle(fd, "R", "refuse")
  /\ sock' = fd
  /\ flag' = flag \cup {fd}
  /\ UNCHANGED open

(* End of file: closed by the next write event, unless the flag says that   *)
(* this is coming anyway.                                                  *)
ReadEnd(fd) ==
  /\ Handle(fd, "R", IF fd \in flag THEN "batch" ELSE "armclose")
  /\ sock' = fd
  /\ UNCHANGED <<open, flag>>

(* response: more requests, or the end, if the flag says so or write fails. *)
WriteReply(fd) ==
  /\ wproc[fd] = "reply"
  /\ sock' = fd
  /\ flag' = flag \ {fd}
  /\ \/ fd \notin flag /\ Handle(fd, "W", "rearm")
     \/ Handle(fd, "W", "armclose")
  /\ UNCHANGED open

(* cio_close_destroy *)
WriteClose(fd) ==
  /\ wproc[fd] = "close"
  /\ Handle(fd, "W", "unregister")
  /\ sock' = fd
  /\ UNCHANGED <<open, flag>>

-----------------------------------------------------------------------------
(* The calls, in their order *)

Adds(from, to, bits, proc) ==
  /\ at = from
  /\ at' = IF AddOutside(sock) THEN "outside" ELSE to
  /\ AddEvent(sock, bits, proc)
  /\ UNCHANGED <<world, batch, sock, away>>

Dels(from, to, bits) ==
  /\ at = from
  /\ at' = IF DelOutside(sock) THEN "outside" ELSE to
  /\ DelEvent(sock, bits)
  /\ UNCHANGED <<world, batch, sock, away>>

Start       == Adds("start", "poll", {"R", "P"}, "none")
InstallRead == Adds("install", "batch", {"R", "P"}, "none")
Refuse      == Adds("refuse", "batch", {"W"}, "reply")
ArmClose    == Adds("armclose", "disarmread", {"W", "P"}, "close")
DisarmRead  == Dels("disarmread", "batch", {"R"})
Rearm       == Adds("rearm", "disarmwrite", {"R", "P"}, "none")
DisarmWrite == Dels("disarmwrite", "batch", {"W"})
Unread      == Dels("unread", "push", {"R"})

(* CEV_PERSIST too: otherwise the entry keeps a mask the kernel forgets.    *)
Unregister == Dels("unregister", "close", All)

(* The request is for the workers now. *)
Push ==
  /\ at = "push" /\ at' = "batch"
  /\ away' = away \cup {sock}
  /\ UNCHANGED <<table, world, batch, sock>>

(* The kernel forgets a descriptor that is closed, the sets of select do not. *)
Close ==
  /\ at = "close" /\ at' = "batch"
  /\ open' = open \ {sock}
  /\ kernel' = IF backend = "select" THEN kernel ELSE [kernel EXCEPT ![sock] = {}]
  /\ known' = known \ {sock}
  /\ UNCHANGED <<mask, wproc, maxfd, backend, flag, batch, sock, away>>

(* A worker arms the write event, between any two calls of the main loop; *)
(* the lock keeps it out of the wait.                                    *)
Reply(fd) ==
  /\ fd \in away
  /\ Sane /\ at # "polling"
  /\ away' = away \ {fd}
  /\ flag' \in {flag, flag \cup {fd}}
  /\ at' = IF AddOutside(fd) THEN "outside" ELSE at
  /\ AddEvent(fd, {"W"}, "reply")
  /\ UNCHANGED <<backend, open, batch, sock>>

-----------------------------------------------------------------------------
Handlers ==
  \/ Accept \/ AcceptFails
  \/ \E fd \in Sockets :
       \/ ReadMore(fd) \/ ReadRequest(fd) \/ ReadRefused(fd) \/ ReadEnd(fd)
       \/ WriteReply(fd) \/ WriteClose(fd)

Calls ==
  \/ Start \/ InstallRead \/ Refuse \/ ArmClose \/ DisarmRead
  \/ Rearm \/ DisarmWrite \/ Unread \/ Push \/ Unregister \/ Close

(* Whatever it does, nothing is said of it. *)
Undefined == ~Sane /\ UNCHANGED vars

Next ==
  \/ Undefined
  \/ PollEnter \/ PollReturn \/ EndBatch \/ Handlers \/ Calls
  \/ \E fd \in Sockets : Reply(fd)

Spec == Init /\ [][Next]_vars

-----------------------------------------------------------------------------
(* Properties *)

(* What the kernel watches is what the table says, whichever backend keeps  *)
(* it and whatever happened to the number before; and epoll has exactly the *)
(* descriptors whose entries are in use, so that it refuses no call.        *)
KernelAgrees ==
  /\ \A fd \in Fds : kernel[fd] = mask[fd] \cap IO
  /\ backend = "epoll" => known = {fd \in Fds : mask[fd] # {}}

(* No entry in use lies above maxfd, up to which select looks. *)
MaxfdCovers == \A fd \in Fds : mask[fd] # {} => fd <= maxfd

TableAgrees == Sane => KernelAgrees /\ MaxfdCovers

(* A wait reports what is ready of what the table asks for: no more, no     *)
(* less, with every backend.                                               *)
PollMissesNothing ==
  [][at = "polling" /\ at' = "batch" =>
       \A fd \in Fds : fired'[fd] = mask[fd] \cap ready[fd]]_vars

(* An event of the batch is still asked for when its turn comes: no handler *)
(* before it has deleted it, closed its descriptor or given it to another   *)
(* connection.                                                             *)
NoStaleEvent == Sane => \A fd \in Fds : fired[fd] \subseteq mask[fd]
=============================================================================
