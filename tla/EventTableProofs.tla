-------------------------- MODULE EventTableProofs --------------------------
(***************************************************************************)
(* Theorems about EventTable, for any set of descriptors, any limits of the *)
(* table and of the sets, and whatever maxfd is at the start, as long as no *)
(* call has left the table or the sets and no connection has been cleared  *)
(* in the hands of a worker.                                               *)
(*                                                                         *)
(* That the table and the kernel agree depends on who may call for a       *)
(* descriptor, and when: a close must find no entry, and no worker may arm *)
(* an event between the removal of the entry and the close.  The invariant *)
(* therefore has three parts: about the table, about the connections the   *)
(* workers have, and about the calls that the main loop is in the middle   *)
(* of.                                                                     *)
(***************************************************************************)
EXTENDS EventTable, TLAPS

(* kqueue reports the read filter of a descriptor first. *)
InOrder == ReadsFirst \/ "kqueue" \notin Backends

(* An entry in use has its place in the table and a descriptor that is open. *)
InUse == \A fd \in Fds : mask[fd] # {} => fd \in open /\ fd <= MaxEvents

TableInv == KernelAgrees /\ MaxfdCovers /\ InUse

(* An event of the batch is still asked for. *)
Fresh == \A fd \in Fds : fired[fd] \subseteq mask[fd]

(* A connection the workers have is open and not read from. *)
AwayInv == \A fd \in away : fd \in open /\ "R" \notin mask[fd]

(* Both events of a connection are armed only if it is to be closed after   *)
(* its reply, or while the main loop exchanges one for the other.           *)
BothInv ==
  \A fd \in Fds : IO \subseteq mask[fd] =>
    fd \in flag \/ (sock = fd /\ at \in {"armclose", "disarmread", "disarmwrite"})

Idle == {"poll", "polling", "batch"}

(* What holds before the call that is next. *)
CallInv ==
  /\ at \notin Idle => sock \in open /\ sock \notin away
  /\ at \in {"unread", "armclose", "disarmread"} => "R" \notin fired[sock]
  /\ at \in {"rearm", "disarmwrite", "unregister", "close"} => fired[sock] = {}
  /\ at \in {"start", "install"} => mask[sock] = {}
  /\ at = "rearm" => "R" \notin mask[sock]
  /\ at = "push" => "R" \notin mask[sock]
  /\ at = "close" => mask[sock] = {}
  /\ at = "refuse" => sock \in flag
  /\ at \in {"unread", "push"} => sock \in Sockets

IInv == TypeOK /\ TableInv /\ Fresh /\ AwayInv /\ BothInv /\ CallInv

-----------------------------------------------------------------------------
(* A call that adds events to a descriptor that is open is accepted, unless *)
(* the table has no place, and keeps the accounts in agreement.             *)
LEMMA AddKeepsTable ==
  ASSUME NEW fd \in Fds, NEW bits \in SUBSET All, bits # {},
         NEW proc \in {"none", "reply", "close"},
         TypeOK, TableInv, fd \in open, ~AddOutside(fd), AddEvent(fd, bits, proc),
         UNCHANGED <<backend, open>>
  PROVE  /\ TableInv'
         /\ mask' \in [Fds -> SUBSET All]
         /\ wproc' \in [Fds -> {"none", "reply", "close"}]
         /\ maxfd' \in Int
         /\ kernel' \in [Fds -> SUBSET IO]
         /\ known' \subseteq Fds
         /\ \/ mask' = [mask EXCEPT ![fd] = @ \cup bits]
            \/ fd > MaxEvents /\ mask' = mask
<1>0. Fds \subseteq Int /\ MaxEvents \in Int
  BY DescriptorsAssumption DEF Fds
<1>1. backend \in {"epoll", "select", "kqueue"}
  BY BackendsAssumption DEF TypeOK
<1>2. Accepted(fd)
  BY <1>1 DEF Accepted, TableInv, KernelAgrees
<1>3. CASE fd > MaxEvents
  BY <1>3 DEF AddEvent, table, TypeOK, TableInv, KernelAgrees, MaxfdCovers, InUse
<1>4. CASE ~(fd > MaxEvents)
  <2>1. Watch(fd, bits) /\ Enter(fd, bits, proc)
    BY <1>2, <1>4 DEF AddEvent
  <2>2. /\ mask' = [mask EXCEPT ![fd] = @ \cup bits]
        /\ mask' \in [Fds -> SUBSET All]
        /\ wproc' \in [Fds -> {"none", "reply", "close"}]
        /\ maxfd' \in Int
    BY <2>1, <1>0 DEF Enter, TypeOK
  <2>3. /\ kernel' \in [Fds -> SUBSET IO]
        /\ known' \subseteq Fds
    BY <2>1, <1>1 DEF Watch, EpollAdd, SelectAdd, KqueueAdd, TypeOK, All, IO
  <2>4. KernelAgrees'
    <3>1. \A g \in Fds : kernel'[g] = mask'[g] \cap IO
      BY <2>1, <2>2 DEF Watch, EpollAdd, SelectAdd, KqueueAdd, TypeOK, TableInv, KernelAgrees, IO, All
    <3>2. backend = "epoll" => known' = {g \in Fds : mask'[g] # {}}
      BY <2>1, <2>2 DEF Watch, EpollAdd, SelectAdd, KqueueAdd, TypeOK, TableInv, KernelAgrees
    <3> QED BY <3>1, <3>2 DEF KernelAgrees
  <2>5. MaxfdCovers'
    BY <2>1, <2>2, <1>0 DEF Enter, TypeOK, TableInv, MaxfdCovers
  <2>6. InUse'
    BY <2>2, <1>0, <1>4 DEF TypeOK, TableInv, InUse
  <2> QED BY <2>2, <2>3, <2>4, <2>5, <2>6 DEF TableInv
<1> QED BY <1>3, <1>4

(* A call that removes events keeps the accounts in agreement, and removes  *)
(* them: where it does nothing there is nothing to remove.                  *)
LEMMA DelKeepsTable ==
  ASSUME NEW fd \in Fds, NEW bits \in SUBSET All,
         TypeOK, TableInv, ~DelOutside(fd), DelEvent(fd, bits),
         UNCHANGED <<backend, open>>
  PROVE  /\ TableInv'
         /\ mask' = [mask EXCEPT ![fd] = @ \ bits]
         /\ mask' \in [Fds -> SUBSET All]
         /\ wproc' \in [Fds -> {"none", "reply", "close"}]
         /\ maxfd' \in Int
         /\ kernel' \in [Fds -> SUBSET IO]
         /\ known' \subseteq Fds
<1>0. Fds \subseteq Int /\ MaxEvents \in Int
  BY DescriptorsAssumption DEF Fds
<1>1. backend \in {"epoll", "select", "kqueue"}
  BY BackendsAssumption DEF TypeOK
<1>3. CASE mask[fd] = {}
  <2>1. UNCHANGED table
    BY <1>3 DEF DelEvent
  <2>2. mask' = [mask EXCEPT ![fd] = @ \ bits]
    BY <2>1, <1>3 DEF table, TypeOK
  <2> QED
    BY <2>1, <2>2 DEF table, TypeOK, TableInv, KernelAgrees, MaxfdCovers, InUse
<1>4. CASE mask[fd] # {}
  <2>0. ~(fd > MaxEvents) /\ fd \in open
    BY <1>0, <1>4 DEF TableInv, InUse
  <2>1. Unwatch(fd, bits) /\ Leave(fd, bits)
    BY <2>0, <1>4 DEF DelEvent
  <2>2. /\ mask' = [mask EXCEPT ![fd] = @ \ bits]
        /\ mask' \in [Fds -> SUBSET All]
        /\ wproc' \in [Fds -> {"none", "reply", "close"}]
    BY <2>1 DEF Leave, TypeOK
  <2>3. maxfd' \in Int
    BY <2>1, <1>0 DEF Leave, Sink, Lower, TypeOK
  <2>4. /\ kernel' \in [Fds -> SUBSET IO]
        /\ known' \subseteq Fds
        /\ KernelAgrees'
    <3>1. CASE backend = "epoll"
      <4>1. /\ kernel' = [kernel EXCEPT ![fd] = (mask[fd] \ bits) \cap IO]
            /\ known' = IF mask[fd] \ bits = {} THEN known \ {fd} ELSE known
        BY <3>1, <2>0, <2>1, <1>4 DEF Unwatch, EpollDel, TableInv, KernelAgrees
      <4>2. \A g \in Fds : kernel'[g] = mask'[g] \cap IO
        BY <4>1, <2>2 DEF TypeOK, TableInv, KernelAgrees
      <4>3. known' = {g \in Fds : mask'[g] # {}}
        BY <4>1, <2>2, <3>1, <1>4 DEF TypeOK, TableInv, KernelAgrees
      <4> QED BY <4>1, <4>2, <4>3 DEF KernelAgrees, TypeOK
    <3>2. CASE backend # "epoll"
      <4>1. kernel' = [kernel EXCEPT ![fd] = @ \ bits] /\ known' = known
        BY <3>2, <2>1 DEF Unwatch, SelectDel, KqueueDel
      <4> QED
        BY <4>1, <3>2, <2>2 DEF TypeOK, TableInv, KernelAgrees
    <3> QED BY <3>1, <3>2
  <2>5. MaxfdCovers'
    <3>1. CASE maxfd = fd /\ mask[fd] \subseteq bits
      <4>1. \A g \in Fds : mask'[g] # {} => g \in Lower(fd)
        BY <3>1, <2>2, <1>0 DEF TypeOK, TableInv, MaxfdCovers, Lower
      <4>2. Sink(fd)
        BY <3>1, <2>1 DEF Leave
      <4> QED BY <4>1, <4>2 DEF Sink, MaxfdCovers
    <3>2. CASE ~(maxfd = fd /\ mask[fd] \subseteq bits)
      BY <3>2, <2>1, <2>2 DEF Leave, TypeOK, TableInv, MaxfdCovers
    <3> QED BY <3>1, <3>2
  <2>6. InUse'
    BY <2>2 DEF TypeOK, TableInv, InUse
  <2> QED BY <2>2, <2>3, <2>4, <2>5, <2>6 DEF TableInv
<1> QED BY <1>3, <1>4

-----------------------------------------------------------------------------
LEMMA InitInv == ASSUME Init PROVE IInv
BY DescriptorsAssumption, BackendsAssumption
   DEF Init, IInv, TypeOK, TableInv, KernelAgrees, MaxfdCovers, InUse, Fresh,
       AwayInv, BothInv, CallInv, Quiet, Fds, Points, Idle, IO, All

(* What a handler finds: its connection is open, waits for the event, and   *)
(* is not with the workers, unless the program goes astray.                *)
LEMMA HandlerFinds ==
  ASSUME IInv, NEW fd \in Fds, NEW part \in fired[fd], part = "W" => fd \notin away
  PROVE  part \in mask[fd] /\ part \in IO /\ fd \in open /\ fd \notin away
BY DEF IInv, TypeOK, Fresh, TableInv, InUse, AwayInv, IO

(* The steps that begin an event procedure leave the table alone. *)
LEMMA HandlersKeep == ASSUME IInv, InOrder, Handlers, Sane' PROVE IInv'
<1>0. Fds \subseteq Int /\ Sockets \subseteq Fds /\ Listen \in Fds \ Sockets
  BY DescriptorsAssumption DEF Fds
<1>1. ASSUME NEW fd \in Fds, NEW part \in IO, NEW next \in Points,
             Handle(fd, part, next)
      PROVE  /\ part \in fired[fd] /\ at = "batch"
             /\ part = "W" => "R" \notin fired[fd] /\ fd \notin away
             /\ fired' = [fired EXCEPT ![fd] = @ \ {part}]
             /\ fired' \in [Fds -> SUBSET IO]
             /\ at' = next
             /\ UNCHANGED <<mask, wproc, maxfd, kernel, known, backend, ready, away>>
  BY <1>1, BackendsAssumption DEF Handle, Sane, table, IInv, TypeOK, InOrder
<1>2. CASE Accept
  <2>1. "install" \in Points /\ "R" \in IO
    BY DEF Points, IO
  <2>2. Handle(Listen, "R", "install")
    BY <1>2 DEF Accept
  <2>3. PICK fd \in Sockets \ open :
          open' = open \cup {fd} /\ sock' = fd /\ flag' = flag \ {fd}
    BY <1>2 DEF Accept
  <2>4. mask[fd] = {} /\ fd \notin away /\ fd \in Fds
    BY <2>3, <1>0 DEF IInv, TypeOK, TableInv, InUse, AwayInv
  <2>5. TypeOK'
    BY <2>1, <2>2, <2>3, <2>4, <1>0, <1>1 DEF IInv, TypeOK
  <2>6. TableInv' /\ Fresh' /\ AwayInv'
    <3>1. /\ fired' = [fired EXCEPT ![Listen] = @ \ {"R"}]
          /\ UNCHANGED <<mask, maxfd, kernel, known, backend, away>>
      BY <2>1, <2>2, <1>0, <1>1
    <3>2. KernelAgrees' /\ MaxfdCovers'
      BY <3>1 DEF IInv, TableInv, KernelAgrees, MaxfdCovers
    <3>3. InUse' /\ AwayInv'
      BY <2>3, <3>1 DEF IInv, TableInv, InUse, AwayInv
    <3>4. Fresh'
      BY <3>1, <1>0 DEF IInv, TypeOK, Fresh
    <3> QED BY <3>2, <3>3, <3>4 DEF TableInv
  <2>7. BothInv'
    BY <2>1, <2>2, <2>3, <2>4, <1>0, <1>1 DEF IInv, BothInv, IO
  <2>8. CallInv'
    BY <2>1, <2>2, <2>3, <2>4, <1>0, <1>1 DEF IInv, CallInv
  <2> QED BY <2>5, <2>6, <2>7, <2>8 DEF IInv
<1>3. CASE AcceptFails
  <2>1. "batch" \in Points /\ "R" \in IO
    BY DEF Points, IO
  <2>2. Handle(Listen, "R", "batch") /\ UNCHANGED <<open, flag, sock>>
    BY <1>3 DEF AcceptFails
  <2>3. /\ fired' = [fired EXCEPT ![Listen] = @ \ {"R"}]
        /\ fired' \in [Fds -> SUBSET IO] /\ at = "batch" /\ at' = "batch"
        /\ UNCHANGED <<mask, wproc, maxfd, kernel, known, backend, ready, away>>
    BY <2>1, <2>2, <1>0, <1>1
  <2>4. TypeOK'
    BY <2>1, <2>2, <2>3 DEF IInv, TypeOK
  <2>5. KernelAgrees' /\ MaxfdCovers' /\ InUse' /\ AwayInv'
    BY <2>2, <2>3 DEF IInv, TableInv, KernelAgrees, MaxfdCovers, InUse, AwayInv
  <2>6. Fresh'
    BY <2>3, <1>0 DEF IInv, TypeOK, Fresh
  <2>7. BothInv' /\ CallInv'
    BY <2>2, <2>3 DEF IInv, BothInv, CallInv, Idle
  <2> QED BY <2>4, <2>5, <2>6, <2>7 DEF IInv, TableInv
<1>4. ASSUME NEW fd \in Sockets, NEW part \in IO, NEW next \in Points,
             Handle(fd, part, next), open' = open, flag' \subseteq Sockets,
             \A g \in Fds \ {fd} : g \in flag => g \in flag'
      PROVE  /\ sock' \in Fds => TypeOK'
             /\ TableInv' /\ Fresh' /\ AwayInv'
             /\ sock' = fd /\ (IO \subseteq mask[fd] => fd \in flag' \/ next = "armclose")
                => BothInv'
             /\ part \in mask[fd] /\ fd \in open /\ fd \notin away
             /\ "R" \notin fired'[fd] /\ (part = "W" => fired'[fd] = {})
  <2>1. fd \in Fds
    BY <1>0
  <2>2. part \in mask[fd] /\ fd \in open /\ fd \notin away
    BY <1>1, <1>4, <2>1, HandlerFinds
  <2>3. sock' \in Fds => TypeOK'
    BY <1>1, <1>4, <2>1 DEF IInv, TypeOK
  <2>4. TableInv' /\ Fresh' /\ AwayInv'
    BY <1>1, <1>4, <2>1
       DEF IInv, TypeOK, TableInv, KernelAgrees, MaxfdCovers, InUse, Fresh, AwayInv
  <2>5. ASSUME sock' = fd, IO \subseteq mask[fd] => fd \in flag' \/ next = "armclose"
        PROVE  BothInv'
    BY <1>1, <1>4, <2>1, <2>5 DEF IInv, BothInv
  <2>6. "R" \notin fired'[fd] /\ (part = "W" => fired'[fd] = {})
    BY <1>1, <1>4, <2>1 DEF IInv, TypeOK, IO
  <2> QED BY <2>2, <2>3, <2>4, <2>5, <2>6
<1>5. ASSUME NEW fd \in Sockets PROVE fd \in Fds
  BY <1>0
<1>6. ASSUME NEW fd \in Sockets, ReadMore(fd) PROVE IInv'
  <2>1. "batch" \in Points /\ "R" \in IO
    BY DEF Points, IO
  <2>2. Handle(fd, "R", "batch") /\ UNCHANGED <<open, flag, sock>>
    BY <1>6 DEF ReadMore
  <2>3. TypeOK' /\ TableInv' /\ Fresh' /\ AwayInv'
    BY <2>1, <2>2, <1>4 DEF IInv, TypeOK
  <2>4. BothInv' /\ CallInv'
    BY <2>1, <2>2, <1>1, <1>5 DEF IInv, BothInv, CallInv, Idle
  <2> QED BY <2>3, <2>4 DEF IInv
<1>7. ASSUME NEW fd \in Sockets, ReadRequest(fd) PROVE IInv'
  <2>1. "unread" \in Points /\ "R" \in IO
    BY DEF Points, IO
  <2>2. /\ Handle(fd, "R", "unread")
        /\ sock' = fd /\ open' = open /\ flag' = flag
    BY <1>7 DEF ReadRequest
  <2>3. at = "batch" /\ UNCHANGED <<mask, away>> /\ at' = "unread"
    BY <2>1, <2>2, <1>1, <1>5
  <2>4. "R" \in mask[fd] /\ fd \in open /\ fd \notin away /\ "R" \notin fired'[fd]
    BY <2>1, <2>2, <1>4 DEF IInv, TypeOK
  <2>5. IO \subseteq mask[fd] => fd \in flag'
    BY <2>2, <2>3, <1>5 DEF IInv, BothInv
  <2>6. TypeOK' /\ TableInv' /\ Fresh' /\ AwayInv' /\ BothInv'
    BY <2>1, <2>2, <2>5, <1>4, <1>5 DEF IInv, TypeOK, IO
  <2>7. CallInv'
    BY <2>2, <2>3, <2>4, <2>5 DEF CallInv
  <2> QED BY <2>6, <2>7 DEF IInv
<1>8. ASSUME NEW fd \in Sockets, ReadRefused(fd) PROVE IInv'
  <2>1. "refuse" \in Points /\ "R" \in IO
    BY DEF Points, IO
  <2>2. /\ Handle(fd, "R", "refuse")
        /\ sock' = fd /\ open' = open /\ flag' = flag \cup {fd}
    BY <1>8 DEF ReadRefused
  <2>3. at' = "refuse" /\ away' = away
    BY <2>1, <2>2, <1>1, <1>5
  <2>4. fd \in open /\ fd \notin away
    BY <2>1, <2>2, <1>4 DEF IInv, TypeOK
  <2>6. TypeOK' /\ TableInv' /\ Fresh' /\ AwayInv' /\ BothInv'
    BY <2>1, <2>2, <1>4, <1>5 DEF IInv, TypeOK
  <2>7. CallInv'
    BY <2>2, <2>3, <2>4 DEF CallInv
  <2> QED BY <2>6, <2>7 DEF IInv
<1>9. ASSUME NEW fd \in Sockets, ReadEnd(fd) PROVE IInv'
  <2> DEFINE next == IF fd \in flag THEN "batch" ELSE "armclose"
  <2>1. next \in Points /\ "R" \in IO
    BY DEF Points, IO
  <2>2. Handle(fd, "R", next) /\ sock' = fd /\ open' = open /\ flag' = flag
    BY <1>9 DEF ReadEnd
  <2> HIDE DEF next
  <2>3. at' = next /\ away' = away
    BY <2>1, <2>2, <1>1, <1>5
  <2>4. fd \in open /\ fd \notin away /\ "R" \notin fired'[fd]
    BY <2>1, <2>2, <1>4 DEF IInv, TypeOK
  <2>6. TypeOK' /\ TableInv' /\ Fresh' /\ AwayInv' /\ BothInv'
    <3>1. fd \in flag' \/ next = "armclose"
      BY <2>2 DEF next
    <3> QED BY <2>1, <2>2, <3>1, <1>4, <1>5 DEF IInv, TypeOK
  <2>7. CallInv'
    BY <2>2, <2>3, <2>4 DEF CallInv, Idle, next
  <2> QED BY <2>6, <2>7 DEF IInv
<1>10. ASSUME NEW fd \in Sockets, WriteReply(fd) PROVE IInv'
  <2>1. "rearm" \in Points /\ "armclose" \in Points /\ "W" \in IO
    BY DEF Points, IO
  <2>2. sock' = fd /\ open' = open /\ flag' = flag \ {fd}
    BY <1>10 DEF WriteReply
  <2>3. CASE fd \notin flag /\ Handle(fd, "W", "rearm")
    <3>1. at = "batch" /\ at' = "rearm" /\ UNCHANGED <<mask, away>>
      BY <2>1, <2>3, <1>1, <1>5
    <3>2. /\ "W" \in mask[fd] /\ fd \in open /\ fd \notin away
          /\ fired'[fd] = {}
      BY <2>1, <2>2, <2>3, <1>4 DEF IInv, TypeOK
    <3>3. "R" \notin mask[fd]
      BY <2>3, <3>1, <3>2, <1>5 DEF IInv, BothInv, IO
    <3>4. TypeOK' /\ TableInv' /\ Fresh' /\ AwayInv' /\ BothInv'
      BY <2>1, <2>2, <2>3, <3>3, <1>4, <1>5 DEF IInv, TypeOK, IO
    <3>5. CallInv'
      BY <2>2, <3>1, <3>2, <3>3 DEF CallInv
    <3> QED BY <3>4, <3>5 DEF IInv
  <2>4. CASE Handle(fd, "W", "armclose")
    <3>1. at' = "armclose" /\ away' = away
      BY <2>1, <2>4, <1>1, <1>5
    <3>2. fd \in open /\ fd \notin away /\ fired'[fd] = {}
      BY <2>1, <2>2, <2>4, <1>4 DEF IInv, TypeOK
    <3>4. TypeOK' /\ TableInv' /\ Fresh' /\ AwayInv' /\ BothInv'
      BY <2>1, <2>2, <2>4, <1>4, <1>5 DEF IInv, TypeOK
    <3>5. CallInv'
      BY <2>2, <3>1, <3>2 DEF CallInv
    <3> QED BY <3>4, <3>5 DEF IInv
  <2> QED BY <1>10, <2>3, <2>4 DEF WriteReply
<1>11. ASSUME NEW fd \in Sockets, WriteClose(fd) PROVE IInv'
  <2>1. "unregister" \in Points /\ "W" \in IO
    BY DEF Points, IO
  <2>2. /\ Handle(fd, "W", "unregister")
        /\ sock' = fd /\ open' = open /\ flag' = flag
    BY <1>11 DEF WriteClose
  <2>3. at = "batch" /\ at' = "unregister" /\ UNCHANGED <<mask, away>>
    BY <2>1, <2>2, <1>1, <1>5
  <2>4. fd \in open /\ fd \notin away /\ fired'[fd] = {}
    BY <2>1, <2>2, <1>4 DEF IInv, TypeOK
  <2>5. IO \subseteq mask[fd] => fd \in flag'
    BY <2>2, <2>3, <1>5 DEF IInv, BothInv
  <2>6. TypeOK' /\ TableInv' /\ Fresh' /\ AwayInv' /\ BothInv'
    BY <2>1, <2>2, <2>5, <1>4, <1>5 DEF IInv, TypeOK
  <2>7. CallInv'
    BY <2>2, <2>3, <2>4 DEF CallInv
  <2> QED BY <2>6, <2>7 DEF IInv
<1> QED
  BY <1>2, <1>3, <1>6, <1>7, <1>8, <1>9, <1>10, <1>11 DEF Handlers

-----------------------------------------------------------------------------
LEMMA AddsKeep ==
  ASSUME IInv, Sane', NEW from \in Points \ Idle, NEW to \in Points,
         NEW bits \in SUBSET All, bits # {}, NEW proc \in {"none", "reply", "close"},
         Adds(from, to, bits, proc)
  PROVE  /\ TypeOK' /\ TableInv' /\ Fresh' /\ AwayInv'
         /\ at = from /\ at' = to /\ sock \in Fds /\ sock \in open /\ sock \notin away
         /\ UNCHANGED <<open, flag, fired, sock, away>>
         /\ mask' = mask \/ mask' = [mask EXCEPT ![sock] = @ \cup bits]
<1>1. /\ at = from /\ at' = to /\ AddEvent(sock, bits, proc) /\ ~AddOutside(sock)
      /\ UNCHANGED <<backend, open, flag, ready, fired, sock, away>>
  BY DEF Adds, Sane, world, batch
<1>2. TypeOK /\ TableInv /\ sock \in Fds /\ sock \in open /\ sock \notin away
  BY <1>1 DEF IInv, TypeOK, CallInv
<1>3. /\ TableInv'
      /\ mask' \in [Fds -> SUBSET All]
      /\ wproc' \in [Fds -> {"none", "reply", "close"}]
      /\ maxfd' \in Int
      /\ kernel' \in [Fds -> SUBSET IO]
      /\ known' \subseteq Fds
      /\ \/ mask' = [mask EXCEPT ![sock] = @ \cup bits]
         \/ sock > MaxEvents /\ mask' = mask
  BY <1>1, <1>2, AddKeepsTable
<1>4. TypeOK'
  BY <1>1, <1>2, <1>3 DEF TypeOK
<1>5. Fresh' /\ AwayInv'
  BY <1>1, <1>2, <1>3 DEF IInv, TypeOK, Fresh, AwayInv
<1> QED BY <1>1, <1>2, <1>3, <1>4, <1>5

LEMMA DelsKeep ==
  ASSUME IInv, Sane', NEW from \in Points \ Idle, NEW to \in Points,
         NEW bits \in SUBSET All, fired[sock] \cap bits = {},
         Dels(from, to, bits)
  PROVE  /\ TypeOK' /\ TableInv' /\ Fresh' /\ AwayInv'
         /\ at = from /\ at' = to /\ sock \in Fds /\ sock \in open /\ sock \notin away
         /\ UNCHANGED <<open, flag, fired, sock, away>>
         /\ mask' = [mask EXCEPT ![sock] = @ \ bits]
<1>1. /\ at = from /\ at' = to /\ DelEvent(sock, bits) /\ ~DelOutside(sock)
      /\ UNCHANGED <<backend, open, flag, ready, fired, sock, away>>
  BY DEF Dels, Sane, world, batch
<1>2. TypeOK /\ TableInv /\ sock \in Fds /\ sock \in open /\ sock \notin away
  BY <1>1 DEF IInv, TypeOK, CallInv
<1>3. /\ TableInv'
      /\ mask' = [mask EXCEPT ![sock] = @ \ bits]
      /\ mask' \in [Fds -> SUBSET All]
      /\ wproc' \in [Fds -> {"none", "reply", "close"}]
      /\ maxfd' \in Int
      /\ kernel' \in [Fds -> SUBSET IO]
      /\ known' \subseteq Fds
  BY <1>1, <1>2, DelKeepsTable
<1>4. TypeOK'
  BY <1>1, <1>2, <1>3 DEF TypeOK
<1>5. Fresh' /\ AwayInv'
  BY <1>1, <1>2, <1>3 DEF IInv, TypeOK, Fresh, AwayInv
<1> QED BY <1>1, <1>2, <1>3, <1>4, <1>5

(* Every call of the main loop. *)
LEMMA CallsKeep == ASSUME IInv, Calls, Sane' PROVE IInv'
<1>0. TypeOK
  BY DEF IInv
<1>1. CASE Start
  <2>1. Adds("start", "poll", {"R", "P"}, "none")
    BY <1>1 DEF Start
  <2>2. /\ TypeOK' /\ TableInv' /\ Fresh' /\ AwayInv'
        /\ at = "start" /\ at' = "poll"
        /\ sock \in Fds /\ sock \in open /\ sock \notin away
        /\ UNCHANGED <<open, flag, fired, sock, away>>
        /\ mask' = mask \/ mask' = [mask EXCEPT ![sock] = @ \cup {"R", "P"}]
    BY <2>1, AddsKeep DEF Points, Idle, All
  <2>3. BothInv'
    BY <1>0, <2>2 DEF TypeOK, IInv, BothInv, CallInv, IO
  <2>4. CallInv'
    BY <2>2 DEF IInv, CallInv, Idle
  <2> QED BY <2>2, <2>3, <2>4 DEF IInv
<1>2. CASE InstallRead
  <2>1. Adds("install", "batch", {"R", "P"}, "none")
    BY <1>2 DEF InstallRead
  <2>2. /\ TypeOK' /\ TableInv' /\ Fresh' /\ AwayInv'
        /\ at = "install" /\ at' = "batch"
        /\ sock \in Fds /\ sock \in open /\ sock \notin away
        /\ UNCHANGED <<open, flag, fired, sock, away>>
        /\ mask' = mask \/ mask' = [mask EXCEPT ![sock] = @ \cup {"R", "P"}]
    BY <2>1, AddsKeep DEF Points, Idle, All
  <2>3. BothInv'
    BY <1>0, <2>2 DEF TypeOK, IInv, BothInv, CallInv, IO
  <2>4. CallInv'
    BY <2>2 DEF IInv, CallInv, Idle
  <2> QED BY <2>2, <2>3, <2>4 DEF IInv
<1>3. CASE Refuse
  <2>1. Adds("refuse", "batch", {"W"}, "reply")
    BY <1>3 DEF Refuse
  <2>2. /\ TypeOK' /\ TableInv' /\ Fresh' /\ AwayInv'
        /\ at = "refuse" /\ at' = "batch"
        /\ sock \in Fds /\ sock \in open /\ sock \notin away
        /\ UNCHANGED <<open, flag, fired, sock, away>>
        /\ mask' = mask \/ mask' = [mask EXCEPT ![sock] = @ \cup {"W"}]
    BY <2>1, AddsKeep DEF Points, Idle, All
  <2>3. BothInv'
    BY <1>0, <2>2 DEF TypeOK, IInv, BothInv, CallInv, IO
  <2>4. CallInv'
    BY <2>2 DEF IInv, CallInv, Idle
  <2> QED BY <2>2, <2>3, <2>4 DEF IInv
<1>4. CASE ArmClose
  <2>1. Adds("armclose", "disarmread", {"W", "P"}, "close")
    BY <1>4 DEF ArmClose
  <2>2. /\ TypeOK' /\ TableInv' /\ Fresh' /\ AwayInv'
        /\ at = "armclose" /\ at' = "disarmread"
        /\ sock \in Fds /\ sock \in open /\ sock \notin away
        /\ UNCHANGED <<open, flag, fired, sock, away>>
        /\ mask' = mask \/ mask' = [mask EXCEPT ![sock] = @ \cup {"W", "P"}]
    BY <2>1, AddsKeep DEF Points, Idle, All
  <2>3. BothInv'
    BY <1>0, <2>2 DEF TypeOK, IInv, BothInv, CallInv, IO
  <2>4. CallInv'
    BY <2>2 DEF IInv, CallInv, Idle
  <2> QED BY <2>2, <2>3, <2>4 DEF IInv
<1>5. CASE Rearm
  <2>1. Adds("rearm", "disarmwrite", {"R", "P"}, "none")
    BY <1>5 DEF Rearm
  <2>2. /\ TypeOK' /\ TableInv' /\ Fresh' /\ AwayInv'
        /\ at = "rearm" /\ at' = "disarmwrite"
        /\ sock \in Fds /\ sock \in open /\ sock \notin away
        /\ UNCHANGED <<open, flag, fired, sock, away>>
        /\ mask' = mask \/ mask' = [mask EXCEPT ![sock] = @ \cup {"R", "P"}]
    BY <2>1, AddsKeep DEF Points, Idle, All
  <2>3. BothInv'
    BY <1>0, <2>2 DEF TypeOK, IInv, BothInv, CallInv, IO
  <2>4. CallInv'
    BY <2>2 DEF IInv, CallInv, Idle
  <2> QED BY <2>2, <2>3, <2>4 DEF IInv
<1>6. CASE DisarmRead
  <2>1. Dels("disarmread", "batch", {"R"})
    BY <1>6 DEF DisarmRead
  <2>2. fired[sock] \cap {"R"} = {}
    BY <2>1 DEF Dels, IInv, CallInv
  <2>3. /\ TypeOK' /\ TableInv' /\ Fresh' /\ AwayInv'
        /\ at = "disarmread" /\ at' = "batch"
        /\ sock \in Fds /\ sock \in open /\ sock \notin away
        /\ UNCHANGED <<open, flag, fired, sock, away>>
        /\ mask' = [mask EXCEPT ![sock] = @ \ {"R"}]
    BY <2>1, <2>2, DelsKeep DEF Points, Idle, All
  <2>4. BothInv'
    BY <1>0, <2>3 DEF TypeOK, IInv, BothInv, CallInv, IO, All
  <2>5. CallInv'
    BY <1>0, <2>3 DEF TypeOK, IInv, CallInv, Idle, All, IO
  <2> QED BY <2>3, <2>4, <2>5 DEF IInv
<1>7. CASE DisarmWrite
  <2>1. Dels("disarmwrite", "batch", {"W"})
    BY <1>7 DEF DisarmWrite
  <2>2. fired[sock] \cap {"W"} = {}
    BY <2>1 DEF Dels, IInv, CallInv
  <2>3. /\ TypeOK' /\ TableInv' /\ Fresh' /\ AwayInv'
        /\ at = "disarmwrite" /\ at' = "batch"
        /\ sock \in Fds /\ sock \in open /\ sock \notin away
        /\ UNCHANGED <<open, flag, fired, sock, away>>
        /\ mask' = [mask EXCEPT ![sock] = @ \ {"W"}]
    BY <2>1, <2>2, DelsKeep DEF Points, Idle, All
  <2>4. BothInv'
    BY <1>0, <2>3 DEF TypeOK, IInv, BothInv, CallInv, IO, All
  <2>5. CallInv'
    BY <1>0, <2>3 DEF TypeOK, IInv, CallInv, Idle, All, IO
  <2> QED BY <2>3, <2>4, <2>5 DEF IInv
<1>8. CASE Unread
  <2>1. Dels("unread", "push", {"R"})
    BY <1>8 DEF Unread
  <2>2. fired[sock] \cap {"R"} = {}
    BY <2>1 DEF Dels, IInv, CallInv
  <2>3. /\ TypeOK' /\ TableInv' /\ Fresh' /\ AwayInv'
        /\ at = "unread" /\ at' = "push"
        /\ sock \in Fds /\ sock \in open /\ sock \notin away
        /\ UNCHANGED <<open, flag, fired, sock, away>>
        /\ mask' = [mask EXCEPT ![sock] = @ \ {"R"}]
    BY <2>1, <2>2, DelsKeep DEF Points, Idle, All
  <2>4. BothInv'
    BY <1>0, <2>3 DEF TypeOK, IInv, BothInv, CallInv, IO, All
  <2>5. CallInv'
    BY <1>0, <2>3 DEF TypeOK, IInv, CallInv, Idle, All, IO
  <2> QED BY <2>3, <2>4, <2>5 DEF IInv
<1>9. CASE Unregister
  <2>1. Dels("unregister", "close", All)
    BY <1>9 DEF Unregister
  <2>2. fired[sock] \cap All = {}
    BY <2>1 DEF Dels, IInv, CallInv
  <2>3. /\ TypeOK' /\ TableInv' /\ Fresh' /\ AwayInv'
        /\ at = "unregister" /\ at' = "close"
        /\ sock \in Fds /\ sock \in open /\ sock \notin away
        /\ UNCHANGED <<open, flag, fired, sock, away>>
        /\ mask' = [mask EXCEPT ![sock] = @ \ All]
    BY <2>1, <2>2, DelsKeep DEF Points, Idle, All
  <2>4. BothInv'
    BY <1>0, <2>3 DEF TypeOK, IInv, BothInv, CallInv, IO, All
  <2>5. CallInv'
    BY <1>0, <2>3 DEF TypeOK, IInv, CallInv, Idle, All, IO
  <2> QED BY <2>3, <2>4, <2>5 DEF IInv
<1>10. CASE Push
  <2>1. /\ at = "push" /\ at' = "batch" /\ away' = away \cup {sock}
        /\ UNCHANGED <<mask, wproc, maxfd, kernel, known, backend, open, flag, ready, fired, sock>>
    BY <1>10 DEF Push, table, world, batch
  <2>2. sock \in open /\ "R" \notin mask[sock]
    BY <2>1 DEF IInv, CallInv, Idle
  <2>3. sock \in Sockets
    BY <2>1 DEF IInv, CallInv
  <2>4. TypeOK'
    BY <1>0, <2>1, <2>3 DEF TypeOK, Points
  <2>5. KernelAgrees' /\ MaxfdCovers' /\ InUse' /\ Fresh'
    BY <2>1 DEF IInv, TableInv, KernelAgrees, MaxfdCovers, InUse, Fresh
  <2>6. AwayInv' /\ BothInv' /\ CallInv'
    BY <2>1, <2>2 DEF IInv, AwayInv, BothInv, CallInv, Idle
  <2> QED BY <2>4, <2>5, <2>6 DEF IInv, TableInv
<1>11. CASE Close
  <2>1. /\ at = "close" /\ at' = "batch" /\ open' = open \ {sock}
        /\ kernel' = IF backend = "select" THEN kernel ELSE [kernel EXCEPT ![sock] = {}]
        /\ known' = known \ {sock}
        /\ UNCHANGED <<mask, wproc, maxfd, backend, flag, ready, fired, sock, away>>
    BY <1>11 DEF Close, batch
  <2>2. sock \in Fds /\ sock \notin away /\ mask[sock] = {}
    BY <1>0, <2>1 DEF TypeOK, IInv, CallInv, Idle
  <2>3. TypeOK'
    BY <1>0, <2>1, <2>2 DEF TypeOK, Points
  <2>4. KernelAgrees'
    BY <1>0, <2>1, <2>2 DEF TypeOK, IInv, TableInv, KernelAgrees
  <2>5. MaxfdCovers' /\ InUse' /\ Fresh'
    BY <2>1, <2>2 DEF IInv, TableInv, MaxfdCovers, InUse, Fresh
  <2>6. AwayInv' /\ BothInv' /\ CallInv'
    BY <2>1, <2>2 DEF IInv, AwayInv, BothInv, CallInv, Idle
  <2> QED BY <2>3, <2>4, <2>5, <2>6 DEF IInv, TableInv
<1> QED
  BY <1>1, <1>2, <1>3, <1>4, <1>5, <1>6, <1>7, <1>8, <1>9, <1>10, <1>11 DEF Calls

(* A worker arms a write event between two calls of the main loop. *)
LEMMA ReplyKeeps == ASSUME IInv, NEW fd \in Sockets, Reply(fd), Sane' PROVE IInv'
<1>1. /\ fd \in away /\ away' = away \ {fd} /\ flag' \in {flag, flag \cup {fd}}
      /\ AddEvent(fd, {"W"}, "reply") /\ ~AddOutside(fd)
      /\ UNCHANGED <<backend, open, ready, fired, at, sock>>
  BY DEF Reply, Sane, batch
<1>2. /\ TypeOK /\ TableInv /\ fd \in Fds /\ fd \in open /\ "R" \notin mask[fd]
      /\ {"W"} \in SUBSET All /\ (fd # sock \/ at \in Idle)
  BY <1>1 DEF IInv, AwayInv, CallInv, Fds, All
<1>3. /\ TableInv'
      /\ mask' \in [Fds -> SUBSET All]
      /\ wproc' \in [Fds -> {"none", "reply", "close"}]
      /\ maxfd' \in Int
      /\ kernel' \in [Fds -> SUBSET IO]
      /\ known' \subseteq Fds
      /\ \/ mask' = [mask EXCEPT ![fd] = @ \cup {"W"}]
         \/ fd > MaxEvents /\ mask' = mask
  <2>1. {"W"} \in SUBSET All /\ {"W"} # {}
    BY DEF All
  <2> QED BY <1>1, <1>2, <2>1, AddKeepsTable
<1>4. TypeOK'
  BY <1>1, <1>2, <1>3 DEF TypeOK
<1>5. Fresh' /\ AwayInv'
  BY <1>1, <1>2, <1>3 DEF IInv, TypeOK, Fresh, AwayInv
<1>6. BothInv'
  BY <1>1, <1>2, <1>3 DEF IInv, TypeOK, BothInv, IO
<1>7. CallInv'
  BY <1>1, <1>2, <1>3 DEF IInv, TypeOK, CallInv, Idle
<1> QED BY <1>3, <1>4, <1>5, <1>6, <1>7 DEF IInv

LEMMA StepInv == ASSUME IInv, InOrder, [Next]_vars, Sane, Sane' PROVE IInv'
<1>1. CASE PollEnter
  <2>1. /\ at = "poll" /\ at' = "polling" /\ ready' \in [Fds -> SUBSET IO]
        /\ UNCHANGED <<mask, wproc, maxfd, kernel, known, backend, open, flag, fired, sock, away>>
    BY <1>1 DEF PollEnter, Sane, table, world
  <2> QED
    BY <2>1 DEF IInv, TypeOK, TableInv, KernelAgrees, MaxfdCovers, InUse, Fresh,
                AwayInv, BothInv, CallInv, Idle, Points
<1>2. CASE PollReturn
  <2>1. /\ at = "polling" /\ at' = "batch" /\ ready' = Quiet
        /\ fired' = [fd \in Fds |-> Report(fd)]
        /\ UNCHANGED <<mask, wproc, maxfd, kernel, known, backend, open, flag, sock, away>>
    BY <1>2 DEF PollReturn, table, world
  <2>2. \A fd \in Fds : Report(fd) \subseteq mask[fd] /\ Report(fd) \subseteq IO
    BY BackendsAssumption DEF Report, EpollPoll, SelectPoll, KqueuePoll, IInv, TypeOK, TableInv, KernelAgrees
  <2>3. TypeOK' /\ Fresh'
    BY <2>1, <2>2 DEF IInv, TypeOK, Fresh, Points, Quiet
  <2> QED
    BY <2>1, <2>3 DEF IInv, TableInv, KernelAgrees, MaxfdCovers, InUse, AwayInv, BothInv,
                      CallInv, Idle
<1>3. CASE EndBatch
  <2>1. /\ at = "batch" /\ at' = "poll"
        /\ UNCHANGED <<mask, wproc, maxfd, kernel, known, backend, open, flag, ready, fired, sock, away>>
    BY <1>3 DEF EndBatch, table, world, batch
  <2> QED
    BY <2>1 DEF IInv, TypeOK, TableInv, KernelAgrees, MaxfdCovers, InUse, Fresh,
                AwayInv, BothInv, CallInv, Idle, Points
<1>4. CASE UNCHANGED vars
  BY <1>4 DEF vars, table, world, batch, IInv, TypeOK, TableInv, KernelAgrees, MaxfdCovers,
              InUse, Fresh, AwayInv, BothInv, CallInv
<1> QED
  BY <1>1, <1>2, <1>3, <1>4, HandlersKeep, CallsKeep, ReplyKeeps DEF Next, Undefined

-----------------------------------------------------------------------------
(* There is no way back. *)
LEMMA UndefinedStays == ASSUME ~Sane, [Next]_vars PROVE UNCHANGED vars
<1>1. ~Handlers
  BY DEF Sane, Handlers, Accept, AcceptFails, ReadMore, ReadRequest, ReadRefused, ReadEnd,
         WriteReply, WriteClose, Handle
<1>2. ~Calls
  BY DEF Sane, Calls, Start, InstallRead, Refuse, ArmClose, DisarmRead, Rearm, DisarmWrite,
         Unread, Unregister, Push, Close, Adds, Dels
<1>3. ~PollEnter /\ ~PollReturn /\ ~EndBatch /\ \A fd \in Sockets : ~Reply(fd)
  BY DEF Sane, PollEnter, PollReturn, EndBatch, Reply
<1> QED BY <1>1, <1>2, <1>3 DEF Next, Undefined

LEMMA Invariance == ASSUME InOrder PROVE Spec => [](Sane => IInv)
<1>1. Init => (Sane => IInv)
  BY InitInv
<1>2. (Sane => IInv) /\ [Next]_vars => (Sane => IInv)'
  <2> SUFFICES ASSUME Sane => IInv, [Next]_vars, Sane' PROVE IInv'
    OBVIOUS
  <2>1. Sane
    BY UndefinedStays DEF Sane, vars
  <2> QED BY <2>1, StepInv
<1> QED BY <1>1, <1>2, PTL DEF Spec

(* Until something has gone wrong the variables keep their types: maxfd is a *)
(* number, whatever it is at the start, and a descriptor is watched for     *)
(* reading and writing only.                                                *)
THEOREM TableTypes == ASSUME InOrder PROVE Spec => [](Sane => TypeOK)
<1>1. (Sane => IInv) => (Sane => TypeOK)
  BY DEF IInv
<1> QED BY <1>1, Invariance, PTL

(* The accounts of cevent.c, of its backends and of the kernel agree, and   *)
(* maxfd covers every entry in use, for any descriptors and any backend,   *)
(* until a call has left the table or the sets or a connection has been     *)
(* cleared in the hands of a worker.                                       *)
THEOREM AccountsAgree == ASSUME InOrder PROVE Spec => []TableAgrees
<1>1. (Sane => IInv) => TableAgrees
  BY DEF IInv, TableInv, TableAgrees
<1> QED BY <1>1, Invariance, PTL

(* Until then no handler finds an event that an earlier one of the batch    *)
(* has taken back.                                                         *)
THEOREM NothingStale == ASSUME InOrder PROVE Spec => []NoStaleEvent
<1>1. (Sane => IInv) => NoStaleEvent
  BY DEF IInv, Fresh, NoStaleEvent
<1> QED BY <1>1, Invariance, PTL

(* A wait that returns reports exactly what is ready of what the table asks *)
(* for.  One with select that would look behind the sets does not return.  *)
THEOREM PollComplete == ASSUME InOrder PROVE Spec => PollMissesNothing
<1>1. ASSUME IInv, [Next]_vars, at = "polling", at' = "batch", NEW fd \in Fds
      PROVE  fired'[fd] = mask[fd] \cap ready[fd]
  <2>1. fired' = [g \in Fds |-> Report(g)]
    BY <1>1 DEF Next, vars, PollEnter, PollReturn, EndBatch, Handlers, Accept, AcceptFails,
                ReadMore, ReadRequest, ReadRefused, ReadEnd, WriteReply, WriteClose, Handle,
                Calls, Start, InstallRead, Refuse, ArmClose, DisarmRead, Rearm, DisarmWrite,
                Unread, Unregister, Push, Close, Adds, Dels, Reply, Undefined
  <2>2. Report(fd) = mask[fd] \cap ready[fd]
    BY <1>1, BackendsAssumption DEF Report, EpollPoll, SelectPoll, KqueuePoll, IInv, TypeOK, TableInv, KernelAgrees, MaxfdCovers
  <2> QED BY <2>1, <2>2
<1>2. (Sane => IInv) /\ [Next]_vars =>
        [at = "polling" /\ at' = "batch" =>
           \A fd \in Fds : fired'[fd] = mask[fd] \cap ready[fd]]_vars
  BY <1>1 DEF Sane
<1> QED BY <1>2, Invariance, PTL DEF Spec, PollMissesNothing
=============================================================================
