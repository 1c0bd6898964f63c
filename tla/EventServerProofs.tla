------------------------- MODULE EventServerProofs -------------------------
(***************************************************************************)
(* Theorems about EventServer, for any number of connections and workers.  *)
(*                                                                         *)
(* A step of the server changes one connection at most, so the invariant   *)
(* is mostly about one connection: Local says which events may be armed    *)
(* for it, what the main loop may still have at hand from the last poll,   *)
(* who looks after it and what is owed to its client.  The rest, Once and  *)
(* Batch, is about the queue with the workers, and about the batch.  All   *)
(* that another connection can notice of a step is in View: a connection   *)
(* whose View is unchanged keeps its Local and its phase in Sessions.      *)
(*                                                                         *)
(* All of it is about a server that is sane: a step that clears a          *)
(* connection the workers have makes it astray, and it stays so.           *)
(***************************************************************************)
EXTENDS EventServer, FiniteSetTheorems, TLAPS

(* Some worker has the connection and has not executed its command yet. *)
AtExec(fd) == \E w \in Workers : HeldBy(w, fd) /\ at[w] = "exec"

Registered(fd) ==
  IF live[fd] THEN "P" \in evmask[fd]
  ELSE evmask[fd] = {} /\ ~flag[fd] /\ wcount[fd] = 0

(* Both events are armed only for a connection that closes after a reply. *)
BothArmed(fd) == {"R", "W"} \subseteq evmask[fd] => flag[fd] /\ wproc[fd] = "write"

(* A socket that takes whole replies owes what waits to be written. *)
Owing(fd) == wcount[fd] <= owed[fd] /\ (fd \notin MayBlock => owed[fd] = wcount[fd])

(* A connection the workers have: nothing is armed but a refusal. *)
HandedOver(fd) ==
  Taken(fd) => /\ live[fd] /\ "R" \notin evmask[fd]
               /\ "W" \in evmask[fd] => flag[fd] /\ wproc[fd] = "write"

ArmedReply(fd) ==
  live[fd] /\ wcount[fd] > 0 /\ ~Held(fd) => "W" \in evmask[fd] /\ wproc[fd] = "write"

Progress(fd) == live[fd] => "R" \in evmask[fd] \/ "W" \in evmask[fd] \/ Taken(fd)

Local(fd) ==
  /\ Registered(fd)
  /\ fired[fd] \subseteq evmask[fd]
  /\ BothArmed(fd)
  /\ Owing(fd)
  /\ HandedOver(fd)
  /\ ArmedReply(fd)
  /\ Progress(fd)

(* A connection is in the queue once or with one worker. *)
Once ==
  /\ \A i, j \in DOMAIN queue : queue[i] = queue[j] => i = j
  /\ \A v, w \in Workers, fd \in Fds : HeldBy(v, fd) /\ HeldBy(w, fd) => v = w
  /\ \A fd \in Fds : ~(InQueue(fd) /\ Held(fd))
  /\ \A w \in Workers : status[w] = "running" /\ at[w] # "pop" => job[w] \in Fds

Batch ==
  /\ "W" \notin fired[Listen]
  /\ "R" \in fired[Listen] => backlog > 0
  /\ mpc # "batch" => fired = Quiet
  /\ cur # NoFd => fired[cur] = {"W"}

Inv == Sane /\ TypeOK /\ Once /\ Batch /\ \A fd \in Fds : Local(fd)

Counted == connections = Cardinality({fd \in Fds : live[fd]})

(* What the other connections can see of one connection. *)
View(fd) ==
  <<live[fd], evmask[fd], wproc[fd], flag[fd], wcount[fd], owed[fd], fired[fd],
    InQueue(fd), Held(fd), AtExec(fd)>>

-----------------------------------------------------------------------------
LEMMA InitInv == Init => Inv /\ Counted
<1> SUFFICES ASSUME Init PROVE Inv /\ Counted
  OBVIOUS
<1>1. TypeOK
  BY BoundsAssumption DEF Init, TypeOK, Pool!Init, Pool!Status, Quiet, Masks
<1>2. Once /\ Batch
  BY NamesAssumption DEF Init, Once, Batch, InQueue, HeldBy, Held, Pool!Init, Quiet
<1>3. \A fd \in Fds : Local(fd)
  BY DEF Init, Local, Registered, BothArmed, Owing, HandedOver, ArmedReply, Progress,
         Taken, InQueue, HeldBy, Held, Pool!Init, Quiet
<1>4. Counted
  <2>1. {fd \in Fds : live[fd]} = {}
    BY DEF Init
  <2> QED
    BY <2>1, FS_EmptySet DEF Init, Counted
<1>5. Sane
  BY DEF Init, Sane
<1> QED
  BY <1>1, <1>2, <1>3, <1>4, <1>5 DEF Inv

(* A connection nobody touches keeps what the invariant says of it. *)
LEMMA ViewKeepsLocal ==
  ASSUME NEW fd \in Fds, Local(fd), UNCHANGED View(fd)
  PROVE  Local(fd)'
BY DEF View, Local, Registered, BothArmed, Owing, HandedOver, ArmedReply, Progress, Taken

(* Nor does it change its phase. *)
LEMMA ViewKeepsPhase ==
  ASSUME NEW fd \in Fds, UNCHANGED View(fd)
  PROVE  Phase(fd)' = Phase(fd)
BY DEF View, Phase, AtExec

(* A connection the main loop has an event of is with nobody else, or the   *)
(* server goes astray.                                                     *)
LEMMA AtHand ==
  ASSUME Inv, NEW fd \in Fds, NEW part \in {"R", "W"}, InBatch(fd, part), Handled(fd, part), Sane'
  PROVE  /\ live[fd] /\ part \in evmask[fd] /\ "P" \in evmask[fd]
         /\ ~InQueue(fd) /\ ~Held(fd)
         /\ \A w \in Workers : ~HeldBy(w, fd)
         /\ part = "W" => fired[fd] = {"W"}
         /\ ~flag[fd] => "W" \notin evmask[fd] \/ "R" \notin evmask[fd]
         /\ part = "R" /\ ~flag[fd] => wcount[fd] = 0 /\ fired[fd] = {"R"}
<1>1. part \in fired[fd] /\ Local(fd) /\ fired[fd] \subseteq {"R", "W"} /\ wcount[fd] \in Nat
  BY DEF InBatch, Inv, TypeOK
<1>2. live[fd] /\ part \in evmask[fd] /\ "P" \in evmask[fd]
  BY <1>1 DEF Local, Registered
<1>3. ~Taken(fd)
  <2>1. CASE part = "R"
    BY <1>2, <2>1, <1>1 DEF Local, HandedOver
  <2>2. CASE part = "W"
    BY <2>2 DEF Handled, Sane
  <2> QED
    BY <2>1, <2>2
<1>4. ~flag[fd] => "W" \notin evmask[fd] \/ "R" \notin evmask[fd]
  BY <1>1 DEF Local, BothArmed
<1>5. part = "R" /\ ~flag[fd] => wcount[fd] = 0 /\ fired[fd] = {"R"}
  BY <1>1, <1>2, <1>3, <1>4 DEF Local, ArmedReply, Taken
<1> QED
  BY <1>1, <1>2, <1>3, <1>4, <1>5 DEF InBatch, Taken, Held

-----------------------------------------------------------------------------
(* Nothing of the connections changes. *)
Unseen ==
  UNCHANGED <<owed, conns, queue>> /\ \A fd \in Fds : UNCHANGED fired[fd]

SameWork ==
  \A w \in Workers : /\ status[w]' = "running" /\ at[w]' # "pop"
                          <=> status[w] = "running" /\ at[w] # "pop"
                     /\ at[w] # "pop" /\ status[w] = "running" => UNCHANGED <<at[w], job[w]>>

LEMMA UnseenKeeps ==
  ASSUME Inv, Sane', TypeOK', Batch', Unseen, SameWork
  PROVE  Inv' /\ \A fd \in Fds : UNCHANGED View(fd)
<1>1. \A w \in Workers, fd \in Fds : HeldBy(w, fd)' <=> HeldBy(w, fd)
  BY DEF SameWork, HeldBy
<1>2. \A w \in Workers, fd \in Fds : HeldBy(w, fd) => UNCHANGED at[w]
  BY DEF SameWork, HeldBy
<1>3. \A fd \in Fds : UNCHANGED View(fd)
  BY <1>1, <1>2 DEF View, Unseen, conns, InQueue, Held, AtExec
<1>4. Once'
  BY <1>1 DEF Inv, Once, Unseen, SameWork, InQueue, Held
<1> QED
  BY <1>3, <1>4, ViewKeepsLocal DEF Inv

(* Clients, the rounds of the main loop and the pool. *)
Around ==
  \/ Clients \/ PollEnter \/ EndBatch \/ RunTask \/ NextRound \/ AcceptFails
  \/ (\E w \in Workers : Park(w) \/ StartTask(w) \/ PopNothing(w))
  \/ UNCHANGED vars

LEMMA StaysSane ==
  ASSUME Inv, Around \/ PollReturn
  PROVE  Sane'
BY NamesAssumption
   DEF Inv, Sane, Around, Clients, Connect, Send, Hangup, PollEnter, PollReturn, EndBatch, RunTask,
       NextRound, AcceptFails, Handled, Park, StartTask, PopNothing, WorkerOnly, main, vars

LEMMA AroundKeeps ==
  ASSUME Inv, Around
  PROVE  Inv' /\ (\A fd \in Fds : UNCHANGED View(fd)) /\ UNCHANGED <<connections, live>>
<1> USE NamesAssumption, BoundsAssumption
<1>0. Sane'
  BY StaysSane
<1>1. CASE Clients
  <2>1. TypeOK'
    <3> USE DEF conns, main, pool, Inv, TypeOK
    <3>1. CASE Connect
      BY <3>1 DEF Connect
    <3>2. ASSUME NEW fd \in Fds, Send(fd) PROVE TypeOK'
      BY <3>2 DEF Send
    <3>3. ASSUME NEW fd \in Fds, Hangup(fd) PROVE TypeOK'
      <4>1. peer' \in [Fds -> {"open", "half", "gone"}]
        BY <3>3, ZenonT(60) DEF Hangup
      <4> QED
        BY <3>3, <4>1 DEF Hangup
    <3> QED
      BY <1>1, <3>1, <3>2, <3>3 DEF Clients
  <2>2. Batch' /\ Unseen /\ SameWork /\ UNCHANGED <<connections, live>>
    BY <1>1 DEF Clients, Connect, Send, Hangup, conns, main, pool, Inv, TypeOK, Batch,
                Unseen, SameWork
  <2> QED
    BY <2>1, <2>2, <1>0, UnseenKeeps
<1>2. CASE PollEnter \/ EndBatch \/ NextRound \/ UNCHANGED vars
  <2>1. TypeOK' /\ Batch' /\ Unseen /\ SameWork /\ UNCHANGED <<connections, live>>
    BY <1>2 DEF PollEnter, EndBatch, NextRound, vars, client, conns, main, pool, Inv, TypeOK,
                Batch, Unseen, SameWork
  <2> QED
    BY <2>1, <1>0, UnseenKeeps
<1>3. CASE RunTask
  <2>1. /\ status' \in [Workers -> Pool!Status]
        /\ pending' \in Nat
        /\ \A w \in Workers : status[w]' = "running" <=> status[w] = "running"
    <3>1. CASE Pool!Drop
      BY <3>1 DEF Pool!Drop, Inv, TypeOK
    <3>2. ASSUME NEW w \in Workers, Pool!Call(w)
          PROVE  /\ status' \in [Workers -> Pool!Status]
                 /\ pending' \in Nat
                 /\ \A v \in Workers : status[v]' = "running" <=> status[v] = "running"
      BY <3>2 DEF Pool!Call, Pool!Become, Pool!Status, Inv, TypeOK
    <3> QED
      BY <1>3, <3>1, <3>2 DEF RunTask
  <2>2. UNCHANGED <<client, owed, conns, queue, main, at, job>>
    BY <1>3 DEF RunTask
  <2>3. TypeOK' /\ Batch' /\ Unseen /\ SameWork /\ UNCHANGED <<connections, live>>
    BY <2>1, <2>2 DEF client, conns, main, Inv, TypeOK, Batch, Unseen, SameWork
  <2> QED
    BY <2>3, <1>0, UnseenKeeps
<1>4. ASSUME NEW w \in Workers, Park(w) \/ StartTask(w) \/ PopNothing(w)
      PROVE  Inv' /\ (\A fd \in Fds : UNCHANGED View(fd)) /\ UNCHANGED <<connections, live>>
  <2>1. UNCHANGED <<client, main, owed, conns, queue, job>>
    BY <1>4 DEF Park, StartTask, PopNothing, WorkerOnly
  <2>2. /\ status' \in [Workers -> Pool!Status]
        /\ pending' \in Nat
        /\ at' \in [Workers -> {"pop", "exec", "arm"}]
        /\ SameWork
    <3> USE DEF Pool!Become, Pool!Status, Inv, TypeOK, SameWork
    <3>1. CASE Park(w)
      BY <2>1, <3>1 DEF Park, Pool!Park
    <3>2. CASE StartTask(w)
      BY <2>1, <3>2 DEF StartTask, Pool!Run
    <3>3. CASE PopNothing(w)
      BY <2>1, <3>3 DEF PopNothing, Working, Pool!Finish
    <3> QED BY <1>4, <3>1, <3>2, <3>3
  <2>3. TypeOK' /\ Batch' /\ Unseen /\ UNCHANGED <<connections, live>>
    BY <2>1, <2>2 DEF client, conns, main, Inv, TypeOK, Batch, Unseen
  <2> QED
    BY <2>2, <2>3, <1>0, UnseenKeeps
<1>5. CASE AcceptFails
  <2>1. TypeOK' /\ Batch' /\ Unseen /\ SameWork /\ UNCHANGED <<connections, live>>
    <3>1. backlog > 0 /\ backlog' \in 0 .. MaxBacklog
      BY <1>5 DEF AcceptFails, InBatch, Inv, TypeOK, Batch
    <3>2. mpc' = "batch" /\ fired' = [fired EXCEPT ![Listen] = @ \ {"R"}] /\ cur' = NoFd
      BY <1>5 DEF AcceptFails, InBatch, Handled, Inv, Batch
    <3> QED
      BY <1>5, <3>1, <3>2
         DEF AcceptFails, InBatch, conns, pool, Inv, TypeOK, Batch, Unseen, SameWork
  <2> QED
    BY <2>1, <1>0, UnseenKeeps
<1> QED
  BY <1>1, <1>2, <1>3, <1>4, <1>5 DEF Around

(* What the poll reports is armed, and nothing of it concerns the workers. *)
LEMMA PollKeeps ==
  ASSUME Inv, PollReturn
  PROVE  /\ Inv'
         /\ \A fd \in Fds : Phase(fd)' = Phase(fd)
         /\ UNCHANGED <<connections, live, owed>>
<1> USE NamesAssumption DEF PollReturn
<1>1. /\ fired' \in [Fds \cup {Listen} -> SUBSET {"R", "W"}]
      /\ \A fd \in Fds : fired'[fd] \subseteq evmask[fd]
      /\ "W" \notin fired'[Listen]
      /\ "R" \in fired'[Listen] => backlog > 0
  BY DEF Ready, Events
<1>2. cur = NoFd
  BY DEF Inv, Batch, TypeOK, Quiet
<1>3. UNCHANGED <<client, owed, conns, queue, cur, pool>> /\ mpc' = "batch"
  OBVIOUS
<1>4. Sane' /\ TypeOK' /\ Batch' /\ Once'
  BY <1>1, <1>2, <1>3
     DEF Inv, Sane, TypeOK, Batch, Once, InQueue, Held, HeldBy, client, conns, pool
<1>5. ASSUME NEW fd \in Fds PROVE Local(fd)'
  <2>1. Taken(fd)' <=> Taken(fd)
    BY <1>3 DEF Taken, InQueue, Held, HeldBy, pool
  <2>2. HandedOver(fd)'
    BY <1>3, <2>1 DEF Inv, Local, HandedOver, conns
  <2> QED
    BY <1>1, <1>3, <2>1, <2>2 DEF Inv, Local, Registered, BothArmed, Owing, ArmedReply, Progress,
                                  Held, HeldBy, conns, pool
<1> QED
  BY <1>3, <1>4, <1>5 DEF Inv, Phase, Taken, InQueue, Held, HeldBy, conns, pool

-----------------------------------------------------------------------------
(* The main loop, with an event of a connection. *)
Elsewhere(fd) == \A g \in Fds \ {fd} : UNCHANGED View(g)

LEMMA HandledKeeps ==
  ASSUME Inv, NEW fd \in Fds, NEW part \in {"R", "W"}, InBatch(fd, part), Handled(fd, part),
         Sane', TypeOK', Local(fd)',
         UNCHANGED <<backlog, queue, status, at, job>>,
         \A g \in Fds \ {fd} :
           UNCHANGED <<live[g], evmask[g], wproc[g], flag[g], wcount[g], owed[g]>>
  PROVE  Inv' /\ Elsewhere(fd)
<1>1. /\ \A g \in (Fds \cup {Listen}) \ {fd} : UNCHANGED fired[g]
      /\ cur' \in {fd, NoFd} /\ mpc' = mpc /\ mpc = "batch"
      /\ cur' = fd => fired'[fd] = {"W"}
  <2>1. \A g \in (Fds \cup {Listen}) \ {fd} : UNCHANGED fired[g]
    BY DEF Handled, Inv, TypeOK
  <2>2. cur' \in {fd, NoFd} /\ mpc' = mpc /\ mpc = "batch"
    BY DEF InBatch, Handled, Sane
  <2>3. ASSUME cur' = fd PROVE fired'[fd] = {"W"}
    <3>1. part = "R" /\ "W" \in fired[fd]
      BY <2>3, NamesAssumption DEF Handled
    <3> QED
      BY <3>1 DEF Handled, InBatch, Inv, TypeOK
  <2> QED
    BY <2>1, <2>2, <2>3
<1>2. /\ \A w \in Workers, g \in Fds : HeldBy(w, g)' <=> HeldBy(w, g)
      /\ \A g \in Fds : UNCHANGED <<InQueue(g), Held(g), AtExec(g)>>
  BY DEF HeldBy, InQueue, Held, AtExec
<1>3. Elsewhere(fd)
  BY <1>1, <1>2 DEF Elsewhere, View
<1>4. Once'
  BY <1>2 DEF Inv, Once
<1>5. Batch'
  BY <1>1, NamesAssumption DEF Inv, Batch
<1>6. \A g \in Fds : Local(g)'
  <2>1. ASSUME NEW g \in Fds \ {fd} PROVE Local(g)'
    BY <1>1, <1>3, NamesAssumption, ViewKeepsLocal DEF Elsewhere, Inv
  <2> QED
    BY <2>1
<1> QED
  BY <1>3, <1>4, <1>5, <1>6 DEF Inv

LEMMA ReadMoreKeeps ==
  ASSUME Inv, Sane', NEW fd \in Fds, ReadMore(fd)
  PROVE  Inv' /\ Elsewhere(fd) /\ UNCHANGED <<connections, live>>
<1> USE DEF ReadMore, TakeBytes, Handled, conns, pool
<1>1. InBatch(fd, "R") /\ Handled(fd, "R") /\ UNCHANGED <<backlog, queue, status, at, job>>
  OBVIOUS
<1>2. TypeOK'
  BY DEF Inv, TypeOK, InBatch
<1>3. Local(fd)'
  BY <1>1, AtHand DEF Inv, TypeOK, Local, Registered, BothArmed, Owing, HandedOver,
                      ArmedReply, Progress, Taken, InQueue, Held, HeldBy
<1> QED
  BY <1>1, <1>2, <1>3, HandledKeeps

LEMMA ReadRefusedKeeps ==
  ASSUME Inv, Sane', NEW fd \in Fds, ReadRefused(fd)
  PROVE  Inv' /\ Elsewhere(fd) /\ UNCHANGED <<connections, live>>
<1> USE DEF ReadRefused, TakeBytes, ArmWrite, Handled, pool
<1>1. InBatch(fd, "R") /\ Handled(fd, "R") /\ UNCHANGED <<backlog, queue, status, at, job>>
  OBVIOUS
<1>2. TypeOK'
  BY BoundsAssumption DEF Inv, TypeOK, Masks, InBatch
<1>3. live[fd] /\ "P" \in evmask[fd] /\ "R" \in evmask[fd] /\ ~Taken(fd)
  BY <1>1, AtHand DEF Taken
<1>4. ~Taken(fd)'
  BY <1>3 DEF Taken, InQueue, Held, HeldBy
<1>5. /\ flag'[fd] /\ wproc'[fd] = "write" /\ live' = live
      /\ evmask'[fd] = evmask[fd] \cup {"W"} /\ fired'[fd] = fired[fd] \ {"R"}
      /\ wcount'[fd] = wcount[fd] + ReplyLen /\ owed'[fd] = owed[fd] + ReplyLen
  BY DEF Inv, TypeOK
<1>6. Local(fd)'
  <2>1. wcount[fd] \in Nat /\ owed[fd] \in Nat /\ ReplyLen \in Nat
    BY BoundsAssumption DEF Inv, TypeOK
  <2>2. Owing(fd)'
    BY <1>5, <2>1 DEF Inv, Local, Owing
  <2> QED
    BY <1>3, <1>4, <1>5, <2>2
       DEF Inv, Local, Registered, BothArmed, HandedOver, ArmedReply, Progress
<1> QED
  BY <1>1, <1>2, <1>6, HandledKeeps DEF Inv, TypeOK

LEMMA InstallCloseSets ==
  ASSUME Inv, NEW fd \in Fds, InstallClose(fd)
  PROVE  /\ evmask' \in [Fds -> Masks]
         /\ wproc' \in [Fds -> {"none", "write", "close"}]
         /\ \A g \in Fds \ {fd} : UNCHANGED <<evmask[g], wproc[g]>>
         /\ evmask'[fd] = {"W", "P"} /\ wproc'[fd] = "close"
BY DEF InstallClose, Inv, TypeOK, Masks

LEMMA ReadAgainSets ==
  ASSUME Inv, NEW fd \in Fds, ReadAgain(fd)
  PROVE  /\ evmask' \in [Fds -> Masks]
         /\ wproc' = wproc
         /\ \A g \in Fds \ {fd} : UNCHANGED evmask[g]
         /\ evmask'[fd] = {"R", "P"}
BY DEF ReadAgain, Inv, TypeOK, Masks

LEMMA ReadEndKeeps ==
  ASSUME Inv, Sane', NEW fd \in Fds, ReadEnd(fd)
  PROVE  Inv' /\ Elsewhere(fd) /\ UNCHANGED <<connections, live, owed>>
<1>1. /\ InBatch(fd, "R") /\ Handled(fd, "R")
      /\ UNCHANGED <<backlog, peer, data, owed, live, flag, wcount, connections>>
      /\ UNCHANGED <<queue, status, pending, at, job>>
  BY DEF ReadEnd, client, pool
<1>2. CASE flag[fd]
  <2>1. UNCHANGED <<evmask, wproc>>
    BY <1>2 DEF ReadEnd, CloseUnlessFlagged
  <2>2. TypeOK'
    BY <1>1, <2>1 DEF Inv, TypeOK, InBatch, Handled
  <2>3. Local(fd)'
    BY <1>1, <2>1, AtHand
       DEF Handled, Inv, TypeOK, Local, Registered, BothArmed, Owing, HandedOver, ArmedReply,
           Progress, Taken, InQueue, Held, HeldBy
  <2> QED
    BY <1>1, <2>1, <2>2, <2>3, HandledKeeps
<1>3. CASE ~flag[fd]
  <2>1. /\ evmask' \in [Fds -> Masks]
        /\ wproc' \in [Fds -> {"none", "write", "close"}]
        /\ \A g \in Fds \ {fd} : UNCHANGED <<evmask[g], wproc[g]>>
        /\ evmask'[fd] = {"W", "P"} /\ wproc'[fd] = "close"
    BY <1>3, InstallCloseSets DEF ReadEnd, CloseUnlessFlagged
  <2>2. TypeOK'
    BY <1>1, <2>1 DEF Inv, TypeOK, InBatch, Handled
  <2>3. Local(fd)'
    BY <1>1, <1>3, <2>1, AtHand
       DEF Handled, Inv, TypeOK, Local, Registered, BothArmed, Owing, HandedOver, ArmedReply,
           Progress, Taken, InQueue, Held, HeldBy
  <2> QED
    BY <1>1, <2>1, <2>2, <2>3, HandledKeeps
<1> QED
  BY <1>2, <1>3

(* The three ways a write event ends. *)
LEMMA WriteKeeps ==
  ASSUME Inv, Sane', NEW fd \in Fds, WriteReply(fd) \/ WriteFails(fd)
  PROVE  /\ Inv' /\ Elsewhere(fd) /\ UNCHANGED <<connections, live>>
         /\ fd \notin MayBlock => owed'[fd] = 0
<1>1. /\ InBatch(fd, "W") /\ Handled(fd, "W") /\ UNCHANGED <<backlog, queue, status, at, job>>
      /\ UNCHANGED <<client, live, connections, pending>>
  BY DEF WriteReply, WriteFails, Writing, client, pool
<1>2. /\ \A g \in Fds \ {fd} : UNCHANGED owed[g]
      /\ owed' \in [Fds -> Nat]
      /\ fd \notin MayBlock => owed'[fd] = 0
  <2>1. CASE WriteReply(fd)
    <3>1. PICK n \in 1 .. wcount[fd] :
            (n = wcount[fd] \/ fd \in MayBlock) /\ owed' = [owed EXCEPT ![fd] = @ - n]
      BY <2>1 DEF WriteReply
    <3>2. owed[fd] - n \in Nat
      BY DEF Inv, TypeOK, Local, Owing
    <3> QED
      BY <3>1, <3>2 DEF Inv, TypeOK, Local, Owing
  <2>2. CASE WriteFails(fd)
    BY <2>2 DEF WriteFails, Inv, TypeOK
  <2> QED
    BY <2>1, <2>2
<1>3. /\ evmask' \in [Fds -> Masks]
      /\ wproc' \in [Fds -> {"none", "write", "close"}]
      /\ \A g \in Fds \ {fd} : UNCHANGED <<evmask[g], wproc[g]>>
      /\ evmask'[fd] \in {{"R", "P"}, {"W", "P"}}
  <2>1. ReadAgain(fd) \/ InstallClose(fd)
    BY DEF WriteReply, WriteFails, AfterReply
  <2> QED
    BY <2>1, InstallCloseSets, ReadAgainSets DEF Inv, TypeOK
<1>4. /\ flag' = [flag EXCEPT ![fd] = FALSE]
      /\ wcount' = [wcount EXCEPT ![fd] = 0]
  BY DEF WriteReply, WriteFails, ClearIo
<1>5. TypeOK'
  BY <1>1, <1>2, <1>3, <1>4 DEF Inv, TypeOK, InBatch, Handled, client
<1>6. Local(fd)'
  <2>1. fired'[fd] = {} /\ cur' # fd
    BY <1>1, AtHand, NamesAssumption DEF Handled, Inv, TypeOK
  <2>2. ~Taken(fd)'
    BY <1>1, AtHand DEF Taken, InQueue, Held, HeldBy
  <2> QED
    BY <1>1, <1>2, <1>3, <1>4, <2>1, <2>2, AtHand
       DEF Inv, TypeOK, Local, Registered, BothArmed, Owing, HandedOver, ArmedReply, Progress
<1> QED
  BY <1>1, <1>2, <1>3, <1>4, <1>5, <1>6, HandledKeeps DEF Inv, TypeOK

(* A connection that is closed is counted, and nobody else had it. *)
LEMMA DestroyKeeps ==
  ASSUME Inv, Sane', NEW fd \in Fds, Destroy(fd), connections > 0
  PROVE  Inv' /\ Elsewhere(fd) /\ UNCHANGED owed
<1>1. /\ InBatch(fd, "W") /\ Handled(fd, "W") /\ UNCHANGED <<backlog, queue, status, at, job>>
      /\ UNCHANGED <<owed, wproc, pending>>
  BY DEF Destroy, Writing, pool
<1>2. /\ evmask' = [evmask EXCEPT ![fd] = {}]
      /\ live' = [live EXCEPT ![fd] = FALSE]
      /\ flag' = [flag EXCEPT ![fd] = FALSE]
      /\ wcount' = [wcount EXCEPT ![fd] = 0]
      /\ wproc[fd] = "close"
  BY DEF Destroy, Writing, ClearIo
<1>3. TypeOK'
  <2>1. fired' \in [Fds \cup {Listen} -> SUBSET {"R", "W"}] /\ cur' \in Fds \cup {NoFd}
        /\ mpc' = "batch"
    BY <1>1 DEF Handled, Inv, TypeOK, Sane
  <2>2. /\ peer' \in [Fds -> {"open", "half", "gone"}]
        /\ data' \in [Fds -> BOOLEAN]
        /\ connections' \in Nat
    BY DEF Destroy, Inv, TypeOK
  <2> QED
    BY <1>1, <1>2, <2>1, <2>2 DEF Inv, TypeOK, Masks
<1>4. wcount[fd] = 0
  <2>1. live[fd] /\ ~Held(fd)
    BY <1>1, AtHand
  <2>2. ArmedReply(fd) /\ wcount[fd] \in Nat
    BY DEF Inv, TypeOK, Local
  <2> QED
    BY <1>2, <2>1, <2>2 DEF ArmedReply
<1>5. Local(fd)'
  <2>1. fired'[fd] = {} /\ cur' # fd
    BY <1>1, AtHand, NamesAssumption DEF Handled, Inv, TypeOK
  <2>2. ~Taken(fd)'
    BY <1>1, AtHand DEF Taken, InQueue, Held, HeldBy
  <2> QED
    BY <1>1, <1>2, <1>4, <2>1, <2>2
       DEF Inv, TypeOK, Local, Registered, BothArmed, Owing, HandedOver, ArmedReply, Progress
<1> QED
  BY <1>1, <1>2, <1>3, <1>5, HandledKeeps DEF Inv, TypeOK

(* A descriptor that is not in use is with nobody. *)
LEMMA AcceptKeeps ==
  ASSUME Inv, Sane', NEW fd \in Fds, Accept(fd)
  PROVE  Inv' /\ Elsewhere(fd)
<1>1. /\ live' = [live EXCEPT ![fd] = TRUE]
      /\ evmask' = [evmask EXCEPT ![fd] = @ \cup {"R", "P"}]
      /\ owed' = [owed EXCEPT ![fd] = 0]
      /\ UNCHANGED <<peer, data, wproc, flag, wcount, queue, status, pending, at, job>>
  BY DEF Accept, pool
<1>2. /\ fired' \in [Fds \cup {Listen} -> SUBSET {"R", "W"}]
      /\ \A g \in Fds : UNCHANGED fired[g]
      /\ fired'[Listen] = {}
      /\ cur = NoFd /\ cur' = NoFd /\ mpc' = mpc /\ mpc = "batch" /\ backlog > 0
  BY NamesAssumption DEF Accept, InBatch, Handled, Inv, Sane, TypeOK, Batch
<1>3. ~live[fd] /\ evmask[fd] = {} /\ ~flag[fd] /\ wcount[fd] = 0
  BY DEF Accept, Inv, Local, Registered
<1>4. ~Taken(fd) /\ fired[fd] = {}
  BY <1>3 DEF Inv, TypeOK, Local, HandedOver
<1>5. TypeOK'
  <2>1. connections' \in Nat /\ backlog' \in 0 .. MaxBacklog
    BY <1>2, BoundsAssumption DEF Accept, Inv, TypeOK
  <2> QED
    BY <1>1, <1>2, <2>1 DEF Inv, TypeOK, Masks
<1>6. /\ \A w \in Workers, g \in Fds : HeldBy(w, g)' <=> HeldBy(w, g)
      /\ \A g \in Fds : UNCHANGED <<InQueue(g), Held(g), AtExec(g)>>
  BY <1>1 DEF HeldBy, InQueue, Held, AtExec
<1>7. Elsewhere(fd)
  BY <1>1, <1>2, <1>6 DEF Elsewhere, View, Inv, TypeOK
<1>8. Once' /\ Batch'
  BY <1>1, <1>2, <1>6, NamesAssumption DEF Inv, Once, Batch
<1>9. Local(fd)'
  BY <1>1, <1>2, <1>3, <1>4, <1>6, NamesAssumption
     DEF Inv, TypeOK, Local, Registered, BothArmed, Owing, HandedOver, ArmedReply, Progress, Taken
<1>10. \A g \in Fds : Local(g)'
  <2>1. ASSUME NEW g \in Fds \ {fd} PROVE Local(g)'
    BY <1>2, <1>7, NamesAssumption, ViewKeepsLocal DEF Elsewhere, Inv
  <2> QED
    BY <1>9, <2>1
<1> QED
  BY <1>5, <1>7, <1>8, <1>10 DEF Inv

(* A complete request: no read event is left of the registration, a write  *)
(* event only if an earlier request was refused, and the queue had no entry *)
(* of the connection.                                                       *)
LEMMA ReadRequestKeeps ==
  ASSUME Inv, Sane', NEW fd \in Fds, ReadRequest(fd)
  PROVE  /\ Inv' /\ Elsewhere(fd) /\ UNCHANGED <<connections, live, owed>>
         /\ live[fd] /\ ~Taken(fd) /\ InQueue(fd)'
         /\ "W" \in evmask'[fd] <=> "W" \in evmask[fd]
         /\ "W" \in evmask[fd] => flag[fd] /\ wproc[fd] = "write"
<1>1. /\ InBatch(fd, "R") /\ Handled(fd, "R")
      /\ evmask' = [evmask EXCEPT ![fd] = @ \ {"R"}]
      /\ queue' = Append(queue, fd)
      /\ UNCHANGED <<backlog, peer, owed, wproc, live, flag, wcount, connections>>
      /\ UNCHANGED <<status, at, job>>
  BY DEF ReadRequest, StopReading, PushFired, Pool!Submit, Inv, TypeOK
<1>2. /\ evmask'[fd] = evmask[fd] \ {"R"} /\ live[fd] /\ ~Taken(fd)
      /\ "W" \in evmask[fd] => flag[fd] /\ wproc[fd] = "write"
  BY <1>1, AtHand DEF Inv, TypeOK, Masks, Taken, Local, BothArmed
<1>3. /\ fired'[fd] = fired[fd] \ {"R"} /\ cur' \in {fd, NoFd} /\ mpc' = mpc /\ mpc = "batch"
      /\ cur' = fd => fired'[fd] = {"W"}
      /\ \A g \in (Fds \cup {Listen}) \ {fd} : UNCHANGED fired[g]
  <2>1. /\ fired'[fd] = fired[fd] \ {"R"} /\ fired[fd] \subseteq {"R", "W"}
        /\ \A g \in (Fds \cup {Listen}) \ {fd} : UNCHANGED fired[g]
    BY <1>1 DEF Handled, Inv, TypeOK
  <2>2. cur' = IF "W" \in fired[fd] THEN fd ELSE NoFd
    BY <1>1 DEF Handled
  <2> QED
    BY <1>1, <2>1, <2>2, NamesAssumption DEF InBatch, Handled, Sane
<1>4. TypeOK'
  <2>1. fired' \in [Fds \cup {Listen} -> SUBSET {"R", "W"}] /\ data' \in [Fds -> BOOLEAN]
    BY <1>1 DEF ReadRequest, TakeBytes, Handled, Inv, TypeOK
  <2>2. pending' \in Nat /\ queue' \in Seq(Fds) /\ evmask' \in [Fds -> Masks]
    BY <1>1 DEF ReadRequest, Pool!Submit, Inv, TypeOK, Masks
  <2> QED
    BY <1>1, <1>3, <2>1, <2>2 DEF Inv, TypeOK
<1>5. /\ \A w \in Workers, g \in Fds : HeldBy(w, g)' <=> HeldBy(w, g)
      /\ \A g \in Fds : UNCHANGED <<Held(g), AtExec(g)>>
  BY <1>1 DEF HeldBy, Held, AtExec
<1>6. /\ DOMAIN queue' = DOMAIN queue \cup {Len(queue) + 1}
      /\ \A i \in DOMAIN queue : queue'[i] = queue[i] /\ i # Len(queue) + 1
      /\ queue'[Len(queue) + 1] = fd
  BY <1>1 DEF Inv, TypeOK
<1>7. InQueue(fd)' /\ \A g \in Fds \ {fd} : UNCHANGED InQueue(g)
  BY <1>6 DEF InQueue
<1>8. Elsewhere(fd)
  BY <1>1, <1>3, <1>5, <1>7 DEF Elsewhere, View, Inv, TypeOK
<1>9. Once'
  <2>1. \A i \in DOMAIN queue : queue[i] # fd
    BY <1>2 DEF Taken, InQueue
  <2>2. \A i, j \in DOMAIN queue' : queue'[i] = queue'[j] => i = j
    BY <1>6, <2>1 DEF Inv, Once
  <2>3. \A g \in Fds : ~(InQueue(g)' /\ Held(g)')
    BY <1>2, <1>5, <1>7 DEF Inv, Once, Taken
  <2> QED
    BY <1>1, <1>5, <2>2, <2>3 DEF Inv, Once
<1>10. Batch'
  BY <1>1, <1>3, NamesAssumption DEF Inv, Batch
<1>11. Local(fd)'
  BY <1>1, <1>2, <1>3, <1>5, <1>7, NamesAssumption
     DEF Inv, TypeOK, Local, Registered, BothArmed, Owing, HandedOver, ArmedReply, Progress, Taken
<1>12. \A g \in Fds : Local(g)'
  <2>1. ASSUME NEW g \in Fds \ {fd} PROVE Local(g)'
    BY <1>3, <1>8, NamesAssumption, ViewKeepsLocal DEF Elsewhere, Inv
  <2> QED
    BY <1>11, <2>1
<1> QED
  BY <1>1, <1>2, <1>4, <1>7, <1>8, <1>9, <1>10, <1>12 DEF Inv

-----------------------------------------------------------------------------
(* The workers.  A pop moves a connection from the queue to one worker. *)
LEMMA PopFiredKeeps ==
  ASSUME Inv, NEW w \in Workers, NEW fd \in Fds, PopFired(w), Head(queue) = fd
  PROVE  /\ Inv' /\ Elsewhere(fd) /\ UNCHANGED <<connections, live, owed>>
         /\ InQueue(fd) /\ ~InQueue(fd)' /\ Held(fd)' /\ AtExec(fd)'
<1>1. /\ UNCHANGED <<client, owed, conns, main, status, pending>>
      /\ status[w] = "running" /\ at[w] = "pop"
      /\ queue # <<>> /\ queue' = Tail(queue)
      /\ job' = [job EXCEPT ![w] = fd]
      /\ at' = [at EXCEPT ![w] = "exec"]
  BY DEF PopFired, Working, WorkerOnly
<1>2. /\ 1 \in DOMAIN queue /\ queue[1] = fd
      /\ \A i \in DOMAIN queue' : i + 1 \in DOMAIN queue /\ queue'[i] = queue[i + 1]
      /\ \A i \in DOMAIN queue : i # 1 => i - 1 \in DOMAIN queue' /\ queue'[i - 1] = queue[i]
      /\ queue' \in Seq(Fds)
  BY <1>1, SMTT(60) DEF Inv, TypeOK
<1>3. DOMAIN queue \subseteq Nat /\ DOMAIN queue' \subseteq Nat \ {0}
  <2>1. queue \in Seq(Fds) /\ queue' \in Seq(Fds)
    BY <1>2 DEF Inv, TypeOK
  <2>2. DOMAIN queue = 1 .. Len(queue) /\ DOMAIN queue' = 1 .. Len(queue')
    BY <2>1
  <2>3. Len(queue) \in Nat /\ Len(queue') \in Nat
    BY <2>1
  <2> QED
    BY <2>2, <2>3
<1>4. InQueue(fd) /\ ~InQueue(fd)' /\ \A g \in Fds \ {fd} : UNCHANGED InQueue(g)
  <2>1. InQueue(fd)
    BY <1>2 DEF InQueue
  <2>2. ASSUME NEW i \in DOMAIN queue' PROVE queue'[i] # fd
    <3>1. i + 1 # 1
      BY <1>3
    <3> QED
      BY <1>2, <3>1 DEF Inv, Once
  <2>3. ~InQueue(fd)'
    BY <2>2 DEF InQueue
  <2>4. ASSUME NEW g \in Fds \ {fd} PROVE InQueue(g)' = InQueue(g)
    <3>1. ASSUME InQueue(g)' PROVE InQueue(g)
      BY <1>2, <3>1 DEF InQueue
    <3>2. ASSUME InQueue(g) PROVE InQueue(g)'
      <4>1. PICK i \in DOMAIN queue : queue[i] = g
        BY <3>2 DEF InQueue
      <4>2. i # 1
        BY <1>2, <4>1
      <4> QED
        BY <1>2, <4>1, <4>2 DEF InQueue
    <3> QED
      BY <3>1, <3>2 DEF InQueue
  <2> QED
    BY <2>1, <2>3, <2>4
<1>5. /\ ~Held(fd)
      /\ \A v \in Workers, g \in Fds :
           HeldBy(v, g)' <=> (HeldBy(v, g) \/ (v = w /\ g = fd))
  BY <1>1, <1>2, <1>4 DEF HeldBy, Inv, TypeOK, Once
<1>6. /\ \A v \in Workers \ {w} : UNCHANGED at[v]
      /\ at'[w] = "exec" /\ ~HeldBy(w, fd)
      /\ \A g \in Fds : ~HeldBy(w, g)
  BY <1>1 DEF Inv, TypeOK, HeldBy
<1>7. Held(fd)' /\ AtExec(fd)' /\ \A g \in Fds \ {fd} : UNCHANGED <<Held(g), AtExec(g)>>
  BY <1>2, <1>5, <1>6 DEF Held, AtExec
<1>8. TypeOK'
  BY <1>1, <1>2 DEF Inv, TypeOK, client, conns, main
<1>9. Elsewhere(fd)
  BY <1>1, <1>4, <1>7 DEF Elsewhere, View, conns, main
<1>10. Once'
  <2>1. \A i, j \in DOMAIN queue' : queue'[i] = queue'[j] => i = j
    <3> TAKE i, j \in DOMAIN queue'
    <3>1. i \in Nat /\ j \in Nat
      BY <1>3
    <3>2. queue'[i] = queue'[j] => i + 1 = j + 1
      BY <1>2 DEF Inv, Once
    <3> QED
      BY <3>1, <3>2
  <2>2. \A u, v \in Workers, g \in Fds : HeldBy(u, g)' /\ HeldBy(v, g)' => u = v
    BY <1>2, <1>5, <1>6 DEF Inv, Once, Held
  <2>3. \A g \in Fds : ~(InQueue(g)' /\ Held(g)')
    BY <1>2, <1>4, <1>7 DEF Inv, Once
  <2>4. \A v \in Workers : status'[v] = "running" /\ at'[v] # "pop" => job'[v] \in Fds
    BY <1>1, <1>2 DEF Inv, TypeOK, Once
  <2> QED
    BY <2>1, <2>2, <2>3, <2>4 DEF Once
<1>11. Batch'
  BY <1>1 DEF Inv, Batch, client, main
<1>12. Local(fd)'
  BY <1>1, <1>2, <1>4, <1>7
     DEF Inv, TypeOK, Local, Registered, BothArmed, Owing, HandedOver, ArmedReply, Progress, Taken,
         conns, main
<1>13. \A g \in Fds : Local(g)'
  <2>1. ASSUME NEW g \in Fds \ {fd} PROVE Local(g)'
    BY <1>1, <1>9, ViewKeepsLocal DEF Elsewhere, Inv, main
  <2> QED
    BY <1>12, <2>1
<1> QED
  BY <1>1, <1>2, <1>4, <1>7, <1>8, <1>9, <1>10, <1>11, <1>13 DEF Inv, Sane, conns, main

(* What a worker does to the connection it has. *)
LEMMA WorkingOn ==
  ASSUME Inv, NEW w \in Workers, NEW fd \in Fds, job[w] = fd,
         NEW where \in {"exec", "arm"}, Working(w, where)
  PROVE  /\ HeldBy(w, fd) /\ Held(fd) /\ ~InQueue(fd)
         /\ \A v \in Workers \ {w} : ~HeldBy(v, fd)
         /\ live[fd] /\ "R" \notin evmask[fd] /\ "P" \in evmask[fd]
         /\ "W" \in evmask[fd] => flag[fd] /\ wproc[fd] = "write"
<1>1. HeldBy(w, fd) /\ Held(fd)
  BY DEF Working, Inv, Once, HeldBy, Held
<1> QED
  BY <1>1 DEF Inv, Once, Local, HandedOver, Registered, Taken

LEMMA ExecuteKeeps ==
  ASSUME Inv, NEW w \in Workers, NEW fd \in Fds, Execute(w), job[w] = fd
  PROVE  /\ Inv' /\ Elsewhere(fd) /\ UNCHANGED <<connections, live>>
         /\ AtExec(fd) /\ ~AtExec(fd)' /\ ~InQueue(fd)' /\ Held(fd)'
         /\ owed'[fd] # 0
<1>1. /\ UNCHANGED <<client, main, evmask, wproc, live, connections, queue, status, pending, job>>
      /\ wcount' = [wcount EXCEPT ![fd] = @ + ReplyLen]
      /\ owed' = [owed EXCEPT ![fd] = @ + ReplyLen]
      /\ at' = [at EXCEPT ![w] = "arm"]
      /\ Working(w, "exec")
      /\ flag' \in [Fds -> BOOLEAN] /\ \A g \in Fds \ {fd} : UNCHANGED flag[g]
      /\ flag[fd] => flag'[fd]
  BY DEF Execute, WorkerOnly, Inv, TypeOK
<1>2. /\ HeldBy(w, fd) /\ Held(fd) /\ ~InQueue(fd)
      /\ \A v \in Workers \ {w} : ~HeldBy(v, fd)
      /\ live[fd] /\ "R" \notin evmask[fd] /\ "P" \in evmask[fd]
      /\ "W" \in evmask[fd] => flag[fd] /\ wproc[fd] = "write"
  BY <1>1, WorkingOn
<1>3. /\ \A v \in Workers, g \in Fds : HeldBy(v, g)' <=> HeldBy(v, g)
      /\ \A v \in Workers \ {w} : UNCHANGED at[v]
      /\ at[w] = "exec" /\ at'[w] = "arm"
      /\ \A g \in Fds \ {fd} : ~HeldBy(w, g)
  BY <1>1 DEF Inv, TypeOK, HeldBy, Working
<1>4. /\ \A g \in Fds : UNCHANGED <<InQueue(g), Held(g)>>
      /\ \A g \in Fds \ {fd} : UNCHANGED AtExec(g)
      /\ AtExec(fd) /\ ~AtExec(fd)'
  BY <1>1, <1>2, <1>3 DEF InQueue, Held, AtExec
<1>5. TypeOK'
  BY <1>1, <1>2, BoundsAssumption DEF Inv, TypeOK, client, main
<1>6. Elsewhere(fd)
  BY <1>1, <1>4 DEF Elsewhere, View, main, Inv, TypeOK
<1>7. Once' /\ Batch'
  BY <1>1, <1>3, <1>4 DEF Inv, TypeOK, Once, Batch, client, main
<1>8. Local(fd)' /\ owed'[fd] # 0
  BY <1>1, <1>2, <1>4, BoundsAssumption
     DEF Inv, TypeOK, Local, Registered, BothArmed, Owing, HandedOver, ArmedReply, Progress, Taken,
         main
<1>9. \A g \in Fds : Local(g)'
  <2>1. ASSUME NEW g \in Fds \ {fd} PROVE Local(g)'
    BY <1>1, <1>6, ViewKeepsLocal DEF Elsewhere, Inv, main
  <2> QED
    BY <1>8, <2>1
<1> QED
  BY <1>1, <1>2, <1>4, <1>5, <1>6, <1>7, <1>8, <1>9 DEF Inv, Sane, main

LEMMA ReplyKeeps ==
  ASSUME Inv, NEW w \in Workers, NEW fd \in Fds, Reply(w), job[w] = fd
  PROVE  /\ Inv' /\ Elsewhere(fd) /\ UNCHANGED <<connections, live, owed>>
         /\ live[fd] /\ Held(fd) /\ ~AtExec(fd) /\ ~InQueue(fd)
         /\ ~Held(fd)' /\ ~InQueue(fd)'
<1>1. /\ UNCHANGED <<client, main, owed, live, flag, wcount, connections, queue, status, pending>>
      /\ evmask' = [evmask EXCEPT ![fd] = @ \cup {"W"}]
      /\ wproc' = [wproc EXCEPT ![fd] = "write"]
      /\ at' = [at EXCEPT ![w] = "pop"]
      /\ job' = [job EXCEPT ![w] = NoFd]
      /\ Working(w, "arm")
  BY DEF Reply, ArmWrite, WorkerOnly
<1>2. /\ HeldBy(w, fd) /\ Held(fd) /\ ~InQueue(fd)
      /\ \A v \in Workers \ {w} : ~HeldBy(v, fd)
      /\ live[fd] /\ "R" \notin evmask[fd] /\ "P" \in evmask[fd]
      /\ "W" \in evmask[fd] => flag[fd] /\ wproc[fd] = "write"
  BY <1>1, WorkingOn
<1>3. /\ \A v \in Workers \ {w}, g \in Fds : HeldBy(v, g)' <=> HeldBy(v, g)
      /\ \A v \in Workers \ {w} : UNCHANGED at[v]
      /\ \A g \in Fds : ~HeldBy(w, g)'
      /\ \A g \in Fds \ {fd} : ~HeldBy(w, g)
  BY <1>1 DEF Inv, TypeOK, HeldBy
<1>4. /\ \A g \in Fds : UNCHANGED InQueue(g)
      /\ \A g \in Fds \ {fd} : UNCHANGED <<Held(g), AtExec(g)>>
      /\ ~Held(fd)' /\ ~AtExec(fd)
  BY <1>1, <1>2, <1>3 DEF InQueue, Held, AtExec, Working
<1>5. TypeOK'
  BY <1>1, <1>2 DEF Inv, TypeOK, Masks, client, main
<1>6. Elsewhere(fd)
  BY <1>1, <1>4 DEF Elsewhere, View, main, Inv, TypeOK
<1>7. Once'
  <2>1. \A u, v \in Workers, g \in Fds : HeldBy(u, g)' /\ HeldBy(v, g)' => u = v
    BY <1>3 DEF Inv, Once
  <2>2. \A g \in Fds : ~(InQueue(g)' /\ Held(g)')
    BY <1>2, <1>4 DEF Inv, Once
  <2> QED
    BY <1>1, <2>1, <2>2 DEF Inv, TypeOK, Once
<1>8. Batch'
  BY <1>1 DEF Inv, Batch, client, main
<1>9. Local(fd)'
  BY <1>1, <1>2, <1>4
     DEF Inv, TypeOK, Local, Registered, BothArmed, Owing, HandedOver, ArmedReply, Progress, Taken,
         main
<1>10. \A g \in Fds : Local(g)'
  <2>1. ASSUME NEW g \in Fds \ {fd} PROVE Local(g)'
    BY <1>1, <1>6, ViewKeepsLocal DEF Elsewhere, Inv, main
  <2> QED
    BY <1>9, <2>1
<1> QED
  BY <1>1, <1>2, <1>4, <1>5, <1>6, <1>7, <1>8, <1>10 DEF Inv, Sane, main

-----------------------------------------------------------------------------
(* Every step is around the connections, of the poll, or about one of them. *)
AboutOne(fd) ==
  \/ Accept(fd) \/ ReadMore(fd) \/ ReadRequest(fd) \/ ReadRefused(fd) \/ ReadEnd(fd)
  \/ WriteReply(fd) \/ WriteFails(fd) \/ Destroy(fd)
  \/ \E w \in Workers : (PopFired(w) /\ Head(queue) = fd)
                        \/ ((Execute(w) \/ Reply(w)) /\ job[w] = fd)

LEMMA Steps ==
  ASSUME Inv, [Next]_vars
  PROVE  Around \/ PollReturn \/ \E fd \in Fds : AboutOne(fd)
<1>1. ASSUME NEW w \in Workers, Worker(w)
      PROVE  Around \/ \E fd \in Fds : AboutOne(fd)
  <2>1. CASE PopFired(w)
    <3>1. Head(queue) \in Fds
      BY <2>1 DEF PopFired, Inv, TypeOK
    <3> QED
      BY <2>1, <3>1 DEF AboutOne
  <2>2. CASE Execute(w) \/ Reply(w)
    <3>1. job[w] \in Fds
      BY <2>2 DEF Execute, Reply, Working, Inv, Once
    <3> QED
      BY <2>2, <3>1 DEF AboutOne
  <2> QED
    BY <1>1, <2>1, <2>2 DEF Worker, Around
<1>2. CASE MainLoop
  BY <1>2 DEF MainLoop, Around, AboutOne
<1>3. ~Undefined
  BY DEF Undefined, Inv
<1> QED
  BY <1>1, <1>2, <1>3 DEF Next, Around

(* The counter goes up by one with a connection that opens, and down by one *)
(* with a connection that closes.                                           *)
LEMMA CountKept ==
  ASSUME Inv, Counted, Sane', NEW fd \in Fds, Accept(fd) \/ Destroy(fd)
  PROVE  Counted' /\ (Destroy(fd) => connections > 0)
<1> DEFINE Open == {g \in Fds : live[g]}
<1>1. IsFiniteSet(Open)
  BY NamesAssumption, FS_Subset
<1>2. CASE Accept(fd)
  <2>1. {g \in Fds : live'[g]} = Open \cup {fd} /\ fd \notin Open /\ connections' = connections + 1
    BY <1>2 DEF Accept, Inv, TypeOK
  <2>2. ~Destroy(fd)
    BY <1>2, AtHand DEF Accept, Destroy, Writing
  <2> QED
    BY <1>1, <2>1, <2>2, FS_AddElement DEF Counted
<1>3. CASE Destroy(fd)
  <2>1. live[fd]
    BY <1>3, AtHand DEF Destroy, Writing
  <2>2. {g \in Fds : live'[g]} = Open \ {fd} /\ fd \in Open /\ connections' = connections - 1
    BY <1>3, <2>1 DEF Destroy, Inv, TypeOK
  <2>3. Cardinality(Open) \in Nat /\ Cardinality(Open \ {fd}) = Cardinality(Open) - 1
    BY <1>1, <2>2, FS_CardinalityType, FS_RemoveElement
  <2>4. Cardinality(Open) # 0
    BY <1>1, <2>2, FS_EmptySet
  <2>5. connections = Cardinality(Open) /\ connections' = Cardinality(Open \ {fd})
    BY <2>2, <2>3 DEF Counted
  <2>6. Counted'
    BY <2>2, <2>5 DEF Counted
  <2>7. connections > 0
    BY <2>3, <2>4, <2>5
  <2> QED
    BY <2>6, <2>7
<1> QED
  BY <1>2, <1>3

LEMMA AboutOneKeeps ==
  ASSUME Inv, Counted, Sane', NEW fd \in Fds, AboutOne(fd)
  PROVE  Inv' /\ Counted' /\ Elsewhere(fd)
<1>1. CASE Accept(fd)
  BY <1>1, AcceptKeeps, CountKept
<1>2. CASE Destroy(fd)
  BY <1>2, DestroyKeeps, CountKept
<1>3. CASE ReadMore(fd) \/ ReadRequest(fd) \/ ReadRefused(fd) \/ ReadEnd(fd)
           \/ WriteReply(fd) \/ WriteFails(fd)
  <2>1. Inv' /\ Elsewhere(fd) /\ UNCHANGED <<connections, live>>
    BY <1>3, ReadMoreKeeps, ReadRequestKeeps, ReadRefusedKeeps, ReadEndKeeps, WriteKeeps
  <2> QED
    BY <2>1 DEF Counted
<1>4. ASSUME NEW w \in Workers, (PopFired(w) /\ Head(queue) = fd)
                        \/ ((Execute(w) \/ Reply(w)) /\ job[w] = fd)
      PROVE  Inv' /\ Counted' /\ Elsewhere(fd)
  <2>1. Inv' /\ Elsewhere(fd) /\ UNCHANGED <<connections, live>>
    BY <1>4, PopFiredKeeps, ExecuteKeeps, ReplyKeeps
  <2> QED
    BY <2>1 DEF Counted
<1> QED
  BY <1>1, <1>2, <1>3, <1>4 DEF AboutOne

LEMMA Inductive ==
  ASSUME Inv, Counted, Sane', [Next]_vars
  PROVE  Inv' /\ Counted'
<1>1. CASE Around
  BY <1>1, AroundKeeps DEF Counted
<1>2. CASE PollReturn
  BY <1>2, PollKeeps DEF Counted
<1> QED
  BY <1>1, <1>2, Steps, AboutOneKeeps

(* There is no way back. *)
LEMMA AstrayStays ==
  ASSUME ~Sane, [Next]_vars
  PROVE  UNCHANGED vars
<1>1. ~Clients /\ \A w \in Workers : ~Worker(w)
  BY DEF Clients, Connect, Send, Hangup, Worker, WorkerOnly, Park, StartTask, PopFired, PopNothing,
         Execute, Reply
<1>2. ~MainLoop
  BY DEF Sane, MainLoop, InBatch, PollEnter, PollReturn, EndBatch, RunTask, NextRound, AcceptFails,
         Accept, ReadMore, ReadRequest, ReadRefused, ReadEnd, WriteReply, WriteFails, Destroy,
         Writing
<1> QED
  BY <1>1, <1>2 DEF Next, Undefined

(* The invariant holds as long as no connection has been cleared in the     *)
(* hands of a worker.                                                       *)
THEOREM AlwaysInv == Spec => [](Sane => Inv /\ Counted)
<1>1. Init => (Sane => Inv /\ Counted)
  BY InitInv
<1>2. (Sane => Inv /\ Counted) /\ [Next]_vars => (Sane => Inv /\ Counted)'
  <2> SUFFICES ASSUME Sane => Inv /\ Counted, [Next]_vars, Sane'
               PROVE  Inv' /\ Counted'
    OBVIOUS
  <2>1. Sane
    BY AstrayStays DEF Sane, vars, main
  <2> QED
    BY <2>1, Inductive
<1> QED
  BY <1>1, <1>2, PTL DEF Spec

(* Until the server has gone astray, a connection whose request waits for a *)
(* worker or is with one has exactly one owner, and the main loop has no    *)
(* event of it, armed or at hand, but the one that writes a refusal.        *)
THEOREM OneOwnerAlways == Spec => []OneOwner
<1>1. (Sane => Inv) => OneOwner
  BY DEF Inv, Once, Local, HandedOver, Taken, OneOwner
<1> QED
  BY <1>1, AlwaysInv, PTL

(* Until the server has gone astray, bytes that no worker is about to arm   *)
(* have the write event armed, with the procedure that writes them.         *)
THEOREM RepliesArmed == Spec => []ReplyArmed
<1>1. (Sane => Inv) => ReplyArmed
  BY DEF Inv, Local, ArmedReply, ReplyArmed
<1> QED
  BY <1>1, AlwaysInv, PTL

(* Until the server has gone astray, an open connection waits for an event, *)
(* for a worker, or has one.                                                *)
THEOREM NobodyForgotten == Spec => []Attended
<1>1. (Sane => Inv) => Attended
  BY DEF Inv, Local, Progress, Taken, Attended
<1> QED
  BY <1>1, AlwaysInv, PTL

(* Until the server has gone astray, svr->connections is the number of open *)
(* connections, and those are the ones registered with the poll.            *)
THEOREM ConnectionsCounted == Spec => []ConnectionCount
<1>1. (Sane => Inv /\ Counted) => ConnectionCount
  BY DEF Inv, Local, Registered, Counted, ConnectionCount
<1> QED
  BY <1>1, AlwaysInv, PTL

-----------------------------------------------------------------------------
(* The refinement: how a step about a connection moves it in Sessions. *)
Moves(fd) ==
  \/ Phase(fd)' = Phase(fd) /\ UNCHANGED Cleared(fd)
  \/ Phase(fd) = "free" /\ Phase(fd)' = "reading" /\ UNCHANGED Cleared(fd)
  \/ Phase(fd) = "reading" /\ Phase(fd)' = "queued" /\ UNCHANGED Cleared(fd)
  \/ Phase(fd) = "queued" /\ Phase(fd)' = "working" /\ UNCHANGED Cleared(fd)
  \/ Phase(fd) = "working" /\ Phase(fd)' \in {"replying", "parting"} /\ Cleared(fd)' = (fd \in MayBlock)
  \/ Phase(fd) \in {"reading", "parting"} /\ Phase(fd)' = "parting" /\ Cleared(fd)' = (fd \in MayBlock)
  \/ Phase(fd) = "replying" /\ Phase(fd)' = "reading" /\ Cleared(fd)'
  \/ Phase(fd) \in {"reading", "replying", "parting"} /\ Phase(fd)' = "closing" /\ Cleared(fd)'
  \/ Phase(fd) = "closing" /\ Phase(fd)' = "free" /\ Cleared(fd) /\ Cleared(fd)'
  \/ Phase(fd) = "parting" /\ Phase(fd)' = "overtaken" /\ UNCHANGED Cleared(fd)
  \/ Phase(fd) = "overtaken" /\ Phase(fd)' = "overtaken" /\ Cleared(fd)' = (fd \in MayBlock)
  \/ Phase(fd) = "overtaken" /\ Phase(fd)' = "parting" /\ UNCHANGED Cleared(fd)

(* The phases, by what the main loop knows of a connection. *)
PhaseBy(fd) ==
  /\ ~live[fd] => Phase(fd) = "free"
  /\ live[fd] /\ Taken(fd) /\ "W" \in evmask[fd] => Phase(fd) = "overtaken"
  /\ live[fd] /\ InQueue(fd) /\ "W" \notin evmask[fd] => Phase(fd) = "queued"
  /\ live[fd] /\ ~InQueue(fd) /\ Held(fd) /\ "W" \notin evmask[fd] =>
       Phase(fd) = IF AtExec(fd) THEN "working"
                   ELSE IF flag[fd] THEN "parting" ELSE "replying"
  /\ live[fd] /\ ~Taken(fd) =>
       Phase(fd) = IF "W" \notin evmask[fd] THEN "reading"
                   ELSE IF wproc[fd] = "close" THEN "closing"
                   ELSE IF flag[fd] THEN "parting" ELSE "replying"

LEMMA PhaseOf ==
  ASSUME NEW fd \in Fds
  PROVE  PhaseBy(fd) /\ PhaseBy(fd)'
BY DEF PhaseBy, Phase, AtExec, Taken

LEMMA MainLoopMoves ==
  ASSUME Inv, Sane', NEW fd \in Fds,
         Accept(fd) \/ ReadMore(fd) \/ ReadRequest(fd) \/ ReadRefused(fd) \/ ReadEnd(fd)
           \/ WriteReply(fd) \/ WriteFails(fd) \/ Destroy(fd)
  PROVE  Moves(fd)
<1> USE PhaseOf DEF Moves, Cleared, PhaseBy
<1>1. CASE Accept(fd)
  <2>1. Inv' /\ live'[fd] /\ evmask'[fd] = {"R", "P"} /\ owed'[fd] = 0 /\ ~live[fd]
    BY <1>1, AcceptKeeps, ZenonT(60) DEF Accept, Inv, TypeOK, Local, Registered
  <2>2. ~Taken(fd)' /\ (fd \in MayBlock \/ owed[fd] = 0)
    BY <2>1 DEF Inv, Local, HandedOver, Registered, Owing
  <2> QED
    BY <2>1, <2>2
<1>2. CASE ReadMore(fd)
  <2>1. UNCHANGED <<owed, live, evmask, wproc, flag, queue, status, at, job>>
    BY <1>2 DEF ReadMore, conns, pool
  <2> QED
    BY <2>1 DEF Phase, Taken, InQueue, Held, HeldBy
<1> USE AtHand
<1>3. CASE ReadRequest(fd)
  <2>1. /\ live[fd] /\ ~Taken(fd) /\ live'[fd] /\ InQueue(fd)' /\ UNCHANGED owed
        /\ "W" \in evmask'[fd] <=> "W" \in evmask[fd]
        /\ "W" \in evmask[fd] => flag[fd] /\ wproc[fd] = "write"
    BY <1>3, ReadRequestKeeps
  <2>2. Taken(fd)'
    BY <2>1 DEF Taken
  <2> QED
    BY <2>1, <2>2
<1>4. CASE ReadRefused(fd)
  <2>1. /\ live[fd] /\ ~Taken(fd) /\ live'[fd] /\ ~Taken(fd)'
        /\ "R" \in evmask[fd] /\ ("W" \in evmask[fd] => flag[fd] /\ wproc[fd] = "write")
    BY <1>4 DEF ReadRefused, pool, Taken, InQueue, Held, HeldBy, Inv, Local, BothArmed
  <2>2. "W" \in evmask'[fd] /\ wproc'[fd] = "write" /\ flag'[fd] /\ owed'[fd] # 0
    BY <1>4, BoundsAssumption DEF ReadRefused, ArmWrite, Inv, TypeOK
  <2> QED
    BY <2>1, <2>2
<1>5. CASE ReadEnd(fd)
  <2>1. /\ live[fd] /\ ~Taken(fd) /\ live'[fd] /\ ~Taken(fd)' /\ UNCHANGED <<flag, owed>>
        /\ InBatch(fd, "R") /\ Handled(fd, "R")
    BY <1>5 DEF ReadEnd, client, pool, Taken, InQueue, Held, HeldBy
  <2>2. CASE flag[fd]
    <3>1. UNCHANGED <<evmask, wproc>>
      BY <1>5, <2>2 DEF ReadEnd, CloseUnlessFlagged
    <3> QED
      BY <2>1, <3>1
  <2>3. CASE ~flag[fd]
    <3>1. evmask'[fd] = {"W", "P"} /\ wproc'[fd] = "close"
      BY <1>5, <2>3, InstallCloseSets DEF ReadEnd, CloseUnlessFlagged
    <3>2. "W" \notin evmask[fd] /\ (fd \in MayBlock \/ owed[fd] = 0)
      BY <2>1, <2>3 DEF Inv, Local, Owing
    <3> QED
      BY <2>1, <3>1, <3>2
  <2> QED
    BY <2>2, <2>3
<1>6. CASE WriteReply(fd) \/ WriteFails(fd)
  <2>1. /\ live[fd] /\ ~Taken(fd) /\ live'[fd] /\ ~Taken(fd)'
        /\ fd \in MayBlock \/ owed'[fd] = 0
        /\ "W" \in evmask[fd] /\ wproc[fd] = "write"
    BY <1>6, WriteKeeps
       DEF WriteReply, WriteFails, Writing, pool, Taken, InQueue, Held, HeldBy
  <2>2. InstallClose(fd) \/ (ReadAgain(fd) /\ ~flag[fd])
    BY <1>6 DEF WriteReply, WriteFails, AfterReply
  <2>3. \/ "W" \in evmask'[fd] /\ wproc'[fd] = "close"
        \/ "W" \notin evmask'[fd] /\ ~flag[fd]
    BY <2>2, InstallCloseSets, ReadAgainSets
  <2> QED
    BY <2>1, <2>3
<1>7. CASE Destroy(fd)
  <2>1. /\ live[fd] /\ ~Taken(fd) /\ "W" \in evmask[fd] /\ wproc[fd] = "close"
        /\ UNCHANGED owed /\ ~live'[fd]
    BY <1>7 DEF Destroy, Writing, Taken, Inv, TypeOK
  <2>2. ArmedReply(fd) /\ wcount[fd] \in Nat /\ (fd \in MayBlock \/ owed[fd] = wcount[fd])
    BY DEF Inv, TypeOK, Local, Owing
  <2>3. fd \in MayBlock \/ owed[fd] = 0
    BY <2>1, <2>2 DEF ArmedReply, Taken
  <2> QED
    BY <2>1, <2>3
<1> QED
  BY <1>1, <1>2, <1>3, <1>4, <1>5, <1>6, <1>7

LEMMA WorkerMoves ==
  ASSUME Inv, NEW fd \in Fds, NEW w \in Workers,
         (PopFired(w) /\ Head(queue) = fd) \/ ((Execute(w) \/ Reply(w)) /\ job[w] = fd)
  PROVE  Moves(fd)
<1> USE PhaseOf DEF Moves, Cleared, PhaseBy
<1>1. CASE PopFired(w) /\ Head(queue) = fd
  <2>1. live[fd] /\ UNCHANGED evmask
    BY <1>1, PopFiredKeeps DEF Inv, Local, HandedOver, Taken, PopFired, conns
  <2> QED
    BY <1>1, <2>1, PopFiredKeeps DEF Taken
<1>2. CASE Execute(w) /\ job[w] = fd
  <2>1. Held(fd) /\ ~InQueue(fd) /\ live[fd] /\ UNCHANGED evmask
    BY <1>2, WorkingOn DEF Execute
  <2> QED
    BY <1>2, <2>1, ExecuteKeeps DEF Taken
<1>3. CASE Reply(w) /\ job[w] = fd
  <2>1. "W" \in evmask'[fd] /\ wproc'[fd] = "write" /\ UNCHANGED flag
    BY <1>3 DEF Reply, ArmWrite, Inv, TypeOK
  <2>2. "W" \in evmask[fd] => flag[fd]
    BY <1>3, WorkingOn DEF Reply
  <2> QED
    BY <1>3, <2>1, <2>2, ReplyKeeps DEF Taken
<1> QED
  BY <1>1, <1>2, <1>3

(* The phases and the answers of all connections. *)
Phases == [fd \in Fds |-> IF Sane THEN Phase(fd) ELSE "lost"]
Answers == [fd \in Fds |-> Sane => Cleared(fd)]

(* A move of one connection is a step of Sessions, or none. *)
LEMMA MovesAreSteps ==
  ASSUME Sane, Sane', NEW fd \in Fds, Moves(fd),
         \A g \in Fds \ {fd} : Phase(g)' = Phase(g) /\ UNCHANGED Cleared(g)
  PROVE  [Session!Next]_(Session!vars)
<1>1. /\ Phases' = [Phases EXCEPT ![fd] = Phase(fd)']
      /\ Answers' = [Answers EXCEPT ![fd] = Cleared(fd)']
      /\ Phases[fd] = Phase(fd) /\ Answers[fd] = Cleared(fd)
  BY DEF Phases, Answers, Cleared
<1>2. UNCHANGED Cleared(fd) => UNCHANGED Answers
  BY <1>1 DEF Answers
<1>3. Cleared(fd)' => Answers' = [Answers EXCEPT ![fd] = TRUE]
  BY <1>1 DEF Cleared
<1>4. Cleared(fd)' = (fd \in MayBlock) => Answers' = [Answers EXCEPT ![fd] = fd \in MayBlock]
  BY <1>1
<1>5. CASE Phase(fd)' = Phase(fd) /\ UNCHANGED Cleared(fd)
  <2>1. UNCHANGED <<Phases, Answers>>
    BY <1>1, <1>2, <1>5 DEF Phases
  <2> QED
    BY <2>1 DEF Session!vars, Phases, Answers
<1>6. CASE ~(Phase(fd)' = Phase(fd) /\ UNCHANGED Cleared(fd))
  <2>1. \/ Session!Open(fd) \/ Session!Submit(fd) \/ Session!Take(fd) \/ Session!Answer(fd)
        \/ Session!Refuse(fd) \/ Session!Deliver(fd) \/ Session!Abandon(fd) \/ Session!Close(fd)
        \/ Session!Overtake(fd) \/ Session!AnswerToo(fd) \/ Session!Return(fd)
    <3> USE <1>1, <1>2, <1>3, <1>4, <1>6
        DEF Session!Move, Session!Owe, Session!Settle, Phases, Answers
    <3>1. CASE Phase(fd) = "free"
      BY <3>1 DEF Moves, Session!Open
    <3>2. CASE Phase(fd) = "reading"
      BY <3>2 DEF Moves, Session!Submit, Session!Refuse, Session!Abandon
    <3>3. CASE Phase(fd) = "queued"
      BY <3>3 DEF Moves, Session!Take
    <3>4. CASE Phase(fd) = "working"
      BY <3>4 DEF Moves, Session!Answer
    <3>5. CASE Phase(fd) = "replying"
      BY <3>5 DEF Moves, Session!Deliver, Session!Abandon
    <3>6. CASE Phase(fd) = "parting"
      BY <3>6 DEF Moves, Session!Refuse, Session!Abandon, Session!Overtake
    <3>7. CASE Phase(fd) = "closing"
      BY <3>7 DEF Moves, Session!Close
    <3>8. CASE Phase(fd) = "overtaken"
      <4>1. CASE Phase(fd)' = "overtaken"
        <5>1. Phases' = Phases /\ Cleared(fd)' = (fd \in MayBlock)
          BY <3>8, <4>1 DEF Moves
        <5> QED
          BY <3>8, <5>1 DEF Session!AnswerToo
      <4>2. CASE Phase(fd)' # "overtaken"
        BY <3>8, <4>2 DEF Moves, Session!Return
      <4> QED
        BY <4>1, <4>2
    <3> QED
      BY <3>1, <3>2, <3>3, <3>4, <3>5, <3>6, <3>7, <3>8 DEF Moves
  <2> QED
    BY <2>1 DEF Session!Next
<1> QED
  BY <1>5, <1>6

(* A step that makes the server astray is about a connection that was       *)
(* overtaken.                                                              *)
LEMMA GoingAstray ==
  ASSUME Inv, ~Sane', [Next]_vars
  PROVE  Session!Next
<1>1. PICK fd \in Fds : AboutOne(fd)
  BY Steps, StaysSane
<1>2. InBatch(fd, "W") /\ Taken(fd)
  <2>1. ~\E w \in Workers : PopFired(w) \/ Execute(w) \/ Reply(w)
    BY DEF PopFired, Execute, Reply, WorkerOnly, main, Sane
  <2>2. ~Accept(fd) /\ ~ReadMore(fd) /\ ~ReadRequest(fd) /\ ~ReadRefused(fd) /\ ~ReadEnd(fd)
    BY DEF Accept, ReadMore, ReadRequest, ReadRefused, ReadEnd, Handled, Sane
  <2>3. InBatch(fd, "W") /\ Handled(fd, "W")
    BY <1>1, <2>1, <2>2 DEF AboutOne, WriteReply, WriteFails, Destroy, Writing
  <2> QED
    BY <2>3 DEF Handled, Sane
<1>3. live[fd] /\ "W" \in evmask[fd]
  BY <1>2 DEF InBatch, Inv, Local, HandedOver
<1>4. Phase(fd) = "overtaken"
  BY <1>2, <1>3, PhaseOf DEF PhaseBy
<1>5. /\ Phases[fd] = "overtaken"
      /\ Phases' = [g \in Fds |-> "lost"]
      /\ Answers' = [g \in Fds |-> TRUE]
  BY <1>4 DEF Phases, Answers, Inv
<1>6. Session!Lose(fd)
  BY <1>5 DEF Session!Lose, Phases, Answers
<1> QED
  BY <1>6 DEF Session!Next

LEMMA StepsAreSessions ==
  ASSUME Sane => Inv /\ Counted, [Next]_vars
  PROVE  [Session!Next]_(Session!vars)
<1>1. CASE ~Sane
  <2>1. UNCHANGED vars
    BY <1>1, AstrayStays
  <2>2. \A fd \in Fds : UNCHANGED <<Phase(fd), Cleared(fd), Sane>>
    BY <2>1 DEF vars, conns, main, pool, Phase, Cleared, Taken, InQueue, Held, HeldBy, Sane
  <2> QED
    BY <2>2 DEF Session!vars
<1>2. CASE Sane /\ ~Sane'
  BY <1>2, GoingAstray
<1>3. CASE Sane /\ Sane'
  <2>1. CASE Around \/ PollReturn
    <3>1. \A fd \in Fds : Phase(fd)' = Phase(fd)
      BY <1>3, <2>1, AroundKeeps, ViewKeepsPhase, PollKeeps
    <3>2. \A fd \in Fds : owed'[fd] = owed[fd]
      BY <1>3, <2>1, AroundKeeps, PollKeeps DEF View
    <3> QED
      BY <1>3, <3>1, <3>2 DEF Session!vars, Cleared
  <2>2. ASSUME NEW fd \in Fds, AboutOne(fd)
        PROVE  [Session!Next]_(Session!vars)
    <3>1. Elsewhere(fd)
      BY <1>3, <2>2, AboutOneKeeps
    <3>2. \A g \in Fds \ {fd} : Phase(g)' = Phase(g) /\ UNCHANGED Cleared(g)
      BY <3>1, ViewKeepsPhase DEF Elsewhere, View, Cleared
    <3>3. Moves(fd)
      BY <1>3, <2>2, MainLoopMoves, WorkerMoves DEF AboutOne
    <3> QED
      BY <1>3, <3>2, <3>3, MovesAreSteps
  <2> QED
    BY <1>3, <2>1, <2>2, Steps
<1> QED
  BY <1>1, <1>2, <1>3

(* The server keeps the promise of Sessions: one request at a time, answered *)
(* once, and, where the send buffer takes whole replies, the answer         *)
(* delivered before the next request or the close.  The promise is lost     *)
(* only by a client that overtakes its refusal.                             *)
THEOREM SessionsKept == Spec => KeepsSessions
<1>1. Init => Session!Init
  <2> SUFFICES ASSUME Init PROVE Session!Init
    OBVIOUS
  <2>1. live = [fd \in Fds |-> FALSE] /\ owed = [fd \in Fds |-> 0] /\ Sane
    BY DEF Init, Sane
  <2>2. ASSUME NEW fd \in Fds PROVE Phase(fd) = "free" /\ (Sane => Cleared(fd)) = TRUE
    BY <2>1 DEF Phase, Cleared
  <2> QED BY <2>1, <2>2, Zenon DEF Session!Init
<1>2. (Sane => Inv /\ Counted) /\ [Next]_vars => [Session!Next]_(Session!vars)
  BY StepsAreSessions
<1> QED
  BY <1>1, <1>2, AlwaysInv, PTL DEF Spec, KeepsSessions, Session!Safety
=============================================================================
