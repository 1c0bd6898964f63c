# Verification of thr_socket

thr_socket is a MySQL daemon plugin.  It listens on a TCP port, reads requests in a line
protocol or a multi-bulk protocol, and executes them (`ping`, `quit`, `insert`, `get`)
on a pool of threads that drive the storage engines through the handler interface.  One
thread, the main loop, does all the reading, parsing and writing; the pool executes
commands and composes replies.

This directory models that program in TLA+, checks the models with TLC on small
instances, and proves theorems about them with TLAPS for all instances.  Source paths
below are relative to `src/src/`.

## 1. Inventory

| Component | Source | State | Operations | Modelled by |
|---|---|---|---|---|
| worker pool | cthread.c | pool state; per thread state, proc, proc_data, condition variable; one mutex | create, run_task, destroy, thread_loop | WorkerPool, ThreadPool |
| life cycle | thr_socket.cpp, thr_socket_svr.c | svr, running, mainloop_thrid | plugin init and deinit, create and destroy, mainLoop | LifeCycle |
| event table and its backends | cevent.c, cevent_epoll.c, cevent_select.c, cevent_kqueue.c | per descriptor mask and procedures, maxfd; epoll set, kqueue filters or descriptor sets | add, del, poll | EventTable |
| event loop | cevent.c, thr_socket_svr.c | batch of fired events, queue of fired events, two locks | poll, push_fired, pop_fired, process_event, process_commond | EventServer |
| connections | network.c, cio.c | per connection: buffers, wcount, flag, mask | accept, read, reply, write, close | Sessions, EventServer |
| request parser | network.c 219-343, cstr.c, common.c | rbuf, reqtype, nbulk, bulk_len, argc, argv | read_process, try_process_command, ..._multibluk_command, str2ll | RequestParser |
| commands | thr_socket.cpp, thrs_handler.cpp | per worker: THD, lock, cache of open tables; per command: seq, record | open_table, parse_fields, open_index, insert, get, lock, unlock, close | Commands |
| hash table | dict.c | two tables, rehashidx, number of iterators | add, replace, find, del, clear, iterators | KeyMap, Dict |
| list | clist.c | ring of items, head, count | lpush, rpush, lpop, rpop, walk_remove | Deque, CList, SharedList |
| spin locks | spinlock.c, lock.h, atomic.h | a word | lock, unlock | SharedList |
| reference counted objects | obj.c | counter, lock, value | create, incr, decr | no (section 6) |
| allocator | jmalloc.c | bytes in use | jmalloc, jrealloc, jfree | no (section 6) |
| strings | cstr.c | header with length and free | extend, ncat, range, split | only what the parser uses |
| sockets, log, clock, variables of the plugin | cnet.c, log.c, timer.h, thr_socket.cpp | | wrappers and declarations | no |

How they interact: the main loop polls; the event procedures of network.c run in it.  A
complete request has its read event deleted and is pushed on the queue of fired events;
for every such event the main loop calls `cthr_pool_run_task`, which looks for an idle
thread and signals it.  A signalled thread runs `process_event`: it pops events until
the queue is empty, executes each command, appends the reply to the connection and arms
its write event under `cevts->lock`, which the main loop holds during `epoll_wait`.  The
main loop writes the reply and enables the read event again, or installs
`cio_close_destroy` as the write procedure.

What is hard here, and what makes each part correct:

- *Life cycle.*  Three kinds of threads use what one of them frees.  The loop must be
  joined before the server goes, the pool before its events.
- *Event table.*  The table, the kernel and the owner of a connection each keep an
  account of what a descriptor waits for, and nobody looks at the result of a call. The
  accounts must agree through every reuse of a number, and an event of a batch must
  still be wanted when its turn comes.
- *Pool.*  The main loop and the threads share fields of which only some are guarded by
  the mutex.  A task must arrive whole; a signalled thread must run it; shutdown must
  free the threads after the last of them has left.
- *Server.*  A connection changes hands twice per request without a lock of its own.  It
  must have one owner at a time, its reply must be armed and leave before the next
  request is read, it must always be in somebody's care, and it must be closed when it
  is to be.
- *Parser.*  It is restarted with every read.  The arguments must not depend on how the
  bytes were cut, positions must stay inside the buffers, and what has been refused must
  stay refused, whatever number it pretended to be.
- *Hash table.*  Entries move while they are looked up and iterated over.
- *List.*  Two directions of links and a count must agree after any sequence.
- *Commands.*  Several calls of MySQL may fail one after the other; the cache of tables,
  the lock and the statement must not outlive what they belong to, an insert must be all
  or nothing, and values must go where their names say.
- *Spin locks.*  A lock is looked at before it is set; what the list takes for granted,
  that its calls do not overlap, rests on it.

The hazards, line by line and with the properties aimed at each, are in `PROJECT.json`.

## 2. Modules

| Module | Stands for | Composes |
|---|---|---|
| WorkerPool | what the pool promises (abstract) | |
| ThreadPool | cthread.c, a step for every access another thread can see | implements WorkerPool |
| LifeCycle | plugin thread, mainLoop and pool, from init to deinit | extends ThreadPool |
| PoolProofs | theorems about both | extends LifeCycle |
| EventTable, EventTableProofs | the table of events, its three backends and its callers | |
| Sessions | what the server promises per connection (abstract) | |
| EventServer, EventServerProofs | clients, kernel, main loop, queue, workers | uses the actions of WorkerPool for its pool; implements Sessions |
| RequestParser, RequestParserProofs | the parser, bytes in, arguments out | |
| KeyMap, Dict, DictProofs | a map (abstract), the hash table | Dict implements KeyMap |
| Deque, CList, CListProofs | a double-ended queue (abstract), the ring of items | CList implements Deque |
| Commands, CommandsProofs | insert and get over MySQL | |
| SharedList, SharedListProofs | a list that threads share under a spin lock | extends CList |
| MCEventServer, MCRequestParser, MCDict, MCCommands | model values, inputs and symmetry for TLC | |

`map` in `PROJECT.json` names the lines behind every definition.  Mutants, which exist
to show that a property can fail, are marked as such where they are defined and are used
nowhere.

### ThreadPool

The caller (main loop, plugin thread) has the control point `mpc`; `pc[w]` is where
thread `w` is in `thread_loop`.  `RunTask`, `ScanThread`, `AssignProc`, `AssignData` and
`SignalThread` are `cthr_pool_run_task`; `EnterWait`, `Resume`, `CheckPoolState`,
`SetBusy`, `LoadArg`, `CallProc`, `ReturnFromProc`, `ClearProc` and `ClearData` are one
round of `thread_loop`.  The mutex is not a variable: it is held by the caller exactly
at the points of `MainHolds`, and the critical sections of a thread are single steps.
The array of threads comes uninitialised from `jmalloc`, so `Init` lets `state`, `proc`
and `proc_data` be anything.  `SpuriousWake`, a wait that ends without a signal, against
which the code has no loop, is an action that only LifeCycle takes.

A scan that finds no idle thread leaves the loop at the last thread and stores the task
there (cthread.c:126-132), although cthread.c:116 announces -1.  In WorkerPool this is
`Drop`: the call is lost.

### LifeCycle

`ppc` is the plugin thread in `thr_socket_plugin_init`, `create_thr_server`,
`thr_socket_plugin_deinit` and `destroy_thr_server`; `lpc` is `mainLoop`.  Both call the
pool, one after the other, through the actions of ThreadPool; its inner steps are
`InPool`, its threads `Threads`.  A poll is abbreviated to the number of calls of
`run_task` that follow it. `server`, `evts` and `port` are what is allocated, freed,
opened and closed.  A port that is taken leads from `ListenFails` to
`destroy_thr_server` at once.  deinit may come whenever the plugin is up; with
`PromptDeinit` FALSE not before `mainLoop` has set `running`.

### EventTable

One step per call of `cevents_add_event` or `cevents_del_event`: each is a critical
section under `cevts->lock`.  A handler that makes two calls (arm the write event, take
the read event back) has a control point between them, where a worker's `Reply` may
come.  `Watch` and `Unwatch` are the backend's part: epoll replaces what it watched and
refuses to add what it has, select keeps sets, kqueue a filter per event.  `ready` is
what is ready as the wait ends, chosen anew for each.  The numbers of descriptors matter
here, to `maxfd`, to `MAX_EVENTS` and to `FD_SETSIZE`; they are reused after `Close`.
What a handler does besides is in EventServer, which in turn takes the table as it is
shown to be here.

Two values of `at` are ends from which nothing can be said.  `outside`: a call has
written or read behind the table (the descriptor `MAX_EVENTS`, which cevent.c:83 lets
in) or behind the sets of select (cevent_select.c:25-37 and 55 look at no limit).
`astray`: a write event was handled on a connection that the workers have (below).
`Sane` is neither; `TableAgrees` and `NoStaleEvent` are about the program until then.

### EventServer

`mpc` is the main loop between `poll`, `polling` (the lock held in `epoll_wait`),
`batch` and `tasks`; `fired` and `cur` are the rest of the batch.  Every critical
section but the poll is short and one step.  `status` and `pending` are the variables of
WorkerPool, whose actions `Submit`, `Call`, `Drop`, `Park`, `Run` and `Finish` are used
as they are; ThreadPool shows that cthread.c implements them.  `at[w]` and `job[w]` are
a worker in `process_event`. Bytes have no content: `ReadMore`, `ReadRequest` and
`ReadRefused` are what the parser may say of them.  `owed` counts what a client has been
promised and not been sent, apart from `wcount`, which is what the code believes.

`MayBlock` is the set of sockets whose send buffer may fill up, so that a reply leaves
in parts.  A reply cut short is lost (section 4), so Sessions has a set of the same
kind, `Cut`, for whose sockets it does not promise that replies arrive.

A refused connection keeps its read event, and nobody asks for the flag before a request
is pushed: `ReadRequest` may follow `ReadRefused` on one connection.  The worker then
has it while the main loop has the refusal to write.  If the worker is first, the
connection ends as it should; in Sessions it is `overtaken` meanwhile.  If the main loop
is first, it clears or destroys the connection while a worker has it or it is queued:
`Handled` leads to `astray`, in Sessions to `lost`.  From there on memory that has been
freed is used, and the model stops (`Undefined`).  `Sane` is `mpc # "astray"`; the
properties are about the program until then, and `Undisturbed`, which says that it never
gets there, fails (`server_refused`).

Registrations carry `CEV_PERSIST`, except the one of a reply (network.c:112), which is
added to a mask that has it: `ConnectionCount` says that every open connection's has.
So the branches of cevent.c and network.c for events without it are dead and left out.

### RequestParser

`rbuf` is a sequence of bytes and `pos` the local variable of the parser.  One action
per early return and per turn of the loop over the bulks.  `cstr_range`, `cstr_split`,
`strstr` and `str2ll` are operators that do what the functions do, with their
boundaries.  `MaxCommand` is `MAX_COMMAND_LEN_LIMIT`, `MaxBulks` the 1024 of
network.c:257.  `Speaks` says, on the bytes of a client alone, that they are the request
it means: where each length and each argument begins, and that arrivals end only there
or at the end (`LaidOut`), or that they are one line of words (`SpeaksLine`).  The
clients of the run are checked to speak; the theorem on `AsMeant` is about all that do.
Numbers are read as `str2ll` reads them: `Shift` multiplies by ten modulo
`Word` (2^64) and takes the result as signed, and only the addition that follows is
tested for an overflow.  Requests are short enough not to make `rbuf` move, and no byte
is zero.

### Dict, CList

All operations of one caller.  Rehashing steps, expansion and the choice of table are
part of each operation as in the code.  `due` and `seen` are history variables for the
properties of iterators.  The caller keeps to what the callers in the repository do: it
does not delete the entry an iterator stands on, and clears the table only when it is in
no iteration.  In CList `clist_walk_remove`, which calls back, is a step per item; the
other calls are a step each.  A callback that keeps an item makes the walk go round for
ever (clist.c:72; nothing in the repository calls it), so `WalkReturns` is about walks
that keep nothing.  Such a walk may also remove the head and leave it dangling; `First`
finds the first item then, and `Order`, which maps the ring to a Deque, begins with it.

### Commands

One worker and its `db_ctx`: `pc` runs through `insert_command` or `get_command`.  MySQL
is outside: opening, locking, writing and committing may fail wherever the code looks at
a result, and the lock may be NULL where it does not.  A command has the names of its
fields, the number of values of each row, an index and perhaps a key.  `seq`, `filenum`
and `idx` are the variables of those names in the functions, `record` says which value
of the row is in each field, `undecided` counts rows in a statement that has not ended,
`stored` rows that are committed.  `Match` and `Known` are `thrs_parse_fields`;
`FillRecord` is the loop of `thrs_insert_inner` over the values.  Values read without
having been set (`rs` of thr_socket.cpp:69, the index number of thrs_handler.cpp:305,
places of `seq` that were not filled) are free choices. Three ends stand for a server
that dies: `astray`, the worker is outside its arrays, `nolock`, it has followed a lock
that is NULL, and `wild`, it has handed MySQL an array with places that were never
filled (`LockGarbage`).  `WellFormed` commands are those for which `SafeWhenWellFormed`
shows that the first does not happen.  What rows hold and what MySQL reads is left out.
The storage engine is taken to be transactional: one that is not keeps the rows of a
failed insert.  Each table is taken to have a key of its own in the cache; in the code
the key is the two names joined by a dot (thr_socket.cpp:17-21), so that the table `b.c`
of `a` and the table `c` of `a.b` share one.

### SharedList

A list that several threads use as the main loop and the workers use the queue of fired
events: `Call` ... `Leave` is the frame of `cevents_push_fired` and `cevents_pop_fired`,
`Test`, `Set` and `SetFails` are the test and the compare-and-set of `spinlock_lock`,
`Operate` is one call of clist.c.  The server makes two of these calls, `clist_lpush` and
`clist_rpop`; the others have no caller, and are made here in the same way.  The lock is
that of the server, contended there too.  Loads and stores take effect in the order of
the program: spinlock.h:28 unlocks by a plain store without a barrier, which a compiler
or a processor may move.  Locks are spin locks unless the build defines `USE_MUTEX`.

## 3. Runs

| Run | Instance | Checks | Shows |
|---|---|---|---|
| pool_tasks | 2 threads, waits end by signals | NoHalfTask, WokenWorkerRuns, ImplementsWorkerPool | tasks arrive whole in spite of the unlocked clears; a signal is never lost on a waiting thread; the pool is WorkerPool, liveness included |
| life | 2 threads, waits may end by themselves | ServerOutlivesLoop, EventsOutliveWorkers, NoWorkerAfterDestroy, LoopStops, QuietlyDown | nothing is freed under a thread that uses it; deinit passes its join, and a shutdown that finds the threads waiting completes |
| events | 3 backends, sockets 0, 2, 4 and 5, a table of 4, sets of 3 | TableAgrees, NoStaleEvent, PollMissesNothing | table, `maxfd` and kernel agree; a wait reports what it should; no event of a batch is stale |
| server | 2 connections, one with a send buffer that fills up, 1 worker | OneOwner, ReplyArmed, ConnectionCount, Attended, KeepsSessions | ownership of connections over every interleaving; only steps of Sessions |
| server_refused | 1 connection, 1 worker | Undisturbed *violated* | a client that goes on after a refusal has its connection cleared in the hands of a worker |
| server_one | 1 connection, 2 workers | OneOwner, RefusedCloses, AbandonedCloses, ActiveWorkerDrains, ImplementsSessions | no two workers have a connection; what must happen happens; the server is Sessions, liveness included |
| server_lost | 1 connection, 1 worker | RequestServed *violated* | a request can stay in the queue for ever |
| parser | requests cut at items, lines cut anywhere, mistakes and numbers cut anywhere | InBounds, AsMeant, RefusedForGood | arguments do not depend on such cuts; no position leaves its buffer; what is refused stays so, but for numbers too long |
| parser_split | requests cut anywhere | AsMeant *violated* | a bulk cut by the end of a read is corrupted |
| dict | 3 keys, 2 values, 2 iterators | TablesAgree, WalkComplete, NeverTwice, ImplementsMap | rehashing is invisible to lookups and iterators |
| list | 2 threads, 3 items, 2 values | Exclusive, Ring, WalkReturns, ImplementsDeque | the lock excludes, so that calls do not overlap; the ring is sound, the list is a queue |
| commands | 2 tables, 3 fields, up to 3 rows | NamesAreOpen, AccessUnderLock, NothingLocked, InsertIsAtomic, SafeWhenWellFormed, ValuesWhereNamed | cache, lock, statement, arrays and fields over any sequence of commands and failures |

Bounds, and why they are enough.  *Threads:* the conflicts of the pool are between the
caller and one thread, or between two threads for a task; two show both, and the
theorems need no bound.  *Connections:* interference is between a descriptor's old and
new connection (one suffices, descriptors are reused), between two for a worker (two, in
`server`), or between two workers for a connection (`server_one`). The two are taken
apart to keep the runs short; the theorems have any number of both. `MaxBacklog` = 1
accepts one after the other, `MaxOwed` stops a client that is owed replies from sending
for ever; at 2 a connection can be refused twice before it is closed. `ReplyLen` = 1
makes replies leave whole unless two are in the buffer, which with `MayBlock` shows a
partial write.  *Parser:* `MaxCommand` = 24 and `MaxBulks` = 8 are passed by the inputs,
so that both limits are met. `Word` = 256 lets the numerals of the inputs go round: 260
is taken for 4, 261 for 5.  *Life:* two threads, of which one may run while the other
waits; one call of `run_task` after a poll, for the calls are alike.  *Events:* of the
sockets one lies below the listener, one between it and the limit of the sets, one at
the limit of the table and one beyond that; `maxfd` starts below, among and above them,
and each is opened and closed any number of times.  *Lists:* three items have a first, a
last and one between; two threads are at the lock at a time.  *Dict:* tables of one, two
and four hold chains of up to three and go through two rehashes.  *Commands:* three rows
put a failure first, last and in the middle; three names overrun the two places of `seq`
and eight are refused, names include one that begins another and one that is unknown,
and rows have fewer values, as many and more.

`CHECK_DEADLOCK FALSE` stands where the program really stops: after shutdown of the pool
(pool_tasks) or of the server (life), after a complete request, and when a command has
brought the server down (commands).

Fairness.  Threads are scheduled (weak fairness of their steps, taken together per
thread), the caller finishes what it has begun, tasks and callbacks return.  Strong
fairness stands in two places: a thread that asks for the pool's mutex gets it, because
the caller sleeps in `epoll_wait` or `usleep` between two calls; and a worker that asks
for `cevts->lock` gets it although the poll takes it again and again, because
cevent.c:189 sleeps after every round for this purpose.  In LifeCycle the plugin thread
and mainLoop are scheduled and a poll ends by its timeout.  Nobody is obliged to submit
a task, to call deinit, to connect or to send.

## 4. What the runs found

- *A queued request may wait for ever* (`server_lost`).  A worker whose last pop found
  the queue empty is idle only when it is back in its wait.  A request pushed in between
  finds no idle thread, and no thread is called for it again until another request
  arrives.  `ActiveWorkerDrains` is what holds instead.
- *A bulk cut by the end of a read is corrupted* (`parser_split`).  network.c:306 keeps
  the range up to -1, which is exclusive: the last byte received is lost, and the bytes
  of the bulk at hand are skipped although they have not been taken.
- *A refused connection is handed to a worker and then destroyed* (`server_refused`).
  network.c:283-290 refuses a request after its first bulk and leaves `nbulk`, `argv`
  and `rbuf` alone; cevent.c:172 goes on reading, and the parser, started again, may
  find the request complete.  It is pushed with the write event of the refusal armed:
  network.c:87 frees `argv`, and network.c:59 the connection, while a worker has them.
  network.c:249 lets the same happen to a number whose line is over the limit and had no
  end yet.

Other departures.  The properties hold under an assumption, named here, that leaves them
out, or say by themselves that they are about the rest.

- *Pool.*  cthread.c:126: a task for which no thread is idle goes to the last thread, is
  lost, and 0 is returned (`Drop`).  cthread.c:107: creation does not wait for the
  threads to be idle.  cthread.c:21: a wait that ends by itself runs whatever the slots
  hold; `NoHalfTask` and the refinement assume that it does not.
- *Life cycle.*  thr_socket.cpp:185: deinit that comes before `mainLoop` has set
  `running` frees the server without joining the loop; with `PromptDeinit` TRUE
  `ServerOutlivesLoop` fails.  A shutdown that finds a thread at work, or one not yet
  waiting, may never return (cthread.c:70), and so may the end of a creation whose port
  is taken.  Read, not modelled: at shutdown the descriptor of epoll, the open
  connections and the events in the queue are left behind, and closing the log closes
  descriptor 1.
- *Event table.*  cevent.c:50 swaps the arguments of `memset`, so that `maxfd` starts
  with what was in memory (`Garbage`); `TableAgrees` holds all the same, but select
  looks behind its sets if that is too much.  cevent.c:83 and 109 test with
  `fd > MAX_EVENTS`, which lets the descriptor one behind the table in; and with select
  a descriptor of `FD_SETSIZE` or more, which the table accepts, is written behind the
  sets (cevent_select.c:27-28, 34-35, 55).  Both end the model (`outside`).  A connection
  beyond the table is accepted,
  and never served, because network.c:45 ignores the refusal. With `ReadsFirst` FALSE
  `NoStaleEvent` fails for kqueue: the write event of a refused connection, handled
  before its read event, clears the flag, and the read event hands a request of a
  connection about to be destroyed to a worker.  cevent_kqueue.c:66 takes the
  milliseconds of the timeout for nanoseconds.
- *Connections.*  network.c:75: when `write` returns `EAGAIN` the rest of the reply is
  dropped; so Sessions does not promise replies to the sockets of `Cut`.  A request that
  is refused can be completed by the bytes that follow in two cases, after its first
  bulk (network.c:283-290), and because a line with a number is over the limit and has
  no end yet (network.c:249): the length is not looked at when the end has come, and
  zeros in front make a long number right.  `RefusedForGood` holds of all other
  refusals.  cio.c:76: what has been received behind a request is dropped with it.
- *Numbers.*  common.c:26: `v *= 10` may go round before the test; a numeral of more
  than 64 bits is taken for a small number.
- *Buffers.*  When `rbuf` or `wbuf` grows it may move, and network.c:232 (121, 136, 155,
  181, 191) drops the new address.  Requests and replies are taken to fit the first
  kilobyte.
- *Commands.*  thrs_handler.cpp:247-249: with two tables open, which `get` with an
  unknown index brings about (thr_socket.cpp:107), all but one place of the array to be
  locked hold garbage, and the lock is of arbitrary tables (`PassedTables`) or the
  server dies (`wild`); `AccessUnderLock` is about one open table.  thrs_handler.cpp:259:
  without a lock the message before the test for NULL reads it, and the server dies
  (`nolock`).  thrs_handler.cpp:283: a commit that fails is not reported;
  `InsertIsAtomic` promises nothing of the answer 0.  thr_socket.cpp:68: `seq` is passed
  with its size in bytes for its places, and the answer -1, for a name that is unknown,
  is no limit for the values of a row.  thr_socket.cpp:113: `get` with six arguments
  reads a seventh. thrs_handler.cpp:305: for an index that is named, a variable without
  a value is returned.  These are what `SafeWhenWellFormed` excepts.
  thrs_handler.cpp:158: a name stands for the first field that begins with it;
  `ValuesWhereNamed` is about names that no earlier field begins with.
- *Allocator.*  Read, not modelled: `jrealloc` allocates `s` bytes, not `s +
  MEM_PREFIX_SIZE` (jmalloc.c:65), so that the block is four bytes short; and its
  difference of sizes is unsigned and of 32 bits, so that a block that shrinks would
  raise the count of bytes in use by nearly 2^32 (no caller shrinks one).

## 5. Theorems

All are proved from the assumptions named in the modules, for every value of the
constants.

- *PoolProofs.*  Of ThreadPool: `TypeCorrect`; `TasksAreComplete` and `Refinement`
  (every step of cthread.c is a step of WorkerPool or a stutter) when waits end by
  signals; `FreedAfterLast` with or without that.  The invariant has three parts.
  `TaskInv` relates the two slots of a thread to where it is and to where the caller is:
  a chosen thread is in its wait or has lost its signal, and between the two stores
  exactly one slot is filled. It is needed because the clears of `thread_loop` are
  outside the mutex: only the position of the thread shows that no store falls between
  them. `StatusInv` says what `state` means at each position, `JoinInv` that the threads
  before the index of the join have left.  Of LifeCycle: `LifeTypeCorrect`;
  `WorkersHaveEvents` and `ServerFreesPoolLast` whenever deinit comes and however waits
  end; `LoopHasServer` with `PromptDeinit` FALSE.  Every step of LifeCycle is one of
  ThreadPool or leaves the pool alone (`PoolOrStutter`), so the theorems about the pool
  carry over; what is added says where the pool is when the plugin thread calls it
  (`CallInv`), what is in memory at each phase (`MemoryInv`), and when `running` is set
  (`LoopInv`).
- *EventTableProofs.*  `TableTypes`, `AccountsAgree`, `NothingStale`, `PollComplete`,
  for any descriptors, any limits of the table and the sets and any initial `maxfd`, if
  kqueue is not used or reports reads first (`InOrder`).  The first three are about the
  program until it is `outside` or `astray`, and the invariant is `Sane => IInv`: the
  two are ends (`UndefinedStays`), so a step to a sane state is from one.  The fourth
  needs no such condition, for a wait that would look behind the sets does not
  return.  That the table agrees with the kernel
  depends on who may call: a close must find its entry empty, and no worker may arm an
  event between the two.  So the invariant speaks of the connections that workers have
  (`AwayInv`), of those with both events armed (`BothInv`) and of what holds before each
  pending call (`CallInv`).
- *EventServerProofs.*  `OneOwnerAlways`, `RepliesArmed`, `NobodyForgotten`,
  `ConnectionsCounted`, and `SessionsKept`: every step of the server is a step of
  Sessions, or none.  Nothing is assumed of the clients: what they may do after a
  refusal is part of it.  The invariant (`AlwaysInv`, `Sane => Inv /\ Counted`) has a
  part for each connection, `Local(fd)`: it is registered if open, an event at hand is
  one that is armed, both events are armed only on a connection to be closed after its
  reply, an event is armed unless the workers have the connection, one that the workers
  have has at most the write event of a refusal (`HandedOver`), and so on.  The step
  that goes astray is a step of Sessions too (`GoingAstray`), its `Lose`.  `Once`
  (queue and workers have a connection at most once between them) and `Batch` (where in
  the batch the loop is) are the parts that are not of one connection.  A step touches
  the variables of one connection; `View` and `Elsewhere` say so, and take the invariant
  and the phase of all others over at once.
- *DictProofs.*  `Invariance`, `TablesAlwaysAgree`, `WalksAreComplete`,
  `NeverTwiceHolds` and `ImplementsMapHolds`, for any keys, values, hash and iterators.
  `TablesAgree` is nearly inductive: `DictOK` adds that a rehashing table has an old
  half that is not empty of buckets.  What the iterators need is in `Walk`: the keys
  still due come after the one the iterator is at, in the order in which it goes through
  the two tables (`Comes`), and the keys seen do not.  That this order does not change
  under an iterator is `Undisturbed`, and the reason why rehashing stops while there is
  one.  Each step of the model that makes a new dictionary of one (a rehashing step, an
  expansion, an insertion, ...) has a lemma that says what it keeps; an action is a
  chain of them.  Loops through buckets and chains are recursive functions.  What they
  return is proved with the lemmas `HasLeast`, `Induction` and `StepByStep`, which speak
  of sets of numbers where the library's theorems take a predicate.
- *CListProofs.*  `RingAlways`.  That the items are *one* ring is said without counting
  along it: no part of them, but for all and none, is closed under `next`.  Inserting or
  removing an item keeps this, since a closed part of the new ring, with the item added
  or taken away, is one of the old.  `ImplementsDequeHolds`: read from any of its items
  on, such a ring comes by each of them once (`OrderIsAll`), and an insertion or a
  removal changes this order in one place (`PushOrder`, `PopOrder`).  `FirstInv` is what
  has to be known of walks that leave the head dangling: from the head exactly one item
  is reached first.
- *CommandsProofs.*  `TypeCorrect`, `CacheIsRight`, `LockedAccess`, `NothingRemains`,
  `AllOrNothing`, `StaysInArrays`, `ValuesInPlace`.  The parts of the invariant follow
  the phases of a command: lock and cache (`LockInv`, `TableInv`), rows written and
  decided (`RowInv`), and what `seq`, `filenum` and `idx` say about a well formed
  command (`PlaceInv`).
- *RequestParserProofs.*  `ParserInBounds`.  `InBounds` alone is not inductive: `BInv`
  adds the types of the numbers (`Numbers`), that a parser at work on bulks has a
  multi-bulk request (`Phase`), that places taken and bulks to come add up to the places
  there are (`Slots`), and where the position may be (`Position`).
  `RefusedStaysRefused` states `RefusedForGood`.  It needs to know that what was refused
  is still in `rbuf`, will be looked at by the same part of the parser, and is as wrong
  as before (`Hopeless`): bytes that are appended change neither the first line end nor
  the number before it (`Longer`).  `Fresh` says that a parser between requests has
  nothing of an earlier one, `TooLongLeft` that a first line end that comes after the
  refusal is over the limit.  `TakenAsMeant` states `AsMeant`, under the one assumption
  that clients that mean something speak the protocol (`Speaks`).  Its invariant follows
  the parser through the client's own bytes: `rbuf` is the end of what has arrived
  (`Window`), the arguments taken are the first ones meant (`Taking`), and the parser is
  at the length or at the body of the next (`Offset`).  `LineFound` carries a line from
  the client's bytes to `rbuf`: its end is the first the parser finds, and its number the
  one it reads.  No arrival ends within an item, so a call that wants more has nothing
  left over, which is what the byte that `cstr_range` drops would otherwise come from.
  The assumption also has the last length begin within `MaxCommand`: a request that goes
  on behind that, if it arrives at once and ends behind an argument, is refused as too
  long (network.c:272).  That a list of arguments, written out, is laid out so (for every
  list) would be an induction over the list, as would that `Split` returns the words
  that were joined; the clients of the run are checked one by one.
- *SharedListProofs.*  `LockIsExclusive`, `SharedRing`, `SharedDeque`.  The invariant says
  that the lock is set while a thread is between lock and unlock, and that a walk under
  way is that of such a thread (`LockInv`, `WalkerInv`).  So every step of the threads is
  a step of CList or leaves the list alone, and what CListProofs shows carries over.

Only model-checked: all liveness (`WokenWorkerRuns`, `RefusedCloses`,
`AbandonedCloses`, `ActiveWorkerDrains`, `WalkReturns`, `LoopStops`,
`QuietlyDown`), and with it the second half of the refinements of WorkerPool and
Sessions, for fairness and ENABLED are out of the prover's reach.  Every safety property
the passing runs check is a theorem.

## 6. Not modelled

- *Allocator.*  Its only state is a counter of bytes, changed by one atomic addition per
  call, and shown by a variable of the plugin; nothing in the server depends on it.
- *Strings that move.*  From the moment a buffer has moved and its old address is used,
  behaviour is undefined, and every property of a request would have to except it. The
  boundary is named in section 4.
- *Sockets, log, clock, variables of the plugin.*  Wrappers of calls of the system,
  output, and declarations, without state of their own.
- *Reference counted objects.*  `obj_incr` has no caller, and only the main loop calls
  `obj_decr`: no two threads share an object, its counter is 1 until it is freed, and a
  model of threads that do share one would be of another program.
- *MySQL.*  Its calls succeed or fail; tables, keys and rows have no contents.
- *Commands after the first life.*  LifeCycle ends with the first deinit.
- In the hash table the reference counts of entries and `dict_destroy`; in the spin lock
  `trylock`, which has no caller, and the build with `USE_MUTEX`.

What could come next: a model of cstr.c with addresses, in which the callers of
`cstr_ncat` can be told from those that keep its result.
