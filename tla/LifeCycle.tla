------------------------------ MODULE LifeCycle ------------------------------
(***************************************************************************)
(* The life of the server: the plugin thread of MySQL that creates and     *)
(* destroys it (thr_socket.cpp, thr_socket_svr.c), the thread of mainLoop, *)
(* and the pool of ThreadPool, which both of them call.                    *)
(*                                                                         *)
(* The pool has one caller at a time: mainLoop from its start to its end,  *)
(* the plugin thread before and after.                                     *)
(***************************************************************************)
EXTENDS ThreadPool

CONSTANTS
  MaxBatch,        (* bound: requests that one poll pushes                   *)
  PromptDeinit,    (* deinit may come before mainLoop has set running        *)
  SpuriousWakeups  (* pthread_cond_wait may return unsignalled               *)

ASSUME BatchAssumption == MaxBatch \in Nat
ASSUME PromptAssumption == PromptDeinit \in BOOLEAN
ASSUME SpuriousAssumption == SpuriousWakeups \in BOOLEAN

VARIABLES
  ppc,        (* where the plugin thread is                                  *)
  lpc,        (* where the thread of mainLoop is                             *)
  running,    (* svr->running                                                *)
  calls,      (* what the last poll returned, less the calls made since      *)
  server,     (* the memory of *svr                                          *)
  evts,       (* the memory of *svr->evts                                    *)
  port        (* svr->in_fd                                                  *)

life  == <<ppc, lpc, running, calls, server, evts, port>>
lvars == <<vars, life>>

Memory == {"none", "live", "freed"}

LifeTypeOK ==
  /\ ppc \in {"create", "listen", "init", "up", "join", "destroy", "stop",
              "stopping", "server", "failed", "down"}
  /\ lpc \in {"none", "start", "test", "poll", "calls", "ended"}
  /\ running \in {0, 1}
  /\ calls \in 0 .. MaxBatch
  /\ server \in Memory /\ evts \in Memory
  /\ port \in {"none", "open", "closed"}

(* create_thr_server has allocated *svr and entered cthr_pool_create. *)
LifeInit ==
  /\ Init
  /\ ppc = "create" /\ lpc = "none"
  /\ running = 0 /\ calls = 0
  /\ server = "live" /\ evts = "none" /\ port = "none"

Plugin(from, to) == ppc = from /\ ppc' = to
Loop(from, to) == lpc = from /\ lpc' = to

-----------------------------------------------------------------------------
(* thr_socket_plugin_init and create_thr_server *)

CreateEvents ==
  /\ mpc = "ready"
  /\ Plugin("create", "listen")
  /\ evts' = "live"
  /\ UNCHANGED <<vars, lpc, running, calls, server, port>>

Listen ==
  /\ Plugin("listen", "init")
  /\ port' = "open"
  /\ UNCHANGED <<vars, lpc, running, calls, server, evts>>

(* The port is taken: destroy_thr_server. *)
ListenFails ==
  /\ Plugin("listen", "destroy")
  /\ UNCHANGED <<vars, lpc, running, calls, server, evts, port>>

(* server_init, and pthread_create of mainLoop. *)
StartLoop ==
  /\ Plugin("init", "up")
  /\ lpc' = "start"
  /\ UNCHANGED <<vars, running, calls, server, evts, port>>

-----------------------------------------------------------------------------
(* mainLoop *)

LoopStart ==
  /\ Loop("start", "test")
  /\ running' = 1
  /\ UNCHANGED <<vars, ppc, calls, server, evts, port>>

TestRunning ==
  /\ Loop("test", IF running = 1 THEN "poll" ELSE "ended")
  /\ UNCHANGED <<vars, ppc, running, calls, server, evts, port>>

Poll ==
  /\ Loop("poll", "calls")
  /\ calls' \in 0 .. MaxBatch
  /\ UNCHANGED <<vars, ppc, running, server, evts, port>>

CallRunTask ==
  /\ lpc = "calls" /\ calls > 0
  /\ RunTask
  /\ calls' = calls - 1
  /\ UNCHANGED <<ppc, lpc, running, server, evts, port>>

EndRound ==
  /\ mpc = "ready" /\ calls = 0
  /\ Loop("calls", "test")
  /\ UNCHANGED <<vars, ppc, running, calls, server, evts, port>>

MainLoop == LoopStart \/ TestRunning \/ Poll \/ CallRunTask \/ EndRound

-----------------------------------------------------------------------------
(* thr_socket_plugin_deinit and destroy_thr_server *)

TellNobody == UNCHANGED running    (* mutant: running is not cleared *)

TellLoop == running' = 0

(* A loop that has not begun to run is not told to stop, nor joined. *)
Deinit ==
  /\ PromptDeinit \/ lpc # "start"
  /\ TellLoop
  /\ Plugin("up", IF running = 1 THEN "join" ELSE "destroy")
  /\ UNCHANGED <<vars, lpc, calls, server, evts, port>>

NotRunning == running = 0          (* mutant: no join, running is enough *)

LoopLeft == lpc = "ended"

JoinLoop ==
  /\ LoopLeft
  /\ Plugin("join", "destroy")
  /\ UNCHANGED <<vars, lpc, running, calls, server, evts, port>>

ClosePort ==
  /\ Plugin("destroy", "stop")
  /\ port' = IF port = "open" THEN "closed" ELSE port
  /\ UNCHANGED <<vars, lpc, running, calls, server, evts>>

StopPool ==
  /\ Plugin("stop", "stopping")
  /\ Destroy
  /\ UNCHANGED <<lpc, running, calls, server, evts, port>>

PoolTold == mpc # "ready"          (* mutant: the threads are not joined *)

PoolGone == mpc = "destroyed"

FreeEvents ==
  /\ PoolGone
  /\ Plugin("stopping", "server")
  /\ evts' = "freed"
  /\ UNCHANGED <<vars, lpc, running, calls, server, port>>

FreeServer ==
  /\ Plugin("server", IF lpc = "none" THEN "failed" ELSE "down")
  /\ server' = "freed"
  /\ UNCHANGED <<vars, lpc, running, calls, evts, port>>

PluginThread ==
  \/ CreateEvents \/ Listen \/ ListenFails \/ StartLoop
  \/ JoinLoop \/ ClosePort \/ StopPool \/ FreeEvents \/ FreeServer

-----------------------------------------------------------------------------
(* The steps inside of cthr_pool_create, run_task and destroy, and those of  *)
(* the threads of the pool.                                                  *)
InPool == InOperation /\ UNCHANGED life
Threads ==
  \E w \in Workers :
    (Worker(w) \/ (SpuriousWakeups /\ SpuriousWake(w))) /\ UNCHANGED life

LifeNext == PluginThread \/ Deinit \/ MainLoop \/ InPool \/ Threads

(* As in ThreadPool; the plugin thread and mainLoop are scheduled, a poll    *)
(* ends by its timeout, and nobody is obliged to call deinit.                *)
LifeFairness ==
  /\ WF_lvars(PluginThread) /\ WF_lvars(MainLoop) /\ WF_lvars(InPool)
  /\ \A w \in Workers :
       /\ WF_lvars(Worker(w) /\ UNCHANGED life)
       /\ SF_lvars(EnterWait(w) /\ UNCHANGED life)
       /\ SF_lvars(Resume(w) /\ UNCHANGED life)

LifeSpec == LifeInit /\ [][LifeNext]_lvars /\ LifeFairness

-----------------------------------------------------------------------------
(* While mainLoop runs, the server and its events are there and its port is  *)
(* open: it is never destroyed under the loop.                               *)
ServerOutlivesLoop ==
  lpc \in {"start", "test", "poll", "calls"} =>
    server = "live" /\ evts = "live" /\ port = "open"

(* A task that runs, or is on its way to run, finds the events it was given. *)
EventsOutliveWorkers ==
  evts = "freed" => \A w \in Workers : pc[w] \in {"none", "exited"}

(* mainLoop obeys: deinit gets past its join.                                *)
LoopStops == ppc = "join" ~> ppc = "destroy"

(* A shutdown that finds all threads in their waits leaves nothing behind.   *)
QuietlyDown == Quiet ~> ppc \in {"down", "failed"} /\ server = "freed"
=============================================================================
