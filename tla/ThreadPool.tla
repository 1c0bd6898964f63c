----------------------------- MODULE ThreadPool -----------------------------
(***************************************************************************)
(* The thread pool of cthread.c: the worker's loop (thread_loop), the      *)
(* creation of the pool, cthr_pool_run_task and cthr_pool_destroy, at the  *)
(* grain of the accesses that other threads can see.                       *)
(*                                                                         *)
(* The pool has one caller.  It holds pool->mutex exactly while its        *)
(* control point is in MainHolds; a worker's own critical sections (store  *)
(* THR_IDLE and start waiting; wake up and release) touch nothing that is  *)
(* read outside the mutex in between and are one step each.                *)
(*                                                                         *)
(* The array of threads comes from jmalloc and is not cleared: state, proc *)
(* and proc_data hold arbitrary values until their first assignment.       *)
(***************************************************************************)
EXTENDS Naturals

CONSTANT NumThreads     (* pool->size *)

ASSUME NumThreadsAssumption == NumThreads \in Nat \ {0}

Workers == 1 .. NumThreads

VARIABLES
  poolState,   (* pool->state                                               *)
  tstate,      (* thr->state                                                *)
  proc,        (* thr->proc                                                 *)
  data,        (* thr->proc_data                                            *)
  pc,          (* where each worker is in thread_loop                       *)
  arg,         (* p.second, the argument a worker has loaded for its task   *)
  mpc,         (* where the caller is                                       *)
  idx          (* the caller's loop variable, then the thread it has chosen *)

vars == <<poolState, tstate, proc, data, pc, arg, mpc, idx>>

TStates == {"JUNK", "IDLE", "BUSY", "EXIT"}
Procs   == {"null", "task", "junk"}
Datas   == {"null", "evts", "junk"}
PCs     == {"none", "start", "lock", "wait", "woken", "check", "busy", "load",
            "call", "run", "clrproc", "clrdata", "exited"}
MPCs    == {"create", "ready", "scan", "setproc", "setdata", "signal",
            "dsignal", "join", "destroyed"}

MainHolds == {"scan", "setproc", "setdata", "signal"}

NeverLocked == TRUE                  (* mutant: run_task takes no mutex *)

MutexFree == mpc \notin MainHolds

TypeOK ==
  /\ poolState \in {"WORK", "EXIT"}
  /\ tstate \in [Workers -> TStates]
  /\ proc \in [Workers -> Procs]
  /\ data \in [Workers -> Datas]
  /\ pc \in [Workers -> PCs]
  /\ arg \in [Workers -> Datas]
  /\ mpc \in MPCs
  /\ idx \in Workers

Init ==
  /\ poolState = "WORK"
  /\ tstate \in [Workers -> {"JUNK", "IDLE"}]
  /\ proc \in [Workers -> {"null", "junk"}]
  /\ data \in [Workers -> {"null", "junk"}]
  /\ pc = [w \in Workers |-> "none"]
  /\ arg = [w \in Workers |-> "null"]
  /\ mpc = "create"
  /\ idx = 1

(* The loops over pool->thrs go on. *)
More(i) == i < NumThreads

Goto(w, label) == pc' = [pc EXCEPT ![w] = label]

(***************************************************************************)
(* thread_loop                                                             *)
(***************************************************************************)

(* thr_init_cb: the worker opens its database context. *)
Start(w) ==
  /\ pc[w] = "start"
  /\ Goto(w, "lock")
  /\ UNCHANGED <<poolState, tstate, proc, data, arg, mpc, idx>>

(* Lock, announce THR_IDLE, wait (which releases the mutex). *)
EnterWait(w) ==
  /\ pc[w] = "lock"
  /\ MutexFree
  /\ tstate' = [tstate EXCEPT ![w] = "IDLE"]
  /\ Goto(w, "wait")
  /\ UNCHANGED <<poolState, proc, data, arg, mpc, idx>>

(* pthread_cond_wait returns although nobody signalled.  Not a step of Next: *)
(* what Spec promises of tasks is promised of waits that end by signals     *)
(* only.  LifeCycle has it.                                                 *)
SpuriousWake(w) ==
  /\ pc[w] = "wait"
  /\ Goto(w, "woken")
  /\ UNCHANGED <<poolState, tstate, proc, data, arg, mpc, idx>>

ResumeCleared(w) ==                  (* mutant: proc is cleared after the wait *)
  /\ pc[w] = "woken"
  /\ MutexFree
  /\ proc' = [proc EXCEPT ![w] = "null"]
  /\ Goto(w, "check")
  /\ UNCHANGED <<poolState, tstate, data, arg, mpc, idx>>

(* A woken worker gets the mutex back and releases it. *)
Resume(w) ==
  /\ pc[w] = "woken"
  /\ MutexFree
  /\ Goto(w, "check")
  /\ UNCHANGED <<poolState, tstate, proc, data, arg, mpc, idx>>

(* The shutdown flag is read without the mutex. *)
CheckPoolState(w) ==
  /\ pc[w] = "check"
  /\ IF poolState = "EXIT"
     THEN /\ tstate' = [tstate EXCEPT ![w] = "EXIT"]
          /\ Goto(w, "exited")
     ELSE /\ Goto(w, "busy")
          /\ UNCHANGED tstate
  /\ UNCHANGED <<poolState, proc, data, arg, mpc, idx>>

(* THR_BUSY is stored without the mutex: until here run_task sees an idle *)
(* thread that no longer waits.                                           *)
SetBusy(w) ==
  /\ pc[w] = "busy"
  /\ tstate' = [tstate EXCEPT ![w] = "BUSY"]
  /\ Goto(w, "load")
  /\ UNCHANGED <<poolState, proc, data, arg, mpc, idx>>

LoadArg(w) ==
  /\ pc[w] = "load"
  /\ arg' = [arg EXCEPT ![w] = data[w]]
  /\ Goto(w, "call")
  /\ UNCHANGED <<poolState, tstate, proc, data, mpc, idx>>

CallProc(w) ==
  /\ pc[w] = "call"
  /\ Goto(w, IF proc[w] # "null" THEN "run" ELSE "clrproc")
  /\ UNCHANGED <<poolState, tstate, proc, data, arg, mpc, idx>>

(* The task returns; its argument is a local of the loop body. *)
ReturnFromProc(w) ==
  /\ pc[w] = "run"
  /\ arg' = [arg EXCEPT ![w] = "null"]
  /\ Goto(w, "clrproc")
  /\ UNCHANGED <<poolState, tstate, proc, data, mpc, idx>>

ClearProc(w) ==
  /\ pc[w] = "clrproc"
  /\ proc' = [proc EXCEPT ![w] = "null"]
  /\ Goto(w, "clrdata")
  /\ UNCHANGED <<poolState, tstate, data, arg, mpc, idx>>

ClearData(w) ==
  /\ pc[w] = "clrdata"
  /\ data' = [data EXCEPT ![w] = "null"]
  /\ Goto(w, "lock")
  /\ UNCHANGED <<poolState, tstate, proc, arg, mpc, idx>>

Worker(w) ==
  \/ Start(w) \/ EnterWait(w) \/ Resume(w) \/ CheckPoolState(w)
  \/ SetBusy(w) \/ LoadArg(w) \/ CallProc(w) \/ ReturnFromProc(w)
  \/ ClearProc(w) \/ ClearData(w)

(***************************************************************************)
(* The caller: cthr_pool_create, cthr_pool_run_task, cthr_pool_destroy     *)
(***************************************************************************)

(* cthread_init starts thread idx.  The loop that follows the creation of *)
(* the last thread waits for nothing.                                     *)
CreateThread ==
  /\ mpc = "create"
  /\ Goto(idx, "start")
  /\ IF More(idx)
     THEN idx' = idx + 1 /\ UNCHANGED mpc
     ELSE mpc' = "ready" /\ UNCHANGED idx
  /\ UNCHANGED <<poolState, tstate, proc, data, arg>>

RunTask ==
  /\ mpc = "ready"
  /\ mpc' = "scan"
  /\ idx' = 1
  /\ UNCHANGED <<poolState, tstate, proc, data, pc, arg>>

(* The first thread whose state reads THR_IDLE is chosen; when none does, *)
(* the loop leaves `thr' at the last thread and that one is chosen.       *)
ScanThread ==
  /\ mpc = "scan"
  /\ IF tstate[idx] # "IDLE" /\ More(idx)
     THEN idx' = idx + 1 /\ UNCHANGED mpc
     ELSE mpc' = "setproc" /\ UNCHANGED idx
  /\ UNCHANGED <<poolState, tstate, proc, data, pc, arg>>

AssignProc ==
  /\ mpc = "setproc"
  /\ proc' = [proc EXCEPT ![idx] = "task"]
  /\ mpc' = "setdata"
  /\ UNCHANGED <<poolState, tstate, data, pc, arg, idx>>

AssignData ==
  /\ mpc = "setdata"
  /\ data' = [data EXCEPT ![idx] = "evts"]
  /\ mpc' = "signal"
  /\ UNCHANGED <<poolState, tstate, proc, pc, arg, idx>>

SignalFirst(w) ==                    (* mutant: the wrong condition variable *)
  IF pc[1] = "wait" THEN Goto(1, "woken") ELSE UNCHANGED pc

(* pthread_cond_signal: without a waiter it has no effect. *)
Signal(w) == IF pc[w] = "wait" THEN Goto(w, "woken") ELSE UNCHANGED pc

SignalThread ==
  /\ mpc = "signal"
  /\ Signal(idx)
  /\ mpc' = "ready"
  /\ UNCHANGED <<poolState, tstate, proc, data, arg, idx>>

StopLater == UNCHANGED poolState     (* mutant: signals before it says why *)

Stop == poolState' = "EXIT"

Destroy ==
  /\ mpc = "ready"
  /\ Stop
  /\ mpc' = "dsignal"
  /\ idx' = 1
  /\ UNCHANGED <<tstate, proc, data, pc, arg>>

(* Each thread is signalled once, under the mutex, and then joined. *)
DestroySignal ==
  /\ mpc = "dsignal"
  /\ Signal(idx)
  /\ mpc' = "join"
  /\ UNCHANGED <<poolState, tstate, proc, data, arg, idx>>

NotIdle(w) == tstate[w] # "IDLE"       (* mutant: polls thr->state for the end *)

Left(w) == pc[w] = "exited"

Join ==
  /\ mpc = "join"
  /\ Left(idx)
  /\ IF More(idx)
     THEN mpc' = "dsignal" /\ idx' = idx + 1
     ELSE mpc' = "destroyed" /\ UNCHANGED idx
  /\ UNCHANGED <<poolState, tstate, proc, data, pc, arg>>

(* The steps the caller takes once it has entered an operation. *)
InOperation ==
  \/ CreateThread \/ ScanThread \/ AssignProc \/ AssignData
  \/ SignalThread \/ DestroySignal \/ Join

Next ==
  \/ RunTask \/ Destroy \/ InOperation
  \/ \E w \in Workers : Worker(w)

(* Threads are scheduled, the caller finishes an operation it has entered, *)
(* and tasks return.  Nobody is obliged to submit a task or to shut down.  *)
(* A thread that keeps asking for the mutex gets it in the end: the caller *)
(* may come back again and again, but returns to epoll_wait or usleep      *)
(* between two calls.                                                      *)
Fairness ==
  /\ WF_vars(InOperation)
  /\ \A w \in Workers :
       WF_vars(Worker(w)) /\ SF_vars(EnterWait(w)) /\ SF_vars(Resume(w))

Spec == Init /\ [][Next]_vars /\ Fairness

-----------------------------------------------------------------------------
(***************************************************************************)
(* Safety                                                                  *)
(***************************************************************************)

(* A worker runs a task only with the procedure and the argument that      *)
(* cthr_pool_run_task stored for it: the stores of the caller and the      *)
(* unlocked clears at the end of thread_loop never leave it with one half. *)
NoHalfTask ==
  \A w \in Workers : pc[w] = "run" => proc[w] = "task" /\ arg[w] = "evts"

(* cthr_pool_destroy frees the array of threads only when no thread can    *)
(* look at it any more.                                                    *)
NoWorkerAfterDestroy ==
  mpc = "destroyed" => \A w \in Workers : pc[w] = "exited"

(***************************************************************************)
(* Liveness                                                                *)
(***************************************************************************)

(* A thread that was signalled runs the task or notices the shutdown. *)
WokenWorkerRuns ==
  \A w \in Workers : pc[w] = "woken" ~> pc[w] \in {"run", "exited"}

(* Shutdown begins while every thread waits: see LifeCycle.                *)
Quiet == mpc = "dsignal" /\ idx = 1 /\ \A w \in Workers : pc[w] = "wait"

-----------------------------------------------------------------------------
(***************************************************************************)
(* The pool implements WorkerPool.  A waiting worker counts as called from *)
(* the moment the caller has chosen it: the caller keeps the mutex until   *)
(* it signals, so the worker cannot leave its wait in between.             *)
(***************************************************************************)
Chosen(w) == mpc \in {"setproc", "setdata", "signal"} /\ idx = w

(* Before its first wait and after a task a thread asks for the mutex; its *)
(* state tells the two apart.                                              *)
AbstractStatus(w) ==
  IF pc[w] \in {"none", "start"} \/ (pc[w] = "lock" /\ tstate[w] # "BUSY") THEN "new"
  ELSE IF pc[w] \in {"clrproc", "clrdata", "lock"} THEN "away"
  ELSE IF pc[w] = "wait" /\ ~Chosen(w) THEN "idle"
  ELSE IF pc[w] = "run" THEN "running"
  ELSE IF pc[w] = "exited" THEN "gone"
  ELSE "called"

Pool == INSTANCE WorkerPool
          WITH status  <- [w \in Workers |-> AbstractStatus(w)],
               pending <- IF mpc = "scan" THEN 1 ELSE 0,
               open    <- poolState = "WORK"

(* Every behaviour of cthread.c is one the abstract pool allows. *)
ImplementsWorkerPool == Pool!Spec
=============================================================================
