----------------------------- MODULE WorkerPool -----------------------------
(***************************************************************************)
(* What the pool of cthread.c promises to its single caller, the main      *)
(* loop.  A worker is new until it parks for the first time, idle while it *)
(* waits to be called, called once a task has been handed to it, running   *)
(* while it executes the task, away on its way back, gone after shutdown.  *)
(*                                                                         *)
(* `pending' counts the calls of cthr_pool_run_task that have not yet      *)
(* chosen a worker.  The pool owes a call nothing when no worker is idle:  *)
(* the call is dropped, and the caller is not told.                        *)
(***************************************************************************)
EXTENDS Naturals

CONSTANT Workers   (* the threads of the pool *)

VARIABLES
  status,    (* what each worker is doing, as the caller may rely on it *)
  pending,   (* calls of cthr_pool_run_task that have not chosen yet    *)
  open       (* FALSE once cthr_pool_destroy has begun                  *)

vars == <<status, pending, open>>

Status == {"new", "idle", "called", "running", "away", "gone"}

TypeOK ==
  /\ status \in [Workers -> Status]
  /\ pending \in Nat
  /\ open \in BOOLEAN

Init ==
  /\ status = [w \in Workers |-> "new"]
  /\ pending = 0
  /\ open = TRUE

Is(s) == {w \in Workers : status[w] = s}

(* Nothing but Close shuts the pool; an instance may set `open' to a constant. *)
SameGate == open' = open

Become(w, s) == status' = [status EXCEPT ![w] = s]

(* A worker finishes its start-up or its last task and waits to be called. *)
Park(w) ==
  /\ status[w] \in {"new", "away"}
  /\ Become(w, "idle")
  /\ UNCHANGED pending /\ SameGate

(* The caller asks for one task to be run. *)
Submit ==
  /\ open
  /\ pending' = pending + 1
  /\ UNCHANGED status /\ SameGate

(* A call reaches an idle worker. *)
Call(w) ==
  /\ pending > 0
  /\ status[w] = "idle"
  /\ Become(w, "called")
  /\ pending' = pending - 1
  /\ SameGate

(* A call reaches nobody: allowed when no worker is idle, when a worker that *)
(* was called before has not noticed yet and takes this call as well, and    *)
(* while a worker is still starting, for its state is not set before it      *)
(* parks.                                                                    *)
Drop ==
  /\ pending > 0
  /\ Is("idle") = {} \/ Is("called") # {} \/ Is("new") # {}
  /\ pending' = pending - 1
  /\ UNCHANGED status /\ SameGate

Run(w) ==
  /\ status[w] = "called"
  /\ Become(w, "running")
  /\ UNCHANGED pending /\ SameGate

Finish(w) ==
  /\ status[w] = "running"
  /\ Become(w, "away")
  /\ UNCHANGED pending /\ SameGate

Close ==
  /\ open
  /\ pending = 0
  /\ open' = FALSE
  /\ UNCHANGED <<status, pending>>

(* Shutdown calls an idle worker without a task; a called worker leaves. *)
Dismiss(w) ==
  /\ ~open
  /\ status[w] = "idle"
  /\ Become(w, "called")
  /\ UNCHANGED pending /\ SameGate

Leave(w) ==
  /\ ~open
  /\ status[w] = "called"
  /\ Become(w, "gone")
  /\ UNCHANGED pending /\ SameGate

Next ==
  \/ Submit \/ Drop \/ Close
  \/ \E w \in Workers :
       Park(w) \/ Call(w) \/ Run(w) \/ Finish(w) \/ Dismiss(w) \/ Leave(w)

Safety == Init /\ [][Next]_vars

(* A called worker runs the task or leaves, and a running task returns. *)
Spec ==
  /\ Safety
  /\ \A w \in Workers : WF_vars(Run(w) \/ Leave(w)) /\ WF_vars(Finish(w))
=============================================================================
