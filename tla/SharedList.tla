----------------------------- MODULE SharedList -----------------------------
(***************************************************************************)
(* A list that threads share under a spin lock, as the main loop and the   *)
(* workers share the queue of fired events under qlock: cevents_push_fired *)
(* and cevents_pop_fired lock, make one call of clist.c, and unlock.  The  *)
(* calls of clist.c that nobody makes so far are made in the same way.     *)
(*                                                                         *)
(* Loads and stores of the lock take effect in program order:              *)
(* spinlock_unlock is a plain store without a barrier, and what a compiler *)
(* or a processor may make of that is left out.                            *)
(***************************************************************************)
EXTENDS CList

CONSTANT Threads

VARIABLES
  lock,       (* cevts->qlock                                                *)
  pc          (* where each thread is in cevents_push_fired or _pop_fired    *)

sharedVars == <<vars, lock, pc>>

SharedTypeOK ==
  /\ lock \in {"unlocked", "locked"}
  /\ pc \in [Threads -> {"out", "test", "set", "in", "walk", "leave"}]

SharedInit ==
  /\ Init
  /\ lock = "unlocked"
  /\ pc = [t \in Threads |-> "out"]

Step(t, from, to) == pc[t] = from /\ pc' = [pc EXCEPT ![t] = to]

Call(t) == Step(t, "out", "test") /\ UNCHANGED <<vars, lock>>

-----------------------------------------------------------------------------
(* spinlock_lock: look at the lock, and set it if it still is as seen. *)
Test(t) ==
  /\ lock = "unlocked"
  /\ Step(t, "test", "set")
  /\ UNCHANGED <<vars, lock>>

SetAnyway == TRUE                (* mutant: a plain store, not a compare and set *)

CompareHolds == lock = "unlocked"

Set(t) ==
  /\ CompareHolds
  /\ lock' = "locked"
  /\ Step(t, "set", "in")
  /\ UNCHANGED vars

SetFails(t) ==
  /\ ~CompareHolds
  /\ Step(t, "set", "test")
  /\ UNCHANGED <<vars, lock>>

-----------------------------------------------------------------------------
(* One call of clist.c.  A walk goes on, callback by callback, and there is *)
(* nothing to walk in an empty list.                                       *)
Operate(t) ==
  /\ \/ Step(t, "in", "leave") /\ (LPop \/ RPop \/ \E d \in Data : LPush(d) \/ RPush(d))
     \/ Step(t, "in", "leave") /\ head = Null /\ UNCHANGED vars
     \/ Step(t, "in", "walk") /\ StartWalk
  /\ UNCHANGED lock

Walk(t) ==
  /\ Walking
  /\ pc[t] = "walk"
  /\ pc' = IF at' = Null THEN [pc EXCEPT ![t] = "leave"] ELSE pc
  /\ UNCHANGED lock

Leave(t) ==
  /\ Step(t, "leave", "out")
  /\ lock' = "unlocked"
  /\ UNCHANGED vars

SharedNext ==
  \E t \in Threads :
    Call(t) \/ Test(t) \/ Set(t) \/ SetFails(t) \/ Operate(t) \/ Walk(t) \/ Leave(t)

(* A thread that walks is scheduled. *)
SharedSpec ==
  /\ SharedInit /\ [][SharedNext]_sharedVars
  /\ \A t \in Threads : WF_sharedVars(Walk(t))

-----------------------------------------------------------------------------
(* Between lock and unlock there is one thread at most, and whoever begins  *)
(* a call finds no walk under way: calls of clist.c do not overlap, as its *)
(* steps take for granted.                                                 *)
Critical == {"in", "walk", "leave"}

Exclusive ==
  /\ \A t, u \in Threads : pc[t] \in Critical /\ pc[u] \in Critical => t = u
  /\ \A t \in Threads : pc[t] \in {"in", "leave"} => NoWalk
=============================================================================
