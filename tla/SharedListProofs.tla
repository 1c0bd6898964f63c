--------------------------- MODULE SharedListProofs ---------------------------
(***************************************************************************)
(* The spin lock excludes, for any number of threads.  So every step of a  *)
(* shared list is a step of a list that has one caller, and what CListProofs *)
(* shows of that carries over.                                             *)
(***************************************************************************)
EXTENDS SharedList, CListProofs

(* Who is between lock and unlock has set the lock.                         *)
LockInv == \A t \in Threads : pc[t] \in Critical => lock = "locked"

(* A walk under way is that of a thread.                                    *)
WalkerInv == ~NoWalk => \E t \in Threads : pc[t] = "walk"

SharedInv == SharedTypeOK /\ LockInv /\ WalkerInv /\ Exclusive

LEMMA InitShared == SharedInit => SharedInv
BY DEF SharedInit, Init, SharedInv, SharedTypeOK, LockInv, WalkerInv, Exclusive, Critical,
       NoWalk

(* The steps of the lock leave the list alone.                              *)
LEMMA LockSteps ==
  ASSUME SharedInv, NEW t \in Threads, Call(t) \/ Test(t) \/ SetFails(t)
  PROVE  SharedInv' /\ UNCHANGED vars
<1> USE DEF SharedInv, Call, Test, SetFails, Step
<1>1. UNCHANGED vars /\ at' = at
  BY DEF vars, walk
<1>2. SharedTypeOK' /\ LockInv'
  BY DEF SharedTypeOK, LockInv, Critical
<1>3. WalkerInv' /\ Exclusive'
  BY <1>1 DEF WalkerInv, Exclusive, Critical, NoWalk, SharedTypeOK
<1> QED BY <1>1, <1>2, <1>3

(* Compare and set: nobody else is between lock and unlock, and so nobody    *)
(* walks.                                                                   *)
LEMMA SetStep ==
  ASSUME SharedInv, NEW t \in Threads, Set(t)
  PROVE  SharedInv' /\ UNCHANGED vars
<1> USE DEF SharedInv, Set, CompareHolds, Step
<1>1. UNCHANGED vars /\ at' = at
  BY DEF vars, walk
<1>2. \A u \in Threads : pc[u] \notin Critical
  BY DEF LockInv
<1>3. NoWalk
  BY <1>2 DEF WalkerInv, Critical
<1>4. SharedTypeOK' /\ LockInv'
  BY DEF SharedTypeOK, LockInv, Critical
<1>5. WalkerInv' /\ Exclusive'
  BY <1>1, <1>2, <1>3 DEF WalkerInv, Exclusive, Critical, NoWalk, SharedTypeOK
<1> QED BY <1>1, <1>4, <1>5

LEMMA LeaveStep ==
  ASSUME SharedInv, NEW t \in Threads, Leave(t)
  PROVE  SharedInv' /\ UNCHANGED vars
<1> USE DEF SharedInv, Leave, Step
<1>1. UNCHANGED vars /\ at' = at
  BY DEF vars, walk
<1>2. \A u \in Threads \ {t} : pc[u] \notin Critical
  BY DEF Exclusive, Critical
<1>3. SharedTypeOK' /\ LockInv'
  BY <1>2 DEF SharedTypeOK, LockInv, Critical
<1>4. WalkerInv' /\ Exclusive'
  BY <1>1, <1>2 DEF WalkerInv, Exclusive, Critical, NoWalk, SharedTypeOK
<1> QED BY <1>1, <1>3, <1>4

LEMMA OperateStep ==
  ASSUME SharedInv, NEW t \in Threads, Operate(t)
  PROVE  SharedInv' /\ [Next]_vars
<1> USE DEF SharedInv, Operate, Step
<1>1. \A u \in Threads \ {t} : pc[u] \notin Critical
  BY DEF Exclusive, Critical
<1>2. /\ pc[t] = "in" /\ NoWalk /\ lock' = lock
      /\ pc' = [pc EXCEPT ![t] = "leave"] \/ pc' = [pc EXCEPT ![t] = "walk"]
  BY DEF Exclusive
<1>3. [Next]_vars
  BY DEF Next
<1>4. pc'[t] = "leave" => at' = at
  <2>1. ASSUME pc' = [pc EXCEPT ![t] = "walk"] PROVE pc'[t] # "leave"
    BY <2>1 DEF SharedTypeOK
  <2>2. CASE LPop \/ RPop \/ \E d \in Data : LPush(d) \/ RPush(d)
    BY <2>2 DEF LPop, RPop, LPush, RPush, walk
  <2>3. CASE UNCHANGED vars
    BY <2>3 DEF vars, walk
  <2> QED BY <2>1, <2>2, <2>3
<1>5. SharedTypeOK' /\ LockInv'
  BY <1>2 DEF SharedTypeOK, LockInv, Critical
<1>6. WalkerInv' /\ Exclusive'
  BY <1>1, <1>2, <1>4 DEF WalkerInv, Exclusive, Critical, NoWalk, SharedTypeOK
<1> QED BY <1>3, <1>5, <1>6

LEMMA WalkStep ==
  ASSUME SharedInv, NEW t \in Threads, Walk(t)
  PROVE  SharedInv' /\ [Next]_vars
<1> USE DEF SharedInv, Walk
<1>1. \A u \in Threads \ {t} : pc[u] \notin Critical
  BY DEF Exclusive, Critical
<1>2. [Next]_vars
  BY DEF Next
<1>3. SharedTypeOK' /\ LockInv'
  BY DEF SharedTypeOK, LockInv, Critical
<1>4. WalkerInv' /\ Exclusive'
  BY <1>1 DEF WalkerInv, Exclusive, Critical, NoWalk, SharedTypeOK
<1> QED BY <1>2, <1>3, <1>4

LEMMA SharedStep == SharedInv /\ [SharedNext]_sharedVars => SharedInv' /\ [Next]_vars
<1> SUFFICES ASSUME SharedInv, [SharedNext]_sharedVars PROVE SharedInv' /\ [Next]_vars
  OBVIOUS
<1>1. CASE UNCHANGED sharedVars
  <2>1. UNCHANGED vars /\ at' = at /\ lock' = lock /\ pc' = pc
    BY <1>1 DEF sharedVars, vars, walk
  <2> QED
    BY <2>1 DEF SharedInv, SharedTypeOK, LockInv, WalkerInv, Exclusive, NoWalk
<1>2. CASE SharedNext
  BY <1>2, LockSteps, SetStep, LeaveStep, OperateStep, WalkStep DEF SharedNext
<1> QED BY <1>1, <1>2

LEMMA SharedInvariance == SharedSpec => []SharedInv
<1>1. SharedInv /\ [SharedNext]_sharedVars => SharedInv'
  BY SharedStep
<1> QED BY InitShared, <1>1, PTL DEF SharedSpec

(* qlock: at most one thread is between spinlock_lock and spinlock_unlock,   *)
(* and a call of clist.c never begins while another one is under way.       *)
THEOREM LockIsExclusive == SharedSpec => []Exclusive
<1>1. SharedInv => Exclusive
  BY DEF SharedInv
<1> QED BY <1>1, SharedInvariance, PTL

(* The list that cevents_push_fired and cevents_pop_fired share stays one    *)
(* ring of the items allocated, whatever the threads do.                    *)
THEOREM SharedRing == SharedSpec => []Ring
<1>1. SharedInit => ListInv
  BY InitListInv DEF SharedInit
<1>2. SharedInv /\ ListInv /\ [SharedNext]_sharedVars => ListInv'
  BY SharedStep, StepListInv
<1>3. ListInv => Ring
  BY DEF ListInv
<1> QED BY <1>1, <1>2, <1>3, SharedInvariance, PTL DEF SharedSpec

(* The queue of fired events is a double-ended queue to all threads: every   *)
(* call takes effect at one moment between its lock and its unlock.         *)
THEOREM SharedDeque == SharedSpec => ImplementsDeque
<1>1. SharedInit => ListInv /\ FirstInv /\ Deque!Init
  BY InitListInv, InitDeque DEF SharedInit, Deque!Init, Held
<1>2. SharedInv /\ ListInv /\ FirstInv /\ [SharedNext]_sharedVars =>
        ListInv' /\ FirstInv' /\ [Deque!Next]_(Deque!vars)
  BY SharedStep, StepListInv, StepDeque DEF DequeInv
<1> QED BY <1>1, <1>2, SharedInvariance, PTL DEF SharedSpec, ImplementsDeque, Deque!Spec
=============================================================================
