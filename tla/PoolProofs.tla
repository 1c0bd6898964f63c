----------------------------- MODULE PoolProofs ------------------------------
(***************************************************************************)
(* Proofs about ThreadPool and LifeCycle for every number of threads.      *)
(* What LifeCycle knows of the pool comes from the theorems on ThreadPool: *)
(* every step of LifeCycle is one of ThreadPool or leaves the pool alone.  *)
(***************************************************************************)
EXTENDS LifeCycle, TLAPS

(* A task is complete in the slots of thread w. *)
HasTask(w) == proc[w] = "task" /\ data[w] = "evts"

(* Unless the pool is shutting down, only a thread with a complete task is  *)
(* awake before its call; a thread that still waits has received both       *)
(* halves by the time it is signalled.                                      *)
TaskInv ==
  /\ \A w \in Workers :
       /\ poolState = "WORK" /\ pc[w] \in {"woken", "check"} => HasTask(w)
       /\ pc[w] \in {"busy", "load"} => HasTask(w)
       /\ pc[w] \in {"call", "run"} => proc[w] = "task" /\ arg[w] = "evts"
       /\ idx = w /\ pc[w] = "wait" /\ mpc \in {"setdata", "signal"} => proc[w] = "task"
       /\ idx = w /\ pc[w] = "wait" /\ mpc = "signal" => data[w] = "evts"
  /\ mpc \in {"dsignal", "join", "destroyed"} => poolState = "EXIT"

(* The threads that have been joined have left, one after the other. *)
JoinInv ==
  /\ mpc \in {"dsignal", "join"} => \A w \in Workers : w < idx => pc[w] = "exited"
  /\ mpc = "destroyed" => \A w \in Workers : pc[w] = "exited"

-----------------------------------------------------------------------------
(* Steps in which a wait may also end by itself. *)
AnyStep == [Next]_vars \/ \E w \in Workers : SpuriousWake(w)

(* Every variable keeps its type in every step. *)
LEMMA TypeStep == TypeOK /\ AnyStep => TypeOK'
<1> SUFFICES ASSUME TypeOK, AnyStep PROVE TypeOK'
  OBVIOUS
<1> USE NumThreadsAssumption
<1>1. ASSUME NEW w \in Workers, Worker(w) \/ SpuriousWake(w) PROVE TypeOK'
  <2>1. CASE Start(w)
    BY <2>1 DEF Start, Goto, TypeOK, PCs
  <2>2. CASE EnterWait(w)
    BY <2>2 DEF EnterWait, Goto, TypeOK, PCs, TStates
  <2>3. CASE SpuriousWake(w)
    BY <2>3 DEF SpuriousWake, Goto, TypeOK, PCs
  <2>4. CASE Resume(w)
    BY <2>4 DEF Resume, Goto, TypeOK, PCs
  <2>5. CASE CheckPoolState(w)
    BY <2>5 DEF CheckPoolState, Goto, TypeOK, PCs, TStates
  <2>6. CASE SetBusy(w)
    BY <2>6 DEF SetBusy, Goto, TypeOK, PCs, TStates
  <2>7. CASE LoadArg(w)
    BY <2>7 DEF LoadArg, Goto, TypeOK, PCs, Datas
  <2>8. CASE CallProc(w)
    BY <2>8 DEF CallProc, Goto, TypeOK, PCs
  <2>9. CASE ReturnFromProc(w)
    BY <2>9 DEF ReturnFromProc, Goto, TypeOK, PCs, Datas
  <2>10. CASE ClearProc(w)
    BY <2>10 DEF ClearProc, Goto, TypeOK, PCs, Procs
  <2>11. CASE ClearData(w)
    BY <2>11 DEF ClearData, Goto, TypeOK, PCs, Datas
  <2> QED
    BY <1>1, <2>1, <2>2, <2>3, <2>4, <2>5, <2>6, <2>7, <2>8, <2>9, <2>10, <2>11
    DEF Worker
<1>2. CASE CreateThread
  BY <1>2 DEF CreateThread, More, Goto, TypeOK, PCs, MPCs, Workers
<1>3. CASE RunTask
  BY <1>3 DEF RunTask, TypeOK, MPCs, Workers
<1>4. CASE ScanThread
  BY <1>4 DEF ScanThread, More, TypeOK, MPCs, Workers
<1>5. CASE AssignProc
  BY <1>5 DEF AssignProc, TypeOK, MPCs, Procs
<1>6. CASE AssignData
  BY <1>6 DEF AssignData, TypeOK, MPCs, Datas
<1>7. CASE SignalThread
  BY <1>7 DEF SignalThread, Signal, Goto, TypeOK, MPCs, PCs
<1>8. CASE Destroy
  BY <1>8 DEF Destroy, Stop, TypeOK, MPCs, Workers
<1>9. CASE DestroySignal
  BY <1>9 DEF DestroySignal, Signal, Goto, TypeOK, MPCs, PCs
<1>10. CASE Join
  BY <1>10 DEF Join, More, Left, TypeOK, MPCs, Workers
<1>11. CASE UNCHANGED vars
  BY <1>11 DEF vars, TypeOK
<1> QED
  BY <1>1, <1>2, <1>3, <1>4, <1>5, <1>6, <1>7, <1>8, <1>9, <1>10, <1>11
  DEF AnyStep, Next, InOperation

(* Every variable of the pool keeps its type. *)
THEOREM TypeCorrect == Spec => []TypeOK
<1>1. Init => TypeOK
  BY NumThreadsAssumption
  DEF Init, TypeOK, Workers, TStates, Procs, Datas, PCs, MPCs
<1> QED
  BY <1>1, TypeStep, PTL DEF Spec, AnyStep

-----------------------------------------------------------------------------
(* A step preserves TaskInv when waits end by signals only. *)
LEMMA TaskStep ==
  TypeOK /\ TaskInv /\ [Next]_vars => TaskInv'
<1> SUFFICES ASSUME TypeOK, TaskInv, [Next]_vars PROVE TaskInv'
  OBVIOUS
<1> USE NumThreadsAssumption
<1>1. ASSUME NEW w \in Workers, Worker(w) PROVE TaskInv'
  <2>1. CASE Start(w)
    BY <2>1 DEF Start, Goto, TaskInv, HasTask, TypeOK
  <2>2. CASE EnterWait(w)
    BY <2>2 DEF EnterWait, Goto, TaskInv, HasTask, TypeOK, MutexFree, MainHolds
  <2>3. CASE Resume(w)
    BY <2>3 DEF Resume, Goto, TaskInv, HasTask, TypeOK, MutexFree, MainHolds
  <2>4. CASE CheckPoolState(w)
    BY <2>4 DEF CheckPoolState, Goto, TaskInv, HasTask, TypeOK
  <2>5. CASE SetBusy(w)
    BY <2>5 DEF SetBusy, Goto, TaskInv, HasTask, TypeOK
  <2>6. CASE LoadArg(w)
    BY <2>6 DEF LoadArg, Goto, TaskInv, HasTask, TypeOK
  <2>7. CASE CallProc(w)
    BY <2>7 DEF CallProc, Goto, TaskInv, HasTask, TypeOK
  <2>8. CASE ReturnFromProc(w)
    BY <2>8 DEF ReturnFromProc, Goto, TaskInv, HasTask, TypeOK
  <2>9. CASE ClearProc(w)
    BY <2>9 DEF ClearProc, Goto, TaskInv, HasTask, TypeOK
  <2>10. CASE ClearData(w)
    BY <2>10 DEF ClearData, Goto, TaskInv, HasTask, TypeOK
  <2> QED
    BY <1>1, <2>1, <2>2, <2>3, <2>4, <2>5, <2>6, <2>7, <2>8, <2>9, <2>10
    DEF Worker
<1>2. CASE CreateThread
  BY <1>2 DEF CreateThread, More, Goto, TaskInv, HasTask, TypeOK, Workers
<1>3. CASE RunTask
  BY <1>3 DEF RunTask, TaskInv, HasTask, TypeOK, Workers
<1>4. CASE ScanThread
  BY <1>4 DEF ScanThread, More, TaskInv, HasTask, TypeOK, Workers
<1>5. CASE AssignProc
  BY <1>5 DEF AssignProc, TaskInv, HasTask, TypeOK, Workers
<1>6. CASE AssignData
  BY <1>6 DEF AssignData, TaskInv, HasTask, TypeOK, Workers
<1>7. CASE SignalThread
  BY <1>7 DEF SignalThread, Signal, Goto, TaskInv, HasTask, TypeOK, Workers
<1>8. CASE Destroy
  BY <1>8 DEF Destroy, Stop, TaskInv, HasTask, TypeOK, Workers
<1>9. CASE DestroySignal
  BY <1>9 DEF DestroySignal, Signal, Goto, TaskInv, HasTask, TypeOK, Workers
<1>10. CASE Join
  BY <1>10 DEF Join, More, Left, TaskInv, HasTask, TypeOK, Workers
<1>11. CASE UNCHANGED vars
  BY <1>11 DEF vars, TaskInv, HasTask, TypeOK
<1> QED
  BY <1>1, <1>2, <1>3, <1>4, <1>5, <1>6, <1>7, <1>8, <1>9, <1>10, <1>11
  DEF Next, InOperation

(* A thread runs a task only with the procedure and the argument of that   *)
(* task, when waits end by signals only.                                   *)
THEOREM TasksAreComplete ==
  Spec => []NoHalfTask
<1>1. Init => TypeOK /\ TaskInv
  BY NumThreadsAssumption
  DEF Init, TypeOK, TaskInv, Workers, TStates, Procs, Datas, PCs, MPCs
<1>2. TypeOK /\ TaskInv /\ [Next]_vars => (TypeOK /\ TaskInv)'
  BY TypeStep, TaskStep DEF AnyStep
<1>3. TaskInv => NoHalfTask
  BY DEF TaskInv, NoHalfTask
<1> QED
  BY <1>1, <1>2, <1>3, PTL DEF Spec

-----------------------------------------------------------------------------
(* A step preserves JoinInv: a thread that has left does not come back. *)
LEMMA JoinStep == TypeOK /\ JoinInv /\ AnyStep => JoinInv'
<1> SUFFICES ASSUME TypeOK, JoinInv, AnyStep PROVE JoinInv'
  OBVIOUS
<1> USE NumThreadsAssumption
<1>1. ASSUME NEW w \in Workers, Worker(w) \/ SpuriousWake(w) PROVE JoinInv'
  <2>1. CASE Start(w)
    BY <2>1 DEF Start, Goto, JoinInv, TypeOK
  <2>2. CASE EnterWait(w)
    BY <2>2 DEF EnterWait, Goto, JoinInv, TypeOK, MutexFree, MainHolds
  <2>3. CASE Resume(w)
    BY <2>3 DEF Resume, Goto, JoinInv, TypeOK, MutexFree, MainHolds
  <2>4. CASE CheckPoolState(w)
    BY <2>4 DEF CheckPoolState, Goto, JoinInv, TypeOK
  <2>5. CASE SetBusy(w)
    BY <2>5 DEF SetBusy, Goto, JoinInv, TypeOK
  <2>6. CASE LoadArg(w)
    BY <2>6 DEF LoadArg, Goto, JoinInv, TypeOK
  <2>7. CASE CallProc(w)
    BY <2>7 DEF CallProc, Goto, JoinInv, TypeOK
  <2>8. CASE ReturnFromProc(w)
    BY <2>8 DEF ReturnFromProc, Goto, JoinInv, TypeOK
  <2>9. CASE ClearProc(w)
    BY <2>9 DEF ClearProc, Goto, JoinInv, TypeOK
  <2>10. CASE ClearData(w)
    BY <2>10 DEF ClearData, Goto, JoinInv, TypeOK
  <2>11. CASE SpuriousWake(w)
    BY <2>11 DEF SpuriousWake, Goto, JoinInv, TypeOK
  <2> QED
    BY <1>1, <2>1, <2>2, <2>3, <2>4, <2>5, <2>6, <2>7, <2>8, <2>9, <2>10, <2>11
    DEF Worker
<1>2. CASE CreateThread
  BY <1>2 DEF CreateThread, More, Goto, JoinInv, TypeOK, Workers
<1>3. CASE RunTask
  BY <1>3 DEF RunTask, JoinInv, TypeOK, Workers
<1>4. CASE ScanThread
  BY <1>4 DEF ScanThread, More, JoinInv, TypeOK, Workers
<1>5. CASE AssignProc
  BY <1>5 DEF AssignProc, JoinInv, TypeOK, Workers
<1>6. CASE AssignData
  BY <1>6 DEF AssignData, JoinInv, TypeOK, Workers
<1>7. CASE SignalThread
  BY <1>7 DEF SignalThread, Signal, Goto, JoinInv, TypeOK, Workers
<1>8. CASE Destroy
  BY <1>8 DEF Destroy, Stop, JoinInv, TypeOK, Workers
<1>9. CASE DestroySignal
  BY <1>9 DEF DestroySignal, Signal, Goto, JoinInv, TypeOK, Workers
<1>10. CASE Join
  BY <1>10 DEF Join, More, Left, JoinInv, TypeOK, Workers
<1>11. CASE UNCHANGED vars
  BY <1>11 DEF vars, JoinInv, TypeOK
<1> QED
  BY <1>1, <1>2, <1>3, <1>4, <1>5, <1>6, <1>7, <1>8, <1>9, <1>10, <1>11
  DEF AnyStep, Next, InOperation

(* cthr_pool_destroy frees the threads only after every one has left. *)
THEOREM FreedAfterLast == Spec => []NoWorkerAfterDestroy
<1>1. Init => TypeOK /\ JoinInv
  BY NumThreadsAssumption
  DEF Init, TypeOK, JoinInv, Workers, TStates, Procs, Datas, PCs, MPCs
<1>2. TypeOK /\ JoinInv /\ [Next]_vars => (TypeOK /\ JoinInv)'
  BY TypeStep, JoinStep DEF AnyStep
<1>3. JoinInv => NoWorkerAfterDestroy
  BY DEF JoinInv, NoWorkerAfterDestroy
<1> QED
  BY <1>1, <1>2, <1>3, PTL DEF Spec
-----------------------------------------------------------------------------
(* How the state a thread shows and the place where it is go together.  The *)
(* threads a scan has passed do not wait: none can begin to while the       *)
(* caller holds the mutex.                                                  *)
StatusInv ==
  /\ \A w \in Workers :
       /\ pc[w] \in {"wait", "woken", "check", "busy"} => tstate[w] = "IDLE"
       /\ pc[w] \in {"load", "call", "run", "clrproc", "clrdata"} => tstate[w] = "BUSY"
       /\ pc[w] \in {"none", "start"} => tstate[w] # "BUSY"
       /\ pc[w] = "exited" => tstate[w] = "EXIT"
       /\ mpc = "create" /\ idx <= w => pc[w] = "none"
       /\ mpc = "scan" /\ w < idx => pc[w] # "wait"
  /\ mpc \notin {"dsignal", "join", "destroyed"} => poolState = "WORK"

LEMMA StatusStep ==
  TypeOK /\ StatusInv /\ [Next]_vars => StatusInv'
<1> SUFFICES ASSUME TypeOK, StatusInv, [Next]_vars PROVE StatusInv'
  OBVIOUS
<1> USE NumThreadsAssumption
<1>1. ASSUME NEW w \in Workers, Worker(w) PROVE StatusInv'
  <2>1. CASE Start(w)
    BY <2>1 DEF Start, Goto, StatusInv, TypeOK
  <2>2. CASE EnterWait(w)
    BY <2>2 DEF EnterWait, Goto, StatusInv, TypeOK, MutexFree, MainHolds
  <2>3. CASE Resume(w)
    BY <2>3 DEF Resume, Goto, StatusInv, TypeOK, MutexFree, MainHolds
  <2>4. CASE CheckPoolState(w)
    BY <2>4 DEF CheckPoolState, Goto, StatusInv, TypeOK
  <2>5. CASE SetBusy(w)
    BY <2>5 DEF SetBusy, Goto, StatusInv, TypeOK
  <2>6. CASE LoadArg(w)
    BY <2>6 DEF LoadArg, Goto, StatusInv, TypeOK
  <2>7. CASE CallProc(w)
    BY <2>7 DEF CallProc, Goto, StatusInv, TypeOK
  <2>8. CASE ReturnFromProc(w)
    BY <2>8 DEF ReturnFromProc, Goto, StatusInv, TypeOK
  <2>9. CASE ClearProc(w)
    BY <2>9 DEF ClearProc, Goto, StatusInv, TypeOK
  <2>10. CASE ClearData(w)
    BY <2>10 DEF ClearData, Goto, StatusInv, TypeOK
  <2> QED
    BY <1>1, <2>1, <2>2, <2>3, <2>4, <2>5, <2>6, <2>7, <2>8, <2>9, <2>10
    DEF Worker
<1>2. CASE CreateThread
  BY <1>2 DEF CreateThread, More, Goto, StatusInv, TypeOK, Workers, TStates
<1>3. CASE RunTask
  BY <1>3 DEF RunTask, StatusInv, TypeOK, Workers, TStates
<1>4. CASE ScanThread
  BY <1>4 DEF ScanThread, More, StatusInv, TypeOK, Workers, TStates
<1>5. CASE AssignProc
  BY <1>5 DEF AssignProc, StatusInv, TypeOK, Workers, TStates
<1>6. CASE AssignData
  BY <1>6 DEF AssignData, StatusInv, TypeOK, Workers, TStates
<1>7. CASE SignalThread
  BY <1>7 DEF SignalThread, Signal, Goto, StatusInv, TypeOK, Workers, TStates
<1>8. CASE Destroy
  BY <1>8 DEF Destroy, Stop, StatusInv, TypeOK, Workers, TStates
<1>9. CASE DestroySignal
  BY <1>9 DEF DestroySignal, Signal, Goto, StatusInv, TypeOK, Workers, TStates
<1>10. CASE Join
  BY <1>10 DEF Join, More, Left, StatusInv, TypeOK, Workers, TStates
<1>11. CASE UNCHANGED vars
  BY <1>11 DEF vars, StatusInv
<1> QED
  BY <1>1, <1>2, <1>3, <1>4, <1>5, <1>6, <1>7, <1>8, <1>9, <1>10, <1>11
  DEF Next, InOperation

-----------------------------------------------------------------------------
(* Every step of the threads and of the caller is a step of WorkerPool or   *)
(* leaves its variables alone.                                              *)
LEMMA PoolStep ==
  TypeOK /\ StatusInv /\ TaskInv /\ [Next]_vars => [Pool!Next]_Pool!vars
<1> SUFFICES ASSUME TypeOK, StatusInv, TaskInv, [Next]_vars
             PROVE  [Pool!Next]_Pool!vars
  OBVIOUS
<1> USE NumThreadsAssumption
<1>1. ASSUME NEW w \in Workers, Worker(w) PROVE [Pool!Next]_Pool!vars
  <2>1. CASE Start(w)
    <3>1. \A v \in Workers : AbstractStatus(v)' = AbstractStatus(v)
      BY <2>1 DEF Start, AbstractStatus, Chosen, Goto, TypeOK, StatusInv,
                  TaskInv
    <3>2. UNCHANGED <<mpc, poolState>>
      BY <2>1 DEF Start
    <3> QED
      BY <3>1, <3>2 DEF Pool!vars
  <2>2. CASE EnterWait(w)
    <3>1. \A v \in Workers \ {w} : AbstractStatus(v)' = AbstractStatus(v)
      BY <2>2 DEF EnterWait, AbstractStatus, Chosen, Goto, TypeOK, StatusInv,
                  TaskInv, MutexFree, MainHolds
    <3>2. AbstractStatus(w) \in {"new", "away"} /\ AbstractStatus(w)' = "idle"
      BY <2>2 DEF EnterWait, AbstractStatus, Chosen, Goto, TypeOK, StatusInv,
                  TaskInv, MutexFree, MainHolds
    <3>3. UNCHANGED <<mpc, poolState>>
      BY <2>2 DEF EnterWait
    <3>4. Pool!Park(w)
      BY <3>1, <3>2, <3>3 DEF Pool!Park, Pool!Become, Pool!SameGate
    <3> QED
      BY <3>4 DEF Pool!Next
  <2>3. CASE Resume(w)
    <3>1. \A v \in Workers : AbstractStatus(v)' = AbstractStatus(v)
      BY <2>3 DEF Resume, AbstractStatus, Chosen, Goto, TypeOK, StatusInv,
                  TaskInv, MutexFree, MainHolds
    <3>2. UNCHANGED <<mpc, poolState>>
      BY <2>3 DEF Resume
    <3> QED
      BY <3>1, <3>2 DEF Pool!vars
  <2>4. CASE CheckPoolState(w) /\ poolState = "WORK"
    <3>1. \A v \in Workers : AbstractStatus(v)' = AbstractStatus(v)
      BY <2>4 DEF CheckPoolState, AbstractStatus, Chosen, Goto, TypeOK,
                  StatusInv, TaskInv
    <3>2. UNCHANGED <<mpc, poolState>>
      BY <2>4 DEF CheckPoolState
    <3> QED
      BY <3>1, <3>2 DEF Pool!vars
  <2>5. CASE CheckPoolState(w) /\ poolState = "EXIT"
    <3>1. \A v \in Workers \ {w} : AbstractStatus(v)' = AbstractStatus(v)
      BY <2>5 DEF CheckPoolState, AbstractStatus, Chosen, Goto, TypeOK,
                  StatusInv, TaskInv
    <3>2. AbstractStatus(w) = "called" /\ AbstractStatus(w)' = "gone"
      BY <2>5 DEF CheckPoolState, AbstractStatus, Chosen, Goto, TypeOK,
                  StatusInv, TaskInv
    <3>3. UNCHANGED <<mpc, poolState>>
      BY <2>5 DEF CheckPoolState
    <3>4. Pool!Leave(w)
      BY <2>5, <3>1, <3>2, <3>3 DEF Pool!Leave, Pool!Become, Pool!SameGate
    <3> QED
      BY <3>4 DEF Pool!Next
  <2>6. CASE SetBusy(w)
    <3>1. \A v \in Workers : AbstractStatus(v)' = AbstractStatus(v)
      BY <2>6 DEF SetBusy, AbstractStatus, Chosen, Goto, TypeOK, StatusInv,
                  TaskInv
    <3>2. UNCHANGED <<mpc, poolState>>
      BY <2>6 DEF SetBusy
    <3> QED
      BY <3>1, <3>2 DEF Pool!vars
  <2>7. CASE LoadArg(w)
    <3>1. \A v \in Workers : AbstractStatus(v)' = AbstractStatus(v)
      BY <2>7 DEF LoadArg, AbstractStatus, Chosen, Goto, TypeOK, StatusInv,
                  TaskInv
    <3>2. UNCHANGED <<mpc, poolState>>
      BY <2>7 DEF LoadArg
    <3> QED
      BY <3>1, <3>2 DEF Pool!vars
  <2>8. CASE CallProc(w)
    <3>1. \A v \in Workers \ {w} : AbstractStatus(v)' = AbstractStatus(v)
      BY <2>8 DEF CallProc, AbstractStatus, Chosen, Goto, TypeOK, StatusInv,
                  TaskInv
    <3>2. AbstractStatus(w) \in {"called"} /\ AbstractStatus(w)' = "running"
      BY <2>8 DEF CallProc, AbstractStatus, Chosen, Goto, TypeOK, StatusInv,
                  TaskInv
    <3>3. UNCHANGED <<mpc, poolState>>
      BY <2>8 DEF CallProc
    <3>4. Pool!Run(w)
      BY <3>1, <3>2, <3>3 DEF Pool!Run, Pool!Become, Pool!SameGate
    <3> QED
      BY <3>4 DEF Pool!Next
  <2>9. CASE ReturnFromProc(w)
    <3>1. \A v \in Workers \ {w} : AbstractStatus(v)' = AbstractStatus(v)
      BY <2>9 DEF ReturnFromProc, AbstractStatus, Chosen, Goto, TypeOK,
                  StatusInv, TaskInv
    <3>2. AbstractStatus(w) \in {"running"} /\ AbstractStatus(w)' = "away"
      BY <2>9 DEF ReturnFromProc, AbstractStatus, Chosen, Goto, TypeOK,
                  StatusInv, TaskInv
    <3>3. UNCHANGED <<mpc, poolState>>
      BY <2>9 DEF ReturnFromProc
    <3>4. Pool!Finish(w)
      BY <3>1, <3>2, <3>3 DEF Pool!Finish, Pool!Become, Pool!SameGate
    <3> QED
      BY <3>4 DEF Pool!Next
  <2>10. CASE ClearProc(w)
    <3>1. \A v \in Workers : AbstractStatus(v)' = AbstractStatus(v)
      BY <2>10 DEF ClearProc, AbstractStatus, Chosen, Goto, TypeOK, StatusInv,
                   TaskInv
    <3>2. UNCHANGED <<mpc, poolState>>
      BY <2>10 DEF ClearProc
    <3> QED
      BY <3>1, <3>2 DEF Pool!vars
  <2>11. CASE ClearData(w)
    <3>1. \A v \in Workers : AbstractStatus(v)' = AbstractStatus(v)
      BY <2>11 DEF ClearData, AbstractStatus, Chosen, Goto, TypeOK, StatusInv,
                   TaskInv
    <3>2. UNCHANGED <<mpc, poolState>>
      BY <2>11 DEF ClearData
    <3> QED
      BY <3>1, <3>2 DEF Pool!vars
  <2> QED
    BY <1>1, <2>1, <2>2, <2>3, <2>4, <2>5, <2>6, <2>7, <2>8, <2>9, <2>10, <2>11
    DEF Worker, TypeOK
<1>2. CASE CreateThread
  <2>1. \A v \in Workers : AbstractStatus(v)' = AbstractStatus(v)
    BY <1>2 DEF CreateThread, More, AbstractStatus, Chosen, Goto, TypeOK, StatusInv,
                TaskInv, Workers
  <2>2. poolState' = poolState /\ mpc # "scan" /\ mpc' # "scan"
    BY <1>2 DEF CreateThread
  <2> QED
    BY <2>1, <2>2 DEF Pool!vars
<1>3. CASE RunTask
  <2>1. \A v \in Workers : AbstractStatus(v)' = AbstractStatus(v)
    BY <1>3 DEF RunTask, AbstractStatus, Chosen, Goto, TypeOK, StatusInv,
                TaskInv, Workers
  <2>2. poolState = "WORK" /\ poolState' = "WORK" /\ mpc # "scan" /\ mpc' = "scan"
    BY <1>3 DEF RunTask, StatusInv
  <2>3. Pool!Submit
    BY <2>1, <2>2 DEF Pool!Submit, Pool!SameGate
  <2> QED
    BY <2>3 DEF Pool!Next
<1>4. CASE ScanThread
  <2>1. poolState' = poolState /\ mpc = "scan"
    BY <1>4 DEF ScanThread
  <2>2. CASE mpc' = "scan"
    <3>1. \A v \in Workers : AbstractStatus(v)' = AbstractStatus(v)
      BY <1>4, <2>2 DEF ScanThread, More, AbstractStatus, Chosen, Goto, TypeOK,
                        StatusInv, TaskInv, Workers
    <3> QED
      BY <2>1, <2>2, <3>1 DEF Pool!vars
  <2>3. CASE mpc' = "setproc" /\ pc[idx] = "wait"
    <3> PICK w \in Workers : w = idx
      BY DEF TypeOK
    <3>1. \A v \in Workers \ {w} : AbstractStatus(v)' = AbstractStatus(v)
      BY <1>4, <2>3 DEF ScanThread, More, AbstractStatus, Chosen, Goto, TypeOK,
                        StatusInv, TaskInv, Workers
    <3>2. AbstractStatus(w) = "idle" /\ AbstractStatus(w)' = "called"
      BY <1>4, <2>3 DEF ScanThread, More, AbstractStatus, Chosen, Goto, TypeOK,
                        StatusInv, TaskInv, Workers
    <3>3. Pool!Become(w, "called")
      BY <3>1, <3>2 DEF Pool!Become
    <3>4. (IF mpc = "scan" THEN 1 ELSE 0) = 1 /\ (IF mpc = "scan" THEN 1 ELSE 0)' = 0
      BY <2>1, <2>3
    <3>5. Pool!Call(w)
      BY <2>1, <3>2, <3>3, <3>4 DEF Pool!Call, Pool!SameGate
    <3> QED
      BY <3>5 DEF Pool!Next
  <2>4. CASE mpc' = "setproc" /\ pc[idx] # "wait"
    <3>1. \A v \in Workers : AbstractStatus(v)' = AbstractStatus(v)
      BY <1>4, <2>4 DEF ScanThread, More, AbstractStatus, Chosen, Goto, TypeOK,
                        StatusInv, TaskInv, Workers
    <3>2. CASE tstate[idx] = "IDLE"
      <4>1. AbstractStatus(idx) \in {"called", "new"}
        BY <1>4, <2>4, <3>2 DEF ScanThread, More, AbstractStatus, Chosen, Goto,
                                TypeOK, StatusInv, TaskInv, Workers, PCs
      <4>2. Pool!Is("called") # {} \/ Pool!Is("new") # {}
        BY <4>1 DEF Pool!Is, TypeOK
      <4> QED
        BY <2>1, <2>4, <3>1, <4>2 DEF Pool!Drop, Pool!SameGate, Pool!Next
    <3>3. CASE tstate[idx] # "IDLE"
      <4>1. \A v \in Workers : pc[v] # "wait"
        BY <1>4, <2>4, <3>3 DEF ScanThread, More, TypeOK, StatusInv, Workers
      <4>2. Pool!Is("idle") = {}
        BY <4>1 DEF Pool!Is, AbstractStatus, TypeOK, PCs
      <4> QED
        BY <2>1, <2>4, <3>1, <4>2 DEF Pool!Drop, Pool!SameGate, Pool!Next
    <3> QED
      BY <3>2, <3>3
  <2> QED
    BY <1>4, <2>2, <2>3, <2>4 DEF ScanThread, More
<1>5. CASE AssignProc
  <2>1. \A v \in Workers : AbstractStatus(v)' = AbstractStatus(v)
    BY <1>5 DEF AssignProc, AbstractStatus, Chosen, Goto, TypeOK, StatusInv,
                TaskInv, Workers
  <2>2. poolState' = poolState /\ mpc # "scan" /\ mpc' # "scan"
    BY <1>5 DEF AssignProc
  <2> QED
    BY <2>1, <2>2 DEF Pool!vars
<1>6. CASE AssignData
  <2>1. \A v \in Workers : AbstractStatus(v)' = AbstractStatus(v)
    BY <1>6 DEF AssignData, AbstractStatus, Chosen, Goto, TypeOK, StatusInv,
                TaskInv, Workers
  <2>2. poolState' = poolState /\ mpc # "scan" /\ mpc' # "scan"
    BY <1>6 DEF AssignData
  <2> QED
    BY <2>1, <2>2 DEF Pool!vars
<1>7. CASE SignalThread
  <2>1. \A v \in Workers : AbstractStatus(v)' = AbstractStatus(v)
    BY <1>7 DEF SignalThread, AbstractStatus, Chosen, Goto, TypeOK, StatusInv,
                TaskInv, Workers, Signal
  <2>2. poolState' = poolState /\ mpc # "scan" /\ mpc' # "scan"
    BY <1>7 DEF SignalThread
  <2> QED
    BY <2>1, <2>2 DEF Pool!vars
<1>8. CASE Destroy
  <2>1. \A v \in Workers : AbstractStatus(v)' = AbstractStatus(v)
    BY <1>8 DEF Destroy, Stop, AbstractStatus, Chosen, Goto, TypeOK, StatusInv,
                TaskInv, Workers
  <2>2. poolState = "WORK" /\ poolState' = "EXIT" /\ mpc # "scan" /\ mpc' # "scan"
    BY <1>8 DEF Destroy, Stop, StatusInv
  <2>3. Pool!Close
    BY <2>1, <2>2 DEF Pool!Close
  <2> QED
    BY <2>3 DEF Pool!Next
<1>9. CASE DestroySignal
  <2>1. poolState = "EXIT" /\ poolState' = "EXIT" /\ mpc # "scan" /\ mpc' # "scan"
    BY <1>9 DEF DestroySignal, TaskInv
  <2>2. CASE pc[idx] = "wait"
    <3> PICK w \in Workers : w = idx
      BY DEF TypeOK
    <3>1. \A v \in Workers \ {w} : AbstractStatus(v)' = AbstractStatus(v)
      BY <1>9, <2>2 DEF DestroySignal, Signal, AbstractStatus, Chosen, Goto,
                        TypeOK, StatusInv, TaskInv, Workers
    <3>2. AbstractStatus(w) = "idle" /\ AbstractStatus(w)' = "called"
      BY <1>9, <2>2 DEF DestroySignal, Signal, AbstractStatus, Chosen, Goto,
                        TypeOK, StatusInv, TaskInv, Workers
    <3>3. Pool!Dismiss(w)
      BY <2>1, <3>1, <3>2 DEF Pool!Dismiss, Pool!Become, Pool!SameGate
    <3> QED
      BY <3>3 DEF Pool!Next
  <2>3. CASE pc[idx] # "wait"
    <3>1. \A v \in Workers : AbstractStatus(v)' = AbstractStatus(v)
      BY <1>9, <2>3 DEF DestroySignal, Signal, AbstractStatus, Chosen, Goto,
                        TypeOK, StatusInv, TaskInv, Workers
    <3> QED
      BY <2>1, <3>1 DEF Pool!vars
  <2> QED
    BY <2>2, <2>3
<1>10. CASE Join
  <2>1. \A v \in Workers : AbstractStatus(v)' = AbstractStatus(v)
    BY <1>10 DEF Join, More, Left, AbstractStatus, Chosen, Goto, TypeOK, StatusInv,
                 TaskInv, Workers
  <2>2. poolState' = poolState /\ mpc # "scan" /\ mpc' # "scan"
    BY <1>10 DEF Join
  <2> QED
    BY <2>1, <2>2 DEF Pool!vars
<1>11. CASE UNCHANGED vars
  BY <1>11 DEF vars, Pool!vars, AbstractStatus, Chosen
<1> QED
  BY <1>1, <1>2, <1>3, <1>4, <1>5, <1>6, <1>7, <1>8, <1>9, <1>10, <1>11
  DEF Next, InOperation

(* The pool does only what WorkerPool allows, when waits end by signals     *)
(* only: in particular a call is lost only when no thread is idle, or when  *)
(* one is still on its way into or out of its wait.                         *)
THEOREM Refinement ==
  Spec => Pool!Safety
<1>1. Init => TypeOK /\ StatusInv /\ TaskInv /\ Pool!Init
  BY NumThreadsAssumption
  DEF Init, TypeOK, StatusInv, TaskInv, Pool!Init, AbstractStatus, Workers,
      TStates, Procs, Datas, PCs, MPCs
<1>2. TypeOK /\ StatusInv /\ TaskInv /\ [Next]_vars
        => (TypeOK /\ StatusInv /\ TaskInv)'
  BY TypeStep, StatusStep, TaskStep DEF AnyStep
<1>3. TypeOK /\ StatusInv /\ TaskInv /\ [Next]_vars => [Pool!Next]_Pool!vars
  BY PoolStep
<1> QED
  BY <1>1, <1>2, <1>3, PTL DEF Spec, Pool!Safety

-----------------------------------------------------------------------------
(* The life of the server.                                                 *)

(* The plugin thread is in cthr_pool_create or cthr_pool_destroy exactly     *)
(* where it calls them.                                                      *)
CallInv ==
  /\ ppc = "create" => mpc \in {"create", "ready"}
  /\ ppc \in {"server", "failed", "down"} => mpc = "destroyed"
  /\ ppc \notin {"create", "stopping", "server", "failed", "down"} =>
       mpc \notin {"create", "dsignal", "join", "destroyed"}
  /\ ppc \in {"create", "listen", "init"} => lpc = "none"

(* What there is in memory, phase by phase.                                  *)
MemoryInv ==
  /\ ppc \notin {"failed", "down"} => server = "live"
  /\ ppc \in {"listen", "init", "up", "join", "destroy", "stop", "stopping"} =>
       evts = "live"
  /\ evts = "freed" => ppc \in {"server", "failed", "down"}
  /\ ppc \in {"init", "up", "join"} => port = "open"

(* mainLoop runs only while the plugin is up, or waits for its end; when it  *)
(* is past its first step running is 1 until deinit clears it.               *)
LoopInv ==
  /\ ppc \in {"create", "listen", "init"} => lpc = "none"
  /\ lpc \in {"none", "start"} => running = 0
  /\ ppc = "up" => lpc # "none"
  /\ ppc = "up" /\ lpc # "start" => running = 1 /\ lpc # "ended"
  /\ ppc = "join" => lpc \notin {"none", "start"}
  /\ ppc \in {"destroy", "stop", "stopping", "server", "failed", "down"} =>
       lpc \in {"none", "ended"}

LEMMA PoolOrStutter == [LifeNext]_lvars => AnyStep
BY DEF AnyStep, LifeNext, PluginThread, Deinit, MainLoop, InPool, Threads, Next, lvars,
       CreateEvents, Listen, ListenFails, StartLoop, JoinLoop, ClosePort, StopPool,
       FreeEvents, FreeServer, LoopStart, TestRunning, Poll, CallRunTask, EndRound

LEMMA CallStep ==
  ASSUME CallInv, [LifeNext]_lvars
  PROVE  CallInv'
<1> USE DEF CallInv, Plugin, Loop
<1>1. CASE CreateEvents \/ Listen \/ ListenFails \/ StartLoop
  BY <1>1 DEF CreateEvents, Listen, ListenFails, StartLoop, vars
<1>2. CASE JoinLoop \/ ClosePort \/ Deinit
  BY <1>2 DEF JoinLoop, ClosePort, Deinit, vars
<1>3. CASE StopPool
  BY <1>3 DEF StopPool, Destroy
<1>4. CASE FreeEvents \/ FreeServer
  BY <1>4 DEF FreeEvents, FreeServer, PoolGone, vars
<1>5. CASE MainLoop
  BY <1>5 DEF MainLoop, LoopStart, TestRunning, Poll, CallRunTask, EndRound, RunTask, vars
<1>6. CASE InPool
  BY <1>6 DEF InPool, life, InOperation, CreateThread, ScanThread, AssignProc, AssignData,
              SignalThread, DestroySignal, Join
<1>7. CASE Threads
  <2>1. mpc' = mpc /\ ppc' = ppc /\ lpc' = lpc
    BY <1>7 DEF Threads, life, Worker, SpuriousWake, Start, EnterWait, Resume,
                CheckPoolState, SetBusy, LoadArg, CallProc, ReturnFromProc, ClearProc,
                ClearData
  <2> QED BY <2>1
<1>8. CASE UNCHANGED lvars
  BY <1>8 DEF lvars, life, vars
<1> QED
  BY <1>1, <1>2, <1>3, <1>4, <1>5, <1>6, <1>7, <1>8 DEF LifeNext, PluginThread

LEMMA MemoryStep ==
  ASSUME MemoryInv, [LifeNext]_lvars
  PROVE  MemoryInv'
<1> USE DEF MemoryInv, Plugin, Loop
<1>1. CASE PluginThread
  BY <1>1 DEF PluginThread, CreateEvents, Listen, ListenFails, StartLoop, JoinLoop,
              ClosePort, StopPool, FreeEvents, FreeServer
<1>2. CASE Deinit
  BY <1>2 DEF Deinit
<1>3. CASE MainLoop
  BY <1>3 DEF MainLoop, LoopStart, TestRunning, Poll, CallRunTask, EndRound
<1>4. CASE InPool \/ Threads \/ UNCHANGED lvars
  BY <1>4 DEF InPool, Threads, lvars, life
<1> QED BY <1>1, <1>2, <1>3, <1>4 DEF LifeNext

LEMMA LoopStep ==
  ASSUME ~PromptDeinit, LoopInv, [LifeNext]_lvars
  PROVE  LoopInv'
<1> USE DEF LoopInv, Plugin, Loop
<1>1. CASE PluginThread
  BY <1>1 DEF PluginThread, CreateEvents, Listen, ListenFails, StartLoop, JoinLoop,
              LoopLeft, ClosePort, StopPool, FreeEvents, FreeServer
<1>2. CASE Deinit
  BY <1>2 DEF Deinit, TellLoop
<1>3. CASE MainLoop
  BY <1>3 DEF MainLoop, LoopStart, TestRunning, Poll, CallRunTask, EndRound
<1>4. CASE InPool \/ Threads \/ UNCHANGED lvars
  BY <1>4 DEF InPool, Threads, lvars, life
<1> QED BY <1>1, <1>2, <1>3, <1>4 DEF LifeNext

-----------------------------------------------------------------------------
(* Every variable of the server keeps its type.                              *)
THEOREM LifeTypeCorrect == LifeSpec => []LifeTypeOK
<1>1. LifeInit => LifeTypeOK
  BY BatchAssumption DEF LifeInit, LifeTypeOK, Memory
<1>2. LifeTypeOK /\ [LifeNext]_lvars => LifeTypeOK'
  <2> SUFFICES ASSUME LifeTypeOK, [LifeNext]_lvars PROVE LifeTypeOK'
    OBVIOUS
  <2> USE DEF LifeTypeOK, Memory, Plugin, Loop
  <2>1. CASE PluginThread
    BY <2>1 DEF PluginThread, CreateEvents, Listen, ListenFails, StartLoop, JoinLoop,
                ClosePort, StopPool, FreeEvents, FreeServer
  <2>2. CASE Deinit
    BY <2>2 DEF Deinit, TellLoop
  <2>3. CASE MainLoop
    BY <2>3, BatchAssumption
    DEF MainLoop, LoopStart, TestRunning, Poll, CallRunTask, EndRound
  <2>4. CASE InPool \/ Threads \/ UNCHANGED lvars
    BY <2>4 DEF InPool, Threads, lvars, life
  <2> QED BY <2>1, <2>2, <2>3, <2>4 DEF LifeNext
<1> QED BY <1>1, <1>2, PTL DEF LifeSpec

(* The pool in the server is the pool of ThreadPool: what is proved of one   *)
(* holds of the other.                                                       *)
LEMMA PoolInvariant == LifeSpec => [](TypeOK /\ JoinInv)
<1>1. LifeInit => TypeOK /\ JoinInv
  BY NumThreadsAssumption
  DEF LifeInit, Init, TypeOK, JoinInv, Workers, TStates, Procs, Datas, PCs, MPCs
<1>2. TypeOK /\ JoinInv /\ [LifeNext]_lvars => (TypeOK /\ JoinInv)'
  BY PoolOrStutter, TypeStep, JoinStep
<1> QED BY <1>1, <1>2, PTL DEF LifeSpec

LEMMA LifeInvariant == LifeSpec => [](CallInv /\ MemoryInv)
<1>1. LifeInit => CallInv /\ MemoryInv
  BY DEF LifeInit, Init, CallInv, MemoryInv
<1>2. CallInv /\ MemoryInv /\ [LifeNext]_lvars => (CallInv /\ MemoryInv)'
  BY CallStep, MemoryStep
<1> QED BY <1>1, <1>2, PTL DEF LifeSpec

(* destroy_thr_server frees the events after cthr_pool_destroy has joined    *)
(* the threads that use them, whenever deinit comes.                         *)
THEOREM WorkersHaveEvents == LifeSpec => []EventsOutliveWorkers
<1>1. CallInv /\ MemoryInv /\ JoinInv => EventsOutliveWorkers
  BY DEF CallInv, MemoryInv, JoinInv, EventsOutliveWorkers
<1> QED BY PoolInvariant, LifeInvariant, <1>1, PTL

(* thr_socket_plugin_deinit does not destroy the server under mainLoop, when *)
(* it comes after mainLoop has set running.                                  *)
THEOREM LoopHasServer ==
  ASSUME ~PromptDeinit
  PROVE  LifeSpec => []ServerOutlivesLoop
<1>1. LifeInit => LoopInv
  BY DEF LifeInit, Init, LoopInv
<1>2. LoopInv /\ [LifeNext]_lvars => LoopInv'
  BY LoopStep
<1>3. LifeSpec => []LifeTypeOK
  BY LifeTypeCorrect
<1>4. LifeTypeOK /\ MemoryInv /\ LoopInv => ServerOutlivesLoop
  <2>1. ASSUME LifeTypeOK, LoopInv, lpc \in {"start", "test", "poll", "calls"}
        PROVE  ppc \in {"up", "join"}
    <3>1. lpc \notin {"none", "ended"}
      BY <2>1
    <3>2. /\ ppc \notin {"create", "listen", "init"}
          /\ ppc \notin {"destroy", "stop", "stopping", "server", "failed", "down"}
      BY <2>1, <3>1 DEF LoopInv
    <3> QED BY <2>1, <3>2 DEF LifeTypeOK
  <2> QED BY <2>1 DEF MemoryInv, ServerOutlivesLoop
<1> QED BY <1>1, <1>2, <1>3, <1>4, LifeInvariant, PTL DEF LifeSpec

(* cthr_pool_destroy as the server calls it.                                 *)
THEOREM ServerFreesPoolLast == LifeSpec => []NoWorkerAfterDestroy
<1>1. JoinInv => NoWorkerAfterDestroy
  BY DEF JoinInv, NoWorkerAfterDestroy
<1> QED BY PoolInvariant, <1>1, PTL
=============================================================================
