--------------------------- MODULE ThreadPoolProofs ---------------------------
(***************************************************************************)
(* Theorems about ThreadPool, for every finite or infinite set of workers  *)
(* and tasks: its type invariant, the conservation of tasks, the promise   *)
(* of shutdown(), and that the pool implements TaskPool.                   *)
(***************************************************************************)
EXTENDS ThreadPool, QueueLemmas, SequenceTheorems, TLAPS

-------------------------------------------------------------------------------
(* The inductive invariant                                                 *)

Critical == {"test", "block", "pop", "check"}

\* The mutex is held by the worker that is in the critical section, and done
\* cannot be set while a worker is between its predicate and its sleep.
MutexInv ==
  /\ \A w \in Workers : mutex = w <=> pc[w] \in Critical
  /\ \A w \in Workers : pc[w] = "block" => ~done

\* A worker has a task from pop to the end of the task, and only then.
HandInv ==
  /\ \A w \in Workers : task[w] # None => pc[w] \in {"check", "run"}
  /\ \A w \in Workers : pc[w] = "run" => task[w] # None

\* The owner's progress, and the threads that exist.
OwnerInv ==
  /\ done <=> owner \in {"flagged", "joining", "closed"}
  /\ owner = "constructed" => \A w \in Workers : pc[w] = "none"
  /\ owner = "open" => \A w \in Workers : pc[w] # "none"
  /\ \A v, w \in Workers : pc[v] = "none" => pc[w] = "none"
  /\ (\E w \in Workers : pc[w] = "none") => promised = {}
  /\ owner = "closed" => \A w \in Workers : pc[w] \in {"none", "exited"}

\* A worker that has seen the queue empty after done leaves no promised task
\* behind, and only such a worker exits.
DrainInv ==
  /\ promised \subseteq Queued \union InHand \union executed
  /\ \A w \in Workers :
       doneWorking[w] => /\ done
                         /\ pc[w] \in {"run", "exited"}
                         /\ promised \intersect Queued = {}
  /\ \A w \in Workers : pc[w] = "exited" => doneWorking[w]

PoolInv ==
  /\ TypeOK
  /\ MutexInv
  /\ HandInv
  /\ OwnerInv
  /\ DrainInv
  /\ TasksConserved

-------------------------------------------------------------------------------
(* Lemmas on the tasks in the workers' hands                               *)

\* A worker without a task takes one.
LEMMA TakeLemma ==
  ASSUME TypeOK, NEW w \in Workers, NEW t \in Tasks, task[w] = None,
         task' = [task EXCEPT ![w] = t]
  PROVE  InHand' = InHand \union {t}
  BY PoolAssumption DEF TypeOK, InHand

\* A worker drops its task, which nobody else has.
LEMMA DropLemma ==
  ASSUME TypeOK, NEW w \in Workers, task[w] # None,
         \A v \in Workers : task[v] = task[w] => v = w,
         task' = [task EXCEPT ![w] = None]
  PROVE  InHand' = InHand \ {task[w]} /\ task[w] \in InHand
  BY PoolAssumption DEF TypeOK, InHand

-------------------------------------------------------------------------------
(* Each action preserves the invariant                                     *)

LEMMA InitPoolInv == Init => PoolInv
<1> SUFFICES ASSUME Init PROVE PoolInv
  OBVIOUS
<1>1. Queued = {} /\ InHand = {}
  BY DEF Init, Queued, InHand, Range
<1>2. TypeOK
  <2>1. queue \in Seq(Tasks)
    BY EmptySeq DEF Init
  <2>2. doneWorking \in [Workers -> BOOLEAN] /\ done \in BOOLEAN
    BY DEF Init
  <2> QED
    BY <2>1, <2>2 DEF Init, TypeOK, PcStates
<1>3. MutexInv /\ HandInv /\ OwnerInv
  BY PoolAssumption DEF Init, MutexInv, HandInv, OwnerInv, Critical
<1>4. DrainInv
  BY DEF Init, DrainInv
<1>5. TasksConserved
  BY <1>1 DEF Init, TasksConserved, IsInjective
<1> QED
  BY <1>2, <1>3, <1>4, <1>5 DEF PoolInv

LEMMA RunPushInv ==
  ASSUME PoolInv, NEW t \in Tasks, RunPush(t)
  PROVE  PoolInv'
<1> USE DEF PoolInv
<1>1. t \notin Queued \union InHand \union executed
  BY DEF RunPush, TasksConserved
<1>2. /\ queue' \in Seq(Tasks)
      /\ Queued' = Queued \union {t}
      /\ IsInjective(queue')
  BY <1>1, PushLemma DEF RunPush, TypeOK, TasksConserved, Queued
<1>3. InHand' = InHand
  BY DEF RunPush, workerVars, InHand
<1>4. TypeOK'
  BY <1>2 DEF TypeOK, RunPush, workerVars, history
<1>5. MutexInv' /\ HandInv' /\ OwnerInv'
  BY DEF MutexInv, HandInv, OwnerInv, RunPush, workerVars, history
<1>6. DrainInv'
  <2>1. t \notin promised
    BY <1>1 DEF DrainInv
  <2> QED
    BY <1>2, <1>3, <2>1 DEF DrainInv, RunPush, workerVars, history
<1>7. TasksConserved'
  <2>1. /\ executed' = executed /\ task' = task
        /\ call' = [call EXCEPT ![t] = "pushed"]
    BY DEF RunPush, workerVars, history
  <2> QED
    BY <1>1, <1>2, <1>3, <2>1 DEF TasksConserved, TypeOK
<1> QED
  BY <1>4, <1>5, <1>6, <1>7

\* The steps that only move workers between program points.
LEMMA WakeInv ==
  ASSUME PoolInv,
         UNCHANGED <<queue, done, mutex, task, doneWorking, executed,
                     promised>>,
         call' \in [Tasks -> {"idle", "pushed", "returned"}],
         \A t \in Tasks : call[t] = "idle" <=> call'[t] = "idle",
         owner' = owner \/ (owner = "flagged" /\ owner' = "joining"),
         pc' \in [Workers -> PcStates],
         \A w \in Workers :
           pc'[w] = pc[w] \/ (pc[w] = "asleep" /\ pc'[w] = "woken")
  PROVE  PoolInv'
<1> USE DEF PoolInv
<1>1. Queued' = Queued /\ InHand' = InHand
  BY DEF Queued, InHand
<1>2. TypeOK'
  BY DEF TypeOK
<1>3. MutexInv' /\ HandInv'
  BY DEF MutexInv, HandInv, Critical
<1>4. OwnerInv'
  BY DEF OwnerInv
<1>5. DrainInv'
  BY <1>1 DEF DrainInv
<1>6. TasksConserved'
  BY <1>1 DEF TasksConserved
<1> QED
  BY <1>2, <1>3, <1>4, <1>5, <1>6

LEMMA RunNotifyInv ==
  ASSUME PoolInv, NEW t \in Tasks, RunNotify(t)
  PROVE  PoolInv'
<1>1. pc' \in [Workers -> PcStates]
  BY DEF PoolInv, TypeOK, RunNotify, Asleep, PcStates
<1>2. \A w \in Workers :
        pc'[w] = pc[w] \/ (pc[w] = "asleep" /\ pc'[w] = "woken")
  BY DEF PoolInv, TypeOK, RunNotify, Asleep
<1>3. call' \in [Tasks -> {"idle", "pushed", "returned"}]
  BY DEF PoolInv, TypeOK, RunNotify
<1>4. \A u \in Tasks : call[u] = "idle" <=> call'[u] = "idle"
  BY DEF PoolInv, TypeOK, RunNotify
<1> QED
  BY <1>1, <1>2, <1>3, <1>4, WakeInv DEF RunNotify, history

LEMMA SpuriousWakeInv ==
  ASSUME PoolInv, NEW w \in Workers, SpuriousWake(w)
  PROVE  PoolInv'
<1>1. pc' \in [Workers -> PcStates]
  BY DEF PoolInv, TypeOK, SpuriousWake, PcStates
<1>2. \A v \in Workers :
        pc'[v] = pc[v] \/ (pc[v] = "asleep" /\ pc'[v] = "woken")
  BY DEF PoolInv, TypeOK, SpuriousWake
<1>3. call' \in [Tasks -> {"idle", "pushed", "returned"}] /\ call' = call
  BY DEF PoolInv, TypeOK, SpuriousWake
<1> QED
  BY <1>1, <1>2, <1>3, WakeInv DEF SpuriousWake, history

LEMMA ShutdownNotifyInv ==
  ASSUME PoolInv, ShutdownNotify
  PROVE  PoolInv'
<1>1. pc' \in [Workers -> PcStates]
  BY DEF PoolInv, TypeOK, ShutdownNotify, PcStates
<1>2. \A w \in Workers :
        pc'[w] = pc[w] \/ (pc[w] = "asleep" /\ pc'[w] = "woken")
  BY DEF PoolInv, TypeOK, ShutdownNotify
<1>3. call' \in [Tasks -> {"idle", "pushed", "returned"}] /\ call' = call
  BY DEF PoolInv, TypeOK, ShutdownNotify
<1> QED
  BY <1>1, <1>2, <1>3, WakeInv DEF ShutdownNotify, history

\* The steps of a worker that leave the queue and the tasks alone.
LEMMA LockInv ==
  ASSUME PoolInv, NEW w \in Workers, Lock(w)
  PROVE  PoolInv'
<1> USE DEF PoolInv
<1>1. Queued' = Queued /\ InHand' = InHand
  BY DEF Lock, Queued, InHand
<1>2. TypeOK'
  BY DEF TypeOK, Lock, PcStates, history
<1>3. MutexInv' /\ HandInv' /\ OwnerInv'
  BY PoolAssumption
  DEF TypeOK, MutexInv, HandInv, OwnerInv, Critical, Lock, history
<1>4. DrainInv'
  BY <1>1 DEF TypeOK, DrainInv, Lock, history
<1>5. TasksConserved'
  BY <1>1 DEF TasksConserved, Lock, history
<1> QED
  BY <1>2, <1>3, <1>4, <1>5

LEMMA TestInv ==
  ASSUME PoolInv, NEW w \in Workers, Test(w)
  PROVE  PoolInv'
<1> USE DEF PoolInv
<1>1. Queued' = Queued /\ InHand' = InHand
  BY DEF Test, Queued, InHand
<1>2. pc' \in [Workers -> PcStates] /\ pc'[w] \in {"pop", "block"}
      /\ \A v \in Workers : v # w => pc'[v] = pc[v]
  BY DEF TypeOK, Test, PcStates
<1>3. TypeOK'
  BY <1>2 DEF TypeOK, Test, history
<1>4. MutexInv' /\ HandInv' /\ OwnerInv'
  BY <1>2 DEF MutexInv, HandInv, OwnerInv, Critical, Test, history
<1>5. DrainInv'
  BY <1>1, <1>2 DEF DrainInv, Test, history
<1>6. TasksConserved'
  BY <1>1 DEF TasksConserved, Test, history
<1> QED
  BY <1>3, <1>4, <1>5, <1>6

LEMMA BlockInv ==
  ASSUME PoolInv, NEW w \in Workers, Block(w)
  PROVE  PoolInv'
<1> USE DEF PoolInv
<1>1. Queued' = Queued /\ InHand' = InHand
  BY DEF Block, Queued, InHand
<1>2. TypeOK'
  BY DEF TypeOK, Block, PcStates, history
<1>3. MutexInv' /\ HandInv' /\ OwnerInv'
  BY PoolAssumption
  DEF TypeOK, MutexInv, HandInv, OwnerInv, Critical, Block, history
<1>4. DrainInv'
  BY <1>1 DEF TypeOK, DrainInv, Block, history
<1>5. TasksConserved'
  BY <1>1 DEF TasksConserved, Block, history
<1> QED
  BY <1>2, <1>3, <1>4, <1>5

\* A task goes from the head of the queue to the worker's hands.
LEMMA PopInv ==
  ASSUME PoolInv, NEW w \in Workers, Pop(w)
  PROVE  PoolInv'
<1> USE DEF PoolInv
<1>1. task[w] = None
  BY DEF HandInv, Pop
<1>2. pc' = [pc EXCEPT ![w] = "check"]
      /\ UNCHANGED <<done, mutex, doneWorking, call, owner, executed, promised>>
  BY DEF Pop, history
<1>3. CASE queue = <<>>
  <2>1. UNCHANGED <<queue, task>>
    BY <1>3 DEF Pop
  <2>2. Queued' = Queued /\ InHand' = InHand
    BY <2>1 DEF Queued, InHand
  <2>3. TypeOK' /\ MutexInv' /\ HandInv' /\ OwnerInv'
    BY <1>2, <2>1
    DEF TypeOK, MutexInv, HandInv, OwnerInv, Critical, PcStates, Pop
  <2>4. DrainInv'
    BY <1>2, <2>1, <2>2 DEF TypeOK, DrainInv, Pop
  <2>5. TasksConserved'
    BY <1>2, <2>1, <2>2 DEF TasksConserved
  <2> QED
    BY <2>3, <2>4, <2>5
<1>4. CASE queue # <<>>
  <2>1. /\ queue' = Tail(queue)
        /\ task' = [task EXCEPT ![w] = Head(queue)]
    BY <1>4 DEF Pop
  <2>2. /\ Head(queue) \in Tasks /\ Head(queue) \in Queued
        /\ queue' \in Seq(Tasks)
        /\ Queued' = Queued \ {Head(queue)}
        /\ IsInjective(queue')
    BY <1>4, <2>1, PopLemma DEF TypeOK, TasksConserved, Queued
  <2>3. InHand' = InHand \union {Head(queue)}
    BY <1>1, <2>1, <2>2, TakeLemma
  <2>4. TypeOK'
    BY <1>2, <2>1, <2>2 DEF TypeOK, PcStates
  <2>5. MutexInv' /\ HandInv' /\ OwnerInv'
    BY <1>2, <2>1
    DEF TypeOK, MutexInv, HandInv, OwnerInv, Critical, Pop
  <2>6. DrainInv'
    BY <1>2, <2>2, <2>3 DEF TypeOK, DrainInv, Pop
  <2>7. TasksConserved'
    <3>1. Head(queue) \notin InHand \union executed
      BY <2>2 DEF TasksConserved
    <3>2. ASSUME NEW u \in Workers, NEW v \in Workers,
                 task'[u] = task'[v], task'[u] # None
          PROVE  u = v
      BY <2>1, <3>1, <3>2, <2>2, PoolAssumption
      DEF TypeOK, InHand, TasksConserved
    <3> QED
      BY <1>2, <2>2, <2>3, <3>1, <3>2 DEF TasksConserved
  <2> QED
    BY <2>4, <2>5, <2>6, <2>7
<1> QED
  BY <1>3, <1>4

\* The worker that sees the queue empty with done set sees that no promised
\* task is left in it.
LEMMA CheckInv ==
  ASSUME PoolInv, NEW w \in Workers, Check(w)
  PROVE  PoolInv'
<1> USE DEF PoolInv
<1>1. Queued' = Queued /\ InHand' = InHand
  BY DEF Check, Queued, InHand
<1>2. /\ doneWorking'[w] <=> queue = <<>> /\ done
      /\ doneWorking' \in [Workers -> BOOLEAN]
      /\ \A v \in Workers : v # w => doneWorking'[v] = doneWorking[v]
  BY DEF TypeOK, Check
<1>3. /\ pc' \in [Workers -> PcStates]
      /\ \A v \in Workers : v # w => pc'[v] = pc[v]
      /\ pc'[w] \in {"run", "exited", "lock"}
      /\ pc'[w] = "run" <=> task[w] # None
      /\ doneWorking'[w] => pc'[w] # "lock"
      /\ pc'[w] = "exited" => doneWorking'[w]
  BY DEF TypeOK, Check, PcStates
<1>4. TypeOK'
  BY <1>2, <1>3 DEF TypeOK, Check, history
<1>5. MutexInv' /\ HandInv' /\ OwnerInv'
  BY <1>3, PoolAssumption
  DEF TypeOK, MutexInv, HandInv, OwnerInv, Critical, Check, history
<1>6. DrainInv'
  <2>1. queue = <<>> => Queued = {}
    BY DEF Queued, Range
  <2> QED
    BY <1>1, <1>2, <1>3, <2>1 DEF DrainInv, Check, history
<1>7. TasksConserved'
  BY <1>1 DEF TasksConserved, Check, history
<1> QED
  BY <1>4, <1>5, <1>6, <1>7

\* A task goes from the worker's hands to the executed ones.
LEMMA ExecuteInv ==
  ASSUME PoolInv, NEW w \in Workers, Execute(w)
  PROVE  PoolInv'
<1> USE DEF PoolInv
<1>1. task[w] # None /\ task[w] \in Tasks
  BY DEF HandInv, Execute, TypeOK
<1>2. /\ executed' = executed \union {task[w]}
      /\ task' = [task EXCEPT ![w] = None]
      /\ UNCHANGED <<queue, done, mutex, doneWorking, call, owner, promised>>
  BY DEF Execute
<1>3. \A v \in Workers : task[v] = task[w] => v = w
  BY <1>1 DEF TasksConserved
<1>4. InHand' = InHand \ {task[w]} /\ task[w] \in InHand
  BY <1>1, <1>2, <1>3, DropLemma
<1>5. Queued' = Queued
  BY <1>2 DEF Queued
<1>6. /\ pc' \in [Workers -> PcStates]
      /\ \A v \in Workers : v # w => pc'[v] = pc[v]
      /\ pc'[w] = IF doneWorking[w] THEN "exited" ELSE "lock"
  BY DEF TypeOK, Execute, PcStates
<1>7. TypeOK'
  BY <1>1, <1>2, <1>6 DEF TypeOK
<1>8. MutexInv' /\ HandInv' /\ OwnerInv'
  BY <1>1, <1>2, <1>6
  DEF TypeOK, MutexInv, HandInv, OwnerInv, Critical, Execute
<1>9. DrainInv'
  BY <1>2, <1>4, <1>5, <1>6 DEF DrainInv, Execute
<1>10. TasksConserved'
  <2>1. ASSUME NEW u \in Workers, NEW v \in Workers,
               task'[u] = task'[v], task'[u] # None
        PROVE  u = v
    BY <1>2, <2>1 DEF TypeOK, TasksConserved
  <2> QED
    BY <1>2, <1>4, <1>5, <2>1 DEF TasksConserved
<1> QED
  BY <1>7, <1>8, <1>9, <1>10

LEMMA InitPoolActionInv ==
  ASSUME PoolInv, InitPool
  PROVE  PoolInv'
<1> USE DEF PoolInv
<1>1. Queued' = Queued /\ InHand' = InHand
  BY DEF InitPool, Queued, InHand
<1>2. /\ pc' = [w \in Workers |-> "lock"]
      /\ \A w \in Workers : pc[w] = "none"
  BY DEF InitPool, OwnerInv
<1>3. TypeOK'
  BY <1>2 DEF TypeOK, InitPool, PcStates, history
<1>4. MutexInv' /\ HandInv' /\ OwnerInv'
  BY <1>2 DEF MutexInv, HandInv, OwnerInv, Critical, InitPool, history
<1>5. DrainInv'
  BY <1>1, <1>2 DEF DrainInv, InitPool, history
<1>6. TasksConserved'
  BY <1>1 DEF TasksConserved, InitPool, history
<1> QED
  BY <1>3, <1>4, <1>5, <1>6

\* Until done is set no worker has finished, so the promise starts out true.
LEMMA ShutdownFlagInv ==
  ASSUME PoolInv, ShutdownFlag
  PROVE  PoolInv'
<1> USE DEF PoolInv
<1>1. Queued' = Queued /\ InHand' = InHand
  BY DEF ShutdownFlag, Queued, InHand, workerVars
<1>2. ~done /\ \A w \in Workers : ~doneWorking[w]
  BY DEF ShutdownFlag, OwnerInv, DrainInv
<1>3. promised' \subseteq Queued \union InHand
  BY DEF ShutdownFlag
<1>4. TypeOK'
  <2>1. Queued \subseteq Tasks /\ InHand \subseteq Tasks
    BY RangeOfSeq DEF TypeOK, Queued, InHand
  <2> QED
    BY <1>3, <2>1 DEF TypeOK, ShutdownFlag, workerVars
<1>5. MutexInv' /\ HandInv' /\ OwnerInv'
  <2>1. \A w \in Workers : pc[w] \notin Critical
    BY PoolAssumption DEF MutexInv, ShutdownFlag
  <2> QED
    BY <2>1 DEF MutexInv, HandInv, OwnerInv, Critical, ShutdownFlag, workerVars
<1>6. DrainInv'
  BY <1>1, <1>2, <1>3 DEF DrainInv, ShutdownFlag, workerVars
<1>7. TasksConserved'
  BY <1>1 DEF TasksConserved, ShutdownFlag, workerVars
<1> QED
  BY <1>4, <1>5, <1>6, <1>7

LEMMA ShutdownJoinInv ==
  ASSUME PoolInv, ShutdownJoin
  PROVE  PoolInv'
<1> USE DEF PoolInv
<1>1. Queued' = Queued /\ InHand' = InHand
  BY DEF ShutdownJoin, Queued, InHand, workerVars
<1>2. TypeOK' /\ MutexInv' /\ HandInv' /\ OwnerInv'
  BY DEF TypeOK, MutexInv, HandInv, OwnerInv, Critical, ShutdownJoin,
         workerVars, history
<1>3. DrainInv' /\ TasksConserved'
  BY <1>1 DEF DrainInv, TasksConserved, ShutdownJoin, workerVars, history
<1> QED
  BY <1>2, <1>3

LEMMA StutterInv ==
  ASSUME PoolInv, UNCHANGED vars
  PROVE  PoolInv'
  BY DEF PoolInv, TypeOK, MutexInv, HandInv, OwnerInv, DrainInv,
         TasksConserved, Queued, InHand, vars, workerVars, history

LEMMA NextInv == PoolInv /\ [Next]_vars => PoolInv'
<1> SUFFICES ASSUME PoolInv, [Next]_vars PROVE PoolInv'
  OBVIOUS
<1>1. CASE \E t \in Tasks : Run(t)
  BY <1>1, RunPushInv, RunNotifyInv DEF Run
<1>2. CASE \E w \in Workers : Worker(w) \/ SpuriousWake(w)
  BY <1>2, LockInv, TestInv, BlockInv, PopInv, CheckInv, ExecuteInv,
     SpuriousWakeInv DEF Worker
<1>3. CASE InitPool
  BY <1>3, InitPoolActionInv
<1>4. CASE Shutdown
  BY <1>4, ShutdownFlagInv, ShutdownNotifyInv, ShutdownJoinInv DEF Shutdown
<1>5. CASE UNCHANGED vars
  BY <1>5, StutterInv
<1> QED
  BY <1>1, <1>2, <1>3, <1>4, <1>5 DEF Next

-------------------------------------------------------------------------------
(* The theorems                                                            *)

\* The inductive invariant holds in every reachable state.
LEMMA Invariance == Spec => []PoolInv
<1>1. Init => PoolInv
  BY InitPoolInv
<1>2. PoolInv /\ [Next]_vars => PoolInv'
  BY NextInv
<1> QED
  BY <1>1, <1>2, PTL DEF Spec

\* Every variable of the pool stays in its range.
THEOREM Typing == Spec => []TypeOK
<1>1. PoolInv => TypeOK
  BY DEF PoolInv
<1> QED
  BY <1>1, Invariance, PTL

\* No task is lost, copied or executed twice, whatever the interleaving of
\* run(), the workers and shutdown().
THEOREM Conservation == Spec => []TasksConserved
<1>1. PoolInv => TasksConserved
  BY DEF PoolInv
<1> QED
  BY <1>1, Invariance, PTL

\* At the end of shutdown() all workers have exited, the last of them saw the
\* queue without promised tasks, and none holds a task any more.
LEMMA JoinedDrained ==
  ASSUME PoolInv, \A w \in Workers : pc[w] \in {"none", "exited"}
  PROVE  promised \subseteq executed
<1> USE DEF PoolInv
<1>1. InHand = {}
  BY DEF HandInv, InHand
<1>2. CASE \E w \in Workers : pc[w] = "none"
  BY <1>2 DEF OwnerInv
<1>3. CASE \E w \in Workers : pc[w] = "exited"
  BY <1>1, <1>3 DEF DrainInv
<1> QED
  BY <1>2, <1>3, PoolAssumption

\* When shutdown() returns, the tasks it found accepted have been executed.
THEOREM Draining == Spec => []ShutdownDrains
<1>1. PoolInv => ShutdownDrains
  BY JoinedDrained DEF ShutdownDrains, PoolInv, OwnerInv
<1> QED
  BY <1>1, Invariance, PTL

\* After done is set no worker goes to sleep: the worker that holds the mutex
\* evaluated its predicate before done was set, or after.
THEOREM NoSleep == Spec => NoSleepAfterDone
<1> DEFINE StaysAwake == \A w \in Workers :
                           done /\ pc[w] # "asleep" => pc'[w] # "asleep"
<1>1. PoolInv /\ [Next]_vars => [StaysAwake]_vars
  <2> SUFFICES ASSUME PoolInv, Next, NEW w \in Workers,
                      done, pc[w] # "asleep"
               PROVE  pc'[w] # "asleep"
    OBVIOUS
  <2>1. pc \in [Workers -> PcStates] /\ pc[w] # "block"
    BY DEF PoolInv, TypeOK, MutexInv
  <2>2. CASE \E t \in Tasks : Run(t)
    BY <2>1, <2>2 DEF Run, RunPush, RunNotify, workerVars
  <2>3. CASE \E v \in Workers : Worker(v) \/ SpuriousWake(v)
    BY <2>1, <2>3
    DEF Worker, SpuriousWake, Lock, Test, Block, Pop, Check, Execute
  <2>4. CASE InitPool \/ Shutdown
    BY <2>1, <2>4 DEF InitPool, Shutdown, ShutdownFlag, ShutdownNotify,
                      ShutdownJoin, workerVars
  <2> QED
    BY <2>2, <2>3, <2>4 DEF Next
<1>2. Spec => [][StaysAwake]_vars
  BY <1>1, Invariance, PTL DEF Spec
<1> QED
  BY <1>2 DEF NoSleepAfterDone

-------------------------------------------------------------------------------
(* ThreadPool implements TaskPool                                          *)

LEMMA InitRefines == Init => Abstract!Init
  BY DEF Init, Abstract!Init, Leaving, Phase

\* The set of busy workers' tasks is the same in both modules.
LEMMA SameSets ==
  ASSUME PoolInv
  PROVE  /\ Abstract!Waiting = Queued
         /\ Abstract!Running = InHand
  BY DEF Abstract!Waiting, Abstract!Running, Abstract!Range, Queued, InHand,
         Range, PoolInv, TypeOK

\* The steps of locking, sleeping and waking change nothing TaskPool sees.
LEMMA InvisibleStep ==
  ASSUME UNCHANGED <<queue, task, doneWorking, executed, promised>>,
         Phase' = Phase
  PROVE  UNCHANGED Abstract!poolVars
  BY DEF Abstract!poolVars, Leaving

\* Only init() gives a worker that has no thread one.
LEMMA PhaseLemma ==
  ASSUME owner' = owner,
         \A w \in Workers : pc[w] = "none" <=> pc'[w] = "none"
  PROVE  Phase' = Phase
  BY DEF Phase

\* A worker that runs has a thread.
LEMMA StartedLemma ==
  ASSUME PoolInv, NEW w \in Workers, pc[w] \notin {"none", "exited"}
  PROVE  Phase \in {"active", "closing"}
         /\ \A v \in Workers : pc[v] # "none"
  BY DEF PoolInv, TypeOK, OwnerInv, Phase

\* A push is a submission.
LEMMA RunPushRefines ==
  ASSUME PoolInv, NEW t \in Tasks, RunPush(t)
  PROVE  Abstract!Submit(t)
<1>1. t \notin Queued \union InHand \union executed
  BY DEF PoolInv, RunPush, TasksConserved
<1>2. Phase' = Phase /\ Leaving' = Leaving
  BY DEF RunPush, Phase, workerVars, Leaving
<1> QED
  BY <1>1, <1>2, SameSets
  DEF RunPush, Abstract!Submit, Abstract!Submitted, workerVars, history

\* A pop that finds a task is a start: only an initialised pool pops.
LEMMA PopRefines ==
  ASSUME PoolInv, NEW w \in Workers, Pop(w)
  PROVE  Abstract!Start(w) \/ UNCHANGED Abstract!poolVars
<1>1. Phase' = Phase /\ Leaving' = Leaving /\ UNCHANGED <<executed, promised>>
  BY PhaseLemma DEF PoolInv, TypeOK, Pop, Leaving, history
<1>2. CASE queue = <<>>
  BY <1>1, <1>2, InvisibleStep DEF Pop
<1>3. CASE queue # <<>>
  <2>1. Phase \in {"active", "closing"}
    BY StartedLemma DEF Pop
  <2>2. task[w] = None /\ w \notin Leaving
    BY DEF Pop, PoolInv, HandInv, DrainInv, Leaving
  <2> QED
    BY <1>1, <1>3, <2>1, <2>2 DEF Pop, Abstract!Start
<1> QED
  BY <1>2, <1>3

\* A worker that finds the queue empty and done set decides to leave.
LEMMA CheckRefines ==
  ASSUME PoolInv, NEW w \in Workers, Check(w)
  PROVE  Abstract!Leave(w) \/ UNCHANGED Abstract!poolVars
<1>1. Phase' = Phase
  <2>1. \A v \in Workers : pc[v] = "none" <=> pc'[v] = "none"
    BY DEF PoolInv, TypeOK, Check
  <2> QED
    BY <2>1, PhaseLemma DEF Check
<1>2. ~doneWorking[w] /\ doneWorking \in [Workers -> BOOLEAN]
  BY DEF PoolInv, TypeOK, DrainInv, Check
<1>3. CASE queue = <<>> /\ done
  <2>1. Phase = "closing"
    BY <1>3, StartedLemma DEF PoolInv, OwnerInv, TypeOK, Check, Phase
  <2>2. Leaving' = Leaving \union {w}
    BY <1>2, <1>3 DEF Check, Leaving
  <2> QED
    BY <1>1, <1>3, <2>1, <2>2 DEF Check, Abstract!Leave, history
<1>4. CASE ~(queue = <<>> /\ done)
  <2>1. Leaving' = Leaving
    BY <1>2, <1>4 DEF Check, Leaving
  <2> QED
    BY <1>1, <2>1 DEF Check, Abstract!poolVars, history
<1> QED
  BY <1>3, <1>4

\* The end of a task's execution is its finish.
LEMMA ExecuteRefines ==
  ASSUME PoolInv, NEW w \in Workers, Execute(w)
  PROVE  Abstract!Finish(w)
<1>1. task[w] # None
  BY DEF PoolInv, HandInv, Execute
<1>2. Phase' = Phase
  <2>1. \A v \in Workers : pc[v] = "none" <=> pc'[v] = "none"
    BY DEF PoolInv, TypeOK, Execute
  <2> QED
    BY <2>1, PhaseLemma DEF Execute
<1> QED
  BY <1>1, <1>2 DEF Execute, Abstract!Finish, Leaving

\* Setting done begins the shutdown, joining every worker ends it.
LEMMA ShutdownRefines ==
  ASSUME PoolInv, Shutdown
  PROVE  \/ Abstract!BeginShutdown \/ Abstract!EndShutdown
         \/ UNCHANGED Abstract!poolVars
<1>1. CASE ShutdownFlag
  <2>1. /\ owner = "open" => Phase = "active" /\ Phase' = "closing"
        /\ owner = "constructed" => Phase = "idle" /\ Phase' = "discarding"
    BY <1>1, PoolAssumption
    DEF ShutdownFlag, Phase, PoolInv, OwnerInv, workerVars
  <2>2. Leaving' = Leaving /\ UNCHANGED <<queue, task, executed>>
    BY <1>1 DEF ShutdownFlag, Leaving, workerVars
  <2> QED
    BY <1>1, <2>1, <2>2, SameSets DEF ShutdownFlag, Abstract!BeginShutdown
<1>2. CASE ShutdownNotify
  <2>1. Phase' = Phase
    BY <1>2 DEF ShutdownNotify, Phase, PoolInv, TypeOK
  <2> QED
    BY <1>2, <2>1, InvisibleStep DEF ShutdownNotify, history
<1>3. CASE ShutdownJoin
  <2>1. /\ Phase' = "closed"
        /\ \/ Phase = "discarding"
           \/ Phase = "closing" /\ \A w \in Workers : pc[w] = "exited"
    BY <1>3 DEF ShutdownJoin, Phase
  <2>2. promised \subseteq executed
    BY <1>3, JoinedDrained DEF ShutdownJoin
  <2>3. InHand = {}
    BY <1>3 DEF ShutdownJoin, InHand, Range, PoolInv, HandInv, TypeOK
  <2>4. (\A w \in Workers : pc[w] = "exited") => Leaving = Workers
    BY DEF Leaving, PoolInv, DrainInv
  <2>5. Leaving' = Leaving /\ UNCHANGED <<queue, task, executed, promised>>
    BY <1>3 DEF ShutdownJoin, Leaving, workerVars, history
  <2> QED
    BY <2>1, <2>2, <2>3, <2>4, <2>5, SameSets DEF Abstract!EndShutdown
<1> QED
  BY <1>1, <1>2, <1>3 DEF Shutdown

\* Every step of the pool is a step of TaskPool or invisible to it.
LEMMA StepRefines ==
  PoolInv /\ [Next]_vars => [Abstract!Next]_(Abstract!poolVars)
<1> SUFFICES ASSUME PoolInv, [Next]_vars
             PROVE  Abstract!Next \/ UNCHANGED Abstract!poolVars
  OBVIOUS
<1>1. ASSUME NEW t \in Tasks, RunPush(t)
      PROVE  Abstract!Next
  BY <1>1, RunPushRefines DEF Abstract!Next
<1>2. ASSUME NEW t \in Tasks, RunNotify(t)
      PROVE  UNCHANGED Abstract!poolVars
  <2>1. \A w \in Workers : pc[w] = "none" <=> pc'[w] = "none"
    BY <1>2 DEF PoolInv, TypeOK, RunNotify, Asleep
  <2> QED
    BY <1>2, <2>1, PhaseLemma, InvisibleStep DEF RunNotify, history
<1>3. ASSUME NEW w \in Workers,
             Lock(w) \/ Test(w) \/ Block(w) \/ SpuriousWake(w)
      PROVE  UNCHANGED Abstract!poolVars
  <2>1. \A v \in Workers : pc[v] = "none" <=> pc'[v] = "none"
    BY <1>3 DEF PoolInv, TypeOK, Lock, Test, Block, SpuriousWake
  <2> QED
    BY <1>3, <2>1, PhaseLemma, InvisibleStep
    DEF Lock, Test, Block, SpuriousWake, history
<1>4. ASSUME NEW w \in Workers, Pop(w) \/ Check(w) \/ Execute(w)
      PROVE  Abstract!Next \/ UNCHANGED Abstract!poolVars
  BY <1>4, PopRefines, CheckRefines, ExecuteRefines DEF Abstract!Next
<1>5. CASE InitPool
  <2>1. Phase = "idle" /\ Phase' = "active" /\ Leaving' = Leaving
    BY <1>5 DEF InitPool, Phase, Leaving
  <2> QED
    BY <1>5, <2>1 DEF InitPool, Abstract!Next, Abstract!Activate, history
<1>6. CASE Shutdown
  BY <1>6, ShutdownRefines DEF Abstract!Next
<1>7. CASE UNCHANGED vars
  BY <1>7, PhaseLemma, InvisibleStep DEF vars, workerVars, history
<1> QED
  BY <1>1, <1>2, <1>3, <1>4, <1>5, <1>6, <1>7 DEF Next, Run, Worker

\* ThreadPool implements TaskPool: tasks start in the order of their
\* submission, at most once, and shutdown() keeps its promise.
THEOREM Refinement == Spec => ImplementsTaskPool
<1>1. Init => Abstract!Init
  BY InitRefines
<1>2. PoolInv /\ [Next]_vars => [Abstract!Next]_(Abstract!poolVars)
  BY StepRefines
<1> QED
  BY <1>1, <1>2, Invariance, PTL DEF Spec, ImplementsTaskPool, Abstract!Spec
===============================================================================
