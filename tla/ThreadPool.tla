------------------------------ MODULE ThreadPool ------------------------------
(***************************************************************************)
(* autocomp::ThreadPool (thread_pool.hpp, thread_pool.cpp) and the         *)
(* SynchronousQueue it keeps its tasks in.                                 *)
(*                                                                         *)
(* The queue has a mutex of its own, so each of its methods is one step.   *)
(* The pool's mutex protects `done' and the workers' wait, but run()       *)
(* pushes and notifies without taking it: a push and a notification can    *)
(* fall between a worker's evaluation of the wait predicate and the moment *)
(* it blocks, which is why those are two steps here.                       *)
(*                                                                         *)
(* pc of a worker: "none" (thread not created), "lock" (head of the loop), *)
(* "test" (holds the mutex, about to evaluate the predicate), "block"      *)
(* (predicate false, about to release the mutex and sleep), "asleep" (in   *)
(* the condition variable), "woken" (notified, has to take the mutex       *)
(* again), "pop", "check" (holds the mutex), "run" (executes its task      *)
(* without the mutex), "exited".                                           *)
(***************************************************************************)
EXTENDS Naturals, Sequences, Functions

CONSTANTS Workers,      \* the pool's threads (its constructor's nThreads)
          Tasks,        \* the tasks that callers may submit, each once
          None          \* no task, nobody

ASSUME PoolAssumption ==
  /\ Workers # {}
  /\ None \notin Workers
  /\ None \notin Tasks

VARIABLES queue,        \* taskQueue
          done,         \* the shutdown flag
          mutex,        \* the worker that holds the pool's mutex, or None
          pc,           \* where each worker is
          task,         \* the task each worker has dequeued, or None
          doneWorking,  \* each worker's local flag
          call,         \* each task's run(): "idle", "pushed", "returned"
          owner,        \* the thread that calls init() and shutdown()
          executed,     \* history: the tasks whose execution has ended
          promised      \* history: the tasks accepted and not executed when
                        \* shutdown() set done, if the pool had threads

vars == <<queue, done, mutex, pc, task, doneWorking, call, owner, executed,
          promised>>
workerVars == <<pc, task, doneWorking>>
history    == <<executed, promised>>

Queued  == Range(queue)
Asleep  == {w \in Workers : pc[w] = "asleep"}
InHand  == {task[w] : w \in Workers} \ {None}

\* The constructor: no thread runs yet.
Init ==
  /\ queue = <<>>
  /\ done = FALSE
  /\ mutex = None
  /\ pc = [w \in Workers |-> "none"]
  /\ task = [w \in Workers |-> None]
  /\ doneWorking = [w \in Workers |-> FALSE]
  /\ call = [t \in Tasks |-> "idle"]
  /\ owner = "constructed"
  /\ executed = {}
  /\ promised = {}

-------------------------------------------------------------------------------
(* run(), called by any thread                                             *)

RunPush(t) ==
  /\ call[t] = "idle"
  /\ queue' = Append(queue, t)
  /\ call' = [call EXCEPT ![t] = "pushed"]
  /\ UNCHANGED <<done, mutex, workerVars, owner, history>>

\* notify_one: wakes one sleeping worker, does nothing when none sleeps.
RunNotify(t) ==
  /\ call[t] = "pushed"
  /\ call' = [call EXCEPT ![t] = "returned"]
  /\ \/ \E w \in Asleep : pc' = [pc EXCEPT ![w] = "woken"]
     \/ Asleep = {} /\ UNCHANGED pc
  /\ UNCHANGED <<queue, done, mutex, task, doneWorking, owner, history>>

-------------------------------------------------------------------------------
(* worker()                                                                *)

\* Enters the critical section: at the head of the loop, or when wait()
\* takes the mutex again after a wake-up.
Lock(w) ==
  /\ pc[w] \in {"lock", "woken"}
  /\ mutex = None
  /\ mutex' = w
  /\ pc' = [pc EXCEPT ![w] = "test"]
  /\ UNCHANGED <<queue, done, task, doneWorking, call, owner, history>>

\* Mutant of Test: the predicate looks at done only.
Test_OnlyDone(w) ==
  /\ pc[w] = "test"
  /\ pc' = [pc EXCEPT ![w] = IF done THEN "pop" ELSE "block"]
  /\ UNCHANGED <<queue, done, mutex, task, doneWorking, call, owner, history>>

\* The wait predicate: the queue is not empty, or done.
Test(w) ==
  /\ pc[w] = "test"
  /\ pc' = [pc EXCEPT ![w] = IF queue # <<>> \/ done THEN "pop" ELSE "block"]
  /\ UNCHANGED <<queue, done, mutex, task, doneWorking, call, owner, history>>

\* Releases the mutex and goes to sleep, atomically.
Block(w) ==
  /\ pc[w] = "block"
  /\ mutex' = None
  /\ pc' = [pc EXCEPT ![w] = "asleep"]
  /\ UNCHANGED <<queue, done, task, doneWorking, call, owner, history>>

\* A condition variable may wake a thread that nobody notified.
SpuriousWake(w) ==
  /\ pc[w] = "asleep"
  /\ pc' = [pc EXCEPT ![w] = "woken"]
  /\ UNCHANGED <<queue, done, mutex, task, doneWorking, call, owner, history>>

\* Mutant of Pop: the task is read but not taken out of the queue.
Pop_KeepsHead(w) ==
  /\ pc[w] = "pop"
  /\ pc' = [pc EXCEPT ![w] = "check"]
  /\ IF queue # <<>> THEN task' = [task EXCEPT ![w] = Head(queue)]
     ELSE UNCHANGED task
  /\ UNCHANGED <<queue, done, mutex, doneWorking, call, owner, history>>

\* Mutant of Pop: the newest task goes first.
Pop_TakesLast(w) ==
  /\ pc[w] = "pop"
  /\ pc' = [pc EXCEPT ![w] = "check"]
  /\ IF queue # <<>>
     THEN /\ task' = [task EXCEPT ![w] = queue[Len(queue)]]
          /\ queue' = SubSeq(queue, 1, Len(queue) - 1)
     ELSE UNCHANGED <<task, queue>>
  /\ UNCHANGED <<done, mutex, doneWorking, call, owner, history>>

\* dequeued = taskQueue.pop(task); dequeued is task[w] # None.
Pop(w) ==
  /\ pc[w] = "pop"
  /\ pc' = [pc EXCEPT ![w] = "check"]
  /\ \/ /\ queue # <<>>
        /\ task' = [task EXCEPT ![w] = Head(queue)]
        /\ queue' = Tail(queue)
     \/ /\ queue = <<>>
        /\ UNCHANGED <<task, queue>>
  /\ UNCHANGED <<done, mutex, doneWorking, call, owner, history>>

\* Mutant of Check: the task is called whether one was dequeued or not.
Check_RunsAnyway(w) ==
  /\ pc[w] = "check"
  /\ doneWorking' = [doneWorking EXCEPT ![w] = queue = <<>> /\ done]
  /\ mutex' = None
  /\ pc' = [pc EXCEPT ![w] = "run"]
  /\ UNCHANGED <<queue, done, task, call, owner, history>>

\* doneWorking = queue empty and done; leaves the critical section.
Check(w) ==
  /\ pc[w] = "check"
  /\ doneWorking' = [doneWorking EXCEPT ![w] = queue = <<>> /\ done]
  /\ mutex' = None
  /\ pc' = [pc EXCEPT ![w] = IF task[w] # None THEN "run"
                             ELSE IF doneWorking'[w] THEN "exited"
                             ELSE "lock"]
  /\ UNCHANGED <<queue, done, task, call, owner, history>>

\* The task ends; a packaged_task keeps what its function throws.  (The local
\* `task' keeps the function object until the next pop: ServerRequests says
\* what that means for the client's socket.)
Execute(w) ==
  /\ pc[w] = "run"
  /\ executed' = executed \union {task[w]}
  /\ task' = [task EXCEPT ![w] = None]
  /\ pc' = [pc EXCEPT ![w] = IF doneWorking[w] THEN "exited" ELSE "lock"]
  /\ UNCHANGED <<queue, done, mutex, doneWorking, call, owner, promised>>

-------------------------------------------------------------------------------
(* init() and shutdown(), called by the pool's owner                       *)

InitPool ==
  /\ owner = "constructed"
  /\ owner' = "open"
  /\ pc' = [w \in Workers |-> "lock"]
  /\ UNCHANGED <<queue, done, mutex, task, doneWorking, call, history>>

\* Mutant of ShutdownFlag: done is set without the mutex.
ShutdownFlag_NoMutex ==
  /\ owner \in {"constructed", "open"}
  /\ done' = TRUE
  /\ owner' = "flagged"
  /\ promised' = IF owner = "open" THEN Queued \union InHand ELSE {}
  /\ UNCHANGED <<queue, mutex, workerVars, call, executed>>

\* Sets done under the mutex.  The destructor calls shutdown() too, also of
\* a pool whose init() was never called.
ShutdownFlag ==
  /\ owner \in {"constructed", "open"}
  /\ mutex = None
  /\ done' = TRUE
  /\ owner' = "flagged"
  /\ promised' = IF owner = "open" THEN Queued \union InHand ELSE {}
  /\ UNCHANGED <<queue, mutex, workerVars, call, executed>>

\* Mutant of ShutdownNotify: notify_one() instead of notify_all().
ShutdownNotify_One ==
  /\ owner = "flagged"
  /\ owner' = "joining"
  /\ \/ \E w \in Asleep : pc' = [pc EXCEPT ![w] = "woken"]
     \/ Asleep = {} /\ UNCHANGED pc
  /\ UNCHANGED <<queue, done, mutex, task, doneWorking, call, history>>

ShutdownNotify ==
  /\ owner = "flagged"
  /\ owner' = "joining"
  /\ pc' = [w \in Workers |-> IF pc[w] = "asleep" THEN "woken" ELSE pc[w]]
  /\ UNCHANGED <<queue, done, mutex, task, doneWorking, call, history>>

\* Mutant of ShutdownJoin: the first thread that ends is enough.
ShutdownJoin_One ==
  /\ owner = "joining"
  /\ \E w \in Workers : pc[w] \in {"none", "exited"}
  /\ owner' = "closed"
  /\ UNCHANGED <<queue, done, mutex, workerVars, call, history>>

\* join() of every joinable thread: a thread that was never started is not.
ShutdownJoin ==
  /\ owner = "joining"
  /\ \A w \in Workers : pc[w] \in {"none", "exited"}
  /\ owner' = "closed"
  /\ UNCHANGED <<queue, done, mutex, workerVars, call, history>>

-------------------------------------------------------------------------------

Run(t)    == RunPush(t) \/ RunNotify(t)
Worker(w) == \/ Lock(w) \/ Test(w) \/ Block(w)
             \/ Pop(w) \/ Check(w) \/ Execute(w)
Shutdown  == ShutdownFlag \/ ShutdownNotify \/ ShutdownJoin

Next ==
  \/ \E t \in Tasks : Run(t)
  \/ \E w \in Workers : Worker(w) \/ SpuriousWake(w)
  \/ InitPool
  \/ Shutdown

Spec == Init /\ [][Next]_vars

\* A started run() call and a started thread keep running, tasks end, and a
\* thread that finds the mutex free again and again gets it.  Nothing forces
\* a caller to call run(), the owner to shut the pool down, or a spurious
\* wake-up to happen.
Fairness ==
  /\ \A t \in Tasks : WF_vars(RunNotify(t))
  /\ \A w \in Workers : WF_vars(Worker(w)) /\ SF_vars(Lock(w))
  /\ WF_vars(ShutdownNotify) /\ WF_vars(ShutdownJoin)

FairSpec == Spec /\ Fairness

-------------------------------------------------------------------------------
(* Properties                                                              *)

PcStates == {"none", "lock", "test", "block", "asleep", "woken", "pop",
             "check", "run", "exited"}

\* Every variable of the pool stays in its range.
TypeOK ==
  /\ queue \in Seq(Tasks)
  /\ done \in BOOLEAN
  /\ mutex \in Workers \union {None}
  /\ pc \in [Workers -> PcStates]
  /\ task \in [Workers -> Tasks \union {None}]
  /\ doneWorking \in [Workers -> BOOLEAN]
  /\ call \in [Tasks -> {"idle", "pushed", "returned"}]
  /\ owner \in {"constructed", "open", "flagged", "joining", "closed"}
  /\ executed \subseteq Tasks
  /\ promised \subseteq Tasks

\* No task is lost, copied or run twice between run(), the queue and the
\* workers: a submitted task is in the queue, in one worker's hands or
\* executed, in exactly one of the three places and only once.
TasksConserved ==
  /\ \A t \in Tasks :
       call[t] # "idle" <=> t \in Queued \union InHand \union executed
  /\ IsInjective(queue)
  /\ \A v, w \in Workers : task[v] = task[w] /\ task[v] # None => v = w
  /\ Queued \intersect (InHand \union executed) = {}
  /\ InHand \intersect executed = {}

\* When shutdown() of a started pool returns, every task that run() had
\* queued before done was set has been executed: the workers leave only when
\* the queue is empty and are joined.
ShutdownDrains == owner = "closed" => promised \subseteq executed

\* Once done is set no worker goes to sleep any more, so the single
\* notify_all() of shutdown() reaches everyone: done is set under the mutex
\* that a worker holds from its predicate until it sleeps.
NoSleepAfterDone ==
  [][\A w \in Workers : done /\ pc[w] # "asleep" => pc'[w] # "asleep"]_vars

\* shutdown() returns: every worker is woken, drains the queue and is joined.
ShutdownReturns == owner = "flagged" ~> owner = "closed"

\* A worker that is awake outside the gap between its predicate and its sleep
\* does not go back to sleep, or leave, before the queue has been empty: one
\* later wake-up is enough for all the tasks whose notification was lost.
\* (A worker with doneWorking has seen the queue empty and done set.)
AwakeWorkerDrains ==
  \A w \in Workers :
    (pc[w] \in {"lock", "woken", "test", "pop", "check", "run"}
       /\ ~doneWorking[w]) ~> queue = <<>>

\* What thread_pool.hpp says of run(), "Wake up one thread if its waiting",
\* and thread_pool_test.hpp relies on when it waits for the futures before it
\* shuts the pool down: an open pool executes every task whose run() returned.
OpenPoolRunsTasks ==
  \A t \in Tasks :
    (call[t] = "returned" /\ owner = "open") ~>
      (t \in executed \/ owner # "open")

\* What a client of the pool sees of the owner's progress.
Phase == CASE owner = "constructed" -> "idle"
           [] owner = "open" -> "active"
           [] owner \in {"flagged", "joining"} ->
                IF \E w \in Workers : pc[w] = "none" THEN "discarding"
                ELSE "closing"
           [] owner = "closed" -> "closed"

Leaving == {w \in Workers : doneWorking[w]}

\* The pool implements the abstract one.
Abstract == INSTANCE TaskPool WITH
  pending <- queue, hand <- task, leaving <- Leaving, finished <- executed,
  phase <- Phase

\* Every step of the pool is a step of TaskPool or leaves its state alone:
\* tasks start in submission order, once, and shutdown() keeps its promise.
ImplementsTaskPool == Abstract!Spec
===============================================================================
