------------------------------- MODULE TaskPool -------------------------------
(***************************************************************************)
(* What a pool of worker threads promises to the code that submits tasks   *)
(* to it, with no lock or condition variable in sight: tasks are started   *)
(* in the order they were submitted, each at most once, each by one        *)
(* worker; a worker decides to leave only when the pool is closing and no  *)
(* task is pending, and finishes the task it has; a shutdown of an active  *)
(* pool returns when every worker has left, and by then the tasks          *)
(* submitted before the shutdown have finished.                            *)
(*                                                                         *)
(* It also says what the pool does not promise: a worker that has decided  *)
(* to leave takes no task that is submitted later.  ThreadPool implements  *)
(* this module, ServerRequests is built on it.                             *)
(***************************************************************************)
EXTENDS Sequences, Functions

CONSTANTS Workers, Tasks, None

VARIABLES pending,      \* submitted tasks that no worker has taken, in order
          hand,         \* the task each worker is executing, or None
          leaving,      \* the workers that will take no other task
          finished,     \* tasks that ran to completion
          phase,        \* "idle", "active", "closing", "discarding", "closed"
          promised      \* the tasks the shutdown under way has to wait for

poolVars == <<pending, hand, leaving, finished, phase, promised>>

Waiting   == Range(pending)
Running   == Range(hand) \ {None}
Submitted == Waiting \union Running \union finished

Init ==
  /\ pending = <<>>
  /\ hand = [w \in Workers |-> None]
  /\ leaving = {}
  /\ finished = {}
  /\ phase = "idle"
  /\ promised = {}

Submit(t) ==
  /\ t \notin Submitted
  /\ pending' = Append(pending, t)
  /\ UNCHANGED <<hand, leaving, finished, phase, promised>>

Activate ==
  /\ phase = "idle"
  /\ phase' = "active"
  /\ UNCHANGED <<pending, hand, leaving, finished, promised>>

Start(w) ==
  /\ phase \in {"active", "closing"}
  /\ hand[w] = None
  /\ w \notin leaving
  /\ pending # <<>>
  /\ pending' = Tail(pending)
  /\ hand' = [hand EXCEPT ![w] = Head(pending)]
  /\ UNCHANGED <<leaving, finished, phase, promised>>

Finish(w) ==
  /\ hand[w] # None
  /\ hand' = [hand EXCEPT ![w] = None]
  /\ finished' = finished \union {hand[w]}
  /\ UNCHANGED <<pending, leaving, phase, promised>>

Leave(w) ==
  /\ phase = "closing"
  /\ pending = <<>>
  /\ leaving' = leaving \union {w}
  /\ UNCHANGED <<pending, hand, finished, phase, promised>>

\* Only a pool that has threads can promise anything: shutting an idle pool
\* down abandons what was submitted to it.
BeginShutdown ==
  /\ \/ phase = "idle" /\ phase' = "discarding" /\ promised' = {}
     \/ /\ phase = "active"
        /\ phase' = "closing"
        /\ promised' = Waiting \union Running
  /\ UNCHANGED <<pending, hand, leaving, finished>>

EndShutdown ==
  /\ \/ phase = "discarding"
     \/ /\ phase = "closing"
        /\ leaving = Workers
        /\ Running = {}
        /\ promised \subseteq finished
  /\ phase' = "closed"
  /\ UNCHANGED <<pending, hand, leaving, finished, promised>>

Next ==
  \/ \E t \in Tasks : Submit(t)
  \/ \E w \in Workers : Start(w) \/ Finish(w) \/ Leave(w)
  \/ Activate \/ BeginShutdown \/ EndShutdown

Spec == Init /\ [][Next]_poolVars
===============================================================================
