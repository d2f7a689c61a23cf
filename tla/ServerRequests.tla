---------------------------- MODULE ServerRequests ----------------------------
(***************************************************************************)
(* The server's life (server.cpp: init, serve, shutdown) and its requests, *)
(* as far as they share the pool of threads: the main thread accepts a     *)
(* connection and submits a request task; the worker that executes it      *)
(* submits a transmit task to the SAME pool and waits for it.              *)
(*                                                                         *)
(* The pool is TaskPool, what ThreadPool is proved to implement.  What a   *)
(* request and its transmission say to each other is Transmission; here a  *)
(* request only prepares its messages, and its transmission ends when they *)
(* are prepared and sent, or earlier if a send fails.  The exception that  *)
(* processRequest does not catch is in Transmission (OpenFileThrows), not  *)
(* here.                                                                   *)
(***************************************************************************)
EXTENDS Integers, Sequences, FiniteSets, Functions

CONSTANTS Workers,      \* the threads of requestThreadPool
          Conns,        \* bound: the connections clients make, each once
          None

Request(c)  == <<"request", c>>
Transmit(c) == <<"transmit", c>>
Tasks == {Request(c) : c \in Conns} \union {Transmit(c) : c \in Conns}
Conn(t) == t[2]

ASSUME ServerAssumption ==
  /\ Workers # {}
  /\ None \notin Tasks \union Conns

VARIABLES
  pending, hand, leaving, finished, phase, promised,    \* requestThreadPool
  main,         \* the main thread: "created", "failed" (init threw),
                \* "serving", "joining" (in shutdown, at the pool's),
                \* "monitor" (joins the monitor), "stopped", "crashed"
  doneServing,
  monitor,      \* the CPU monitor thread: "none", "running", "ended"
  conn,         \* each connection's progress
  kept          \* the connection whose socket is kept alive by the function
                \* object in each worker's local `task', or None

poolVars   == <<pending, hand, leaving, finished, phase, promised>>
serverVars == <<main, doneServing, monitor>>
vars       == <<poolVars, serverVars, conn, kept>>

Pool == INSTANCE TaskPool

Init ==
  /\ Pool!Init
  /\ main = "created"
  /\ doneServing = TRUE
  /\ monitor = "none"
  /\ conn = [c \in Conns |-> "away"]
  /\ kept = [w \in Workers |-> None]

\* An exception nobody catches ends the process.
Alive == main # "crashed"

-------------------------------------------------------------------------------
(* The main thread                                                         *)

InitServer ==
  /\ main = "created"
  /\ Pool!Activate
  /\ doneServing' = FALSE
  /\ monitor' = "running"
  /\ main' = "serving"
  /\ UNCHANGED <<conn, kept>>

\* The shutdown pipe cannot be opened, or the socket not bound: the pool's
\* threads run, and doneServing still says that there is nothing to stop.
InitFails ==
  /\ main = "created"
  /\ Pool!Activate
  /\ main' = "failed"
  /\ UNCHANGED <<doneServing, monitor, conn, kept>>

AcceptRequest(c) ==
  /\ main = "serving"
  /\ conn[c] = "away"
  /\ conn' = [conn EXCEPT ![c] = "accepted"]
  /\ Pool!Submit(Request(c))
  /\ UNCHANGED <<serverVars, kept>>

\* accept() throws NetworkError through serve() and main().
AcceptFails ==
  /\ main = "serving"
  /\ main' = "crashed"
  /\ UNCHANGED <<poolVars, doneServing, monitor, conn, kept>>

\* The shutdown pipe becomes readable: shutdown(), up to the flag of the
\* pool's shutdown().
ReadPipe ==
  /\ main = "serving"
  /\ Pool!BeginShutdown
  /\ main' = "joining"
  /\ UNCHANGED <<doneServing, monitor, conn, kept>>

\* ~Server of a server that is not serving: its shutdown() returns at once,
\* and ~ThreadPool shuts the pool down.
Destroy ==
  /\ main \in {"created", "failed"}
  /\ Pool!BeginShutdown
  /\ main' = "joining"
  /\ UNCHANGED <<doneServing, monitor, conn, kept>>

\* Mutant of PoolJoined: the threads are not joined.
PoolJoined_Detached ==
  /\ main = "joining"
  /\ phase' = "closed"
  /\ doneServing' = TRUE
  /\ main' = IF monitor = "none" THEN "stopped" ELSE "monitor"
  /\ UNCHANGED <<pending, hand, leaving, finished, promised, monitor, conn,
                 kept>>

\* The pool's shutdown() returns and the monitor is told to stop, if it runs.
PoolJoined ==
  /\ main = "joining"
  /\ Pool!EndShutdown
  /\ doneServing' = TRUE
  /\ main' = IF monitor = "none" THEN "stopped" ELSE "monitor"
  /\ UNCHANGED <<monitor, conn, kept>>

MonitorJoined ==
  /\ main = "monitor"
  /\ monitor = "ended"
  /\ main' = "stopped"
  /\ UNCHANGED <<poolVars, doneServing, monitor, conn, kept>>

MonitorEnds ==
  /\ Alive
  /\ monitor = "running"
  /\ doneServing
  /\ monitor' = "ended"
  /\ UNCHANGED <<poolVars, main, doneServing, conn, kept>>

-------------------------------------------------------------------------------
(* The workers                                                             *)

\* Mutant of Start: the whole task is taken for its connection.
Start_KeepsTask(w) ==
  /\ Alive
  /\ Pool!Start(w)
  /\ kept' = [kept EXCEPT ![w] = Head(pending)]
  /\ UNCHANGED <<serverVars, conn>>

\* pop(task) assigns a new function object over the last one.
Start(w) ==
  /\ Alive
  /\ Pool!Start(w)
  /\ kept' = [kept EXCEPT ![w] = Conn(Head(pending))]
  /\ UNCHANGED <<serverVars, conn>>

\* Mutant of Leave: a closing pool's worker leaves tasks in the queue.
Leave_IgnoresQueue(w) ==
  /\ Alive
  /\ w \notin leaving
  /\ hand[w] = None
  /\ phase = "closing"
  /\ leaving' = leaving \union {w}
  /\ kept' = [kept EXCEPT ![w] = None]
  /\ UNCHANGED <<pending, hand, finished, phase, promised, serverVars, conn>>

\* A worker decides to leave when it has found no task, or right after it has
\* taken the last one.  A worker without a task ends then, and so does `task'.
Leave(w) ==
  /\ Alive
  /\ w \notin leaving
  /\ \A c \in Conns : hand[w] = Request(c) => conn[c] = "accepted"
  /\ Pool!Leave(w)
  /\ kept' = [kept EXCEPT ![w] = IF hand[w] = None THEN None ELSE @]
  /\ UNCHANGED <<serverVars, conn>>

\* The worker's task returns; a worker that is leaving ends.
Return(w) ==
  /\ Pool!Finish(w)
  /\ kept' = [kept EXCEPT ![w] = IF w \in leaving THEN None ELSE @]
  /\ UNCHANGED serverVars

\* The request cannot be received, parsed or prepared.
Reject(w, c) ==
  /\ Alive
  /\ hand[w] = Request(c)
  /\ conn[c] = "accepted"
  /\ conn' = [conn EXCEPT ![c] = "rejected"]
  /\ Return(w)

\* Mutant of SubmitTransmit: the task never gets into the queue.
SubmitTransmit_NotQueued(w, c) ==
  /\ Alive
  /\ hand[w] = Request(c)
  /\ conn[c] = "accepted"
  /\ conn' = [conn EXCEPT ![c] = "transmitting"]
  /\ UNCHANGED <<poolVars, serverVars, kept>>

SubmitTransmit(w, c) ==
  /\ Alive
  /\ hand[w] = Request(c)
  /\ conn[c] = "accepted"
  /\ conn' = [conn EXCEPT ![c] = "transmitting"]
  /\ Pool!Submit(Transmit(c))
  /\ UNCHANGED <<serverVars, kept>>

\* Every message has been queued: requestDone.
Prepared(w, c) ==
  /\ Alive
  /\ hand[w] = Request(c)
  /\ conn[c] = "transmitting"
  /\ conn' = [conn EXCEPT ![c] = "prepared"]
  /\ UNCHANGED <<poolVars, serverVars, kept>>

\* Mutant of RequestReturns: the future is not waited for.
RequestReturns_NoWait(w, c) ==
  /\ Alive
  /\ hand[w] = Request(c)
  /\ conn[c] = "prepared"
  /\ conn' = [conn EXCEPT ![c] = "answered"]
  /\ Return(w)

\* transmissionThread.wait() returns, and so does processRequest.
RequestReturns(w, c) ==
  /\ Alive
  /\ hand[w] = Request(c)
  /\ conn[c] = "prepared"
  /\ Transmit(c) \in finished
  /\ conn' = [conn EXCEPT ![c] = "answered"]
  /\ Return(w)

TransmitEnds(w, c) ==
  /\ Alive
  /\ hand[w] = Transmit(c)
  /\ conn[c] = "prepared"
  /\ Return(w)
  /\ UNCHANGED conn

\* A send throws: transmit does not wait for requestDone.
TransmitFails(w, c) ==
  /\ Alive
  /\ hand[w] = Transmit(c)
  /\ Return(w)
  /\ UNCHANGED conn

-------------------------------------------------------------------------------

Serve(w, c) ==
  \/ Reject(w, c) \/ SubmitTransmit(w, c) \/ Prepared(w, c)
  \/ RequestReturns(w, c) \/ TransmitEnds(w, c)

Worker(w) == Start(w) \/ Leave(w) \/ \E c \in Conns : Serve(w, c)

Next ==
  \/ InitServer \/ InitFails \/ Destroy
  \/ \E c \in Conns : AcceptRequest(c)
  \/ AcceptFails
  \/ ReadPipe \/ PoolJoined \/ MonitorJoined \/ MonitorEnds
  \/ \E w \in Workers :
       Worker(w) \/ \E c \in Conns : TransmitFails(w, c)

Spec == Init /\ [][Next]_vars

\* A worker that has a task goes on with it, and clients send their request.  Once
\* the pool is closing, notify_all has woken every worker, which takes a task or
\* leaves.  In an open pool nothing makes a worker take a task: the notification
\* of run() may be lost (see OpenPoolRunsTasks of ThreadPool).
GoesOn(w) ==
  \/ \E c \in Conns : Serve(w, c)
  \/ phase = "closing" /\ (Start(w) \/ Leave(w))

\* The main thread and the monitor run too.  No connection, shutdown or failure is
\* forced.
FairSpec ==
  /\ Spec
  /\ \A w \in Workers : WF_vars(GoesOn(w))
  /\ WF_vars(PoolJoined) /\ WF_vars(MonitorJoined) /\ WF_vars(MonitorEnds)

-------------------------------------------------------------------------------
(* Properties                                                              *)

\* Every variable stays in its range.
TypeOK ==
  /\ pending \in Seq(Tasks)
  /\ hand \in [Workers -> Tasks \union {None}]
  /\ leaving \subseteq Workers
  /\ finished \subseteq Tasks
  /\ phase \in {"idle", "active", "closing", "discarding", "closed"}
  /\ promised \subseteq Tasks
  /\ main \in {"created", "failed", "serving", "joining", "monitor", "stopped",
               "crashed"}
  /\ doneServing \in BOOLEAN
  /\ monitor \in {"none", "running", "ended"}
  /\ conn \in [Conns -> {"away", "accepted", "transmitting", "prepared",
                         "rejected", "answered"}]
  /\ kept \in [Workers -> Conns \union {None}]

\* The socket of c is referenced by a task in the queue, by the task a worker
\* executes, or by the one it executed last.
SocketHeld(c) ==
  \/ \E t \in Pool!Waiting \union Pool!Running : Conn(t) = c
  \/ \E w \in Workers : kept[w] = c

\* When a transmit task waits or runs, the request whose locals it works on is
\* still on some worker's stack, whatever shutdowns and failed sends do.
RequestOutlivesTransmit ==
  \A c \in Conns :
    Transmit(c) \in Pool!Waiting \union Pool!Running =>
      \E w \in Workers : hand[w] = Request(c)

\* A server that has stopped has ended every request it accepted, one way or
\* the other, and holds no client's socket: not in the queue, not in a
\* worker's hands and not in a worker's last function object.
StopLeavesNothing ==
  main = "stopped" =>
    \A c \in Conns :
      conn[c] \in {"away", "rejected", "answered"} /\ ~SocketHeld(c)

\* A task waits beside a worker that could take it.  It does so for good when the
\* notification that came with it was lost, and no later one makes up for it.
Overslept == pending # <<>> /\ \E w \in Workers : hand[w] = None

\* While the server is serving, a lost wake-up is the only thing that keeps an
\* accepted request from ending (checked with fewer connections than threads: a
\* request needs a second thread, and two of them may wait for the same one).
EveryRequestEnds ==
  \A c \in Conns :
    conn[c] = "accepted" ~>
      conn[c] \in {"rejected", "answered"} \/ main # "serving" \/ []Overslept

\* A shutdown ends if every request it finds has submitted its transmission
\* before the flag was set: the pool's promise then covers all the work there
\* is (checked, like EveryRequestEnds, with fewer connections than threads).
QuietShutdownEnds ==
  (/\ main = "joining"
   /\ \A c \in Conns :
        \/ conn[c] \in {"away", "rejected", "answered"}
        \/ /\ conn[c] \in {"transmitting", "prepared"}
           /\ Transmit(c) \in promised \union finished)
  ~> main = "stopped"

\* What serve() says it does when the pipe is readable, "Shutdown pipe, so
\* shut down!", and what killServer of client_server_test.hpp waits for: a
\* server that is told to shut down stops.
ShutdownEnds == main = "joining" ~> main = "stopped"

\* What the requirements say: the server receives a request and transmits the
\* requested files to the client.  A lost wake-up (OpenPoolRunsTasks) is excused.
RequestsAreServed ==
  \A c \in Conns :
    conn[c] = "transmitting" ~>
      conn[c] = "answered" \/ main # "serving" \/ []Overslept
===============================================================================
