---------------------------- MODULE AsynchronousLog ----------------------------
(***************************************************************************)
(* The performance log: PerformanceDataWriter formats a line and gives it  *)
(* to SynchronizedFile, which sends it to an AsynchronousBuffer under      *)
(* writingMutex.  The buffer's put area holds 5119 characters: a longer    *)
(* line overflows and reaches the buffer's queue in several pieces.  A     *)
(* thread of the buffer takes the pieces from the queue and writes them.   *)
(*                                                                         *)
(* The put area is touched by the holder of writingMutex alone and empty   *)
(* between two calls of write(), so a line is modelled by its pieces; the  *)
(* text is left out.  What the queue's mutex protects is one step.         *)
(*                                                                         *)
(* Users are the owners of the std::shared_ptr to the writer: the server   *)
(* and its requests.  The last one to let go runs the destructors.         *)
(***************************************************************************)
EXTENDS Naturals, Sequences, FiniteSets

CONSTANTS Users,        \* owners of the writer; each may write lines
          None,
          MaxLines,     \* bound on the lines one user writes
          MaxParts      \* most pieces a line is cut into by the put area

ASSUME LogAssumption ==
  /\ None \notin Users
  /\ MaxLines \in Nat
  /\ MaxParts \in Nat \ {0}

VARIABLES
  users,          \* who still holds the shared_ptr
  step,           \* where each user is in SynchronizedFile::write()
  lines,          \* lines each user has begun to write
  part,           \* pieces of its line each user has pushed
  parts,          \* pieces its line has
  writingMutex,   \* the user inside write(), or None
  queue,          \* the buffer's queue
  done,           \* set by the buffer's destructor
  destructor,     \* progress of the destructor
  worker,         \* "lock", "waiting", "write" or "ended"
  tmpBuffer,      \* what the worker took from the queue: at most one piece
  endWorker,      \* the worker's local of that name
  file            \* what has been written, in order

writerVars == <<users, step, lines, part, parts, writingMutex>>
workerVars == <<worker, tmpBuffer, endWorker, file>>
logVars    == <<writerVars, workerVars, queue, done, destructor>>

Piece == [by : Users, line : 1 .. MaxLines, part : 1 .. MaxParts,
          of : 1 .. MaxParts]

LogTypeOK ==
  /\ users \subseteq Users
  /\ step \in [Users -> {"out", "lock", "put", "notify"}]
  /\ lines \in [Users -> 0 .. MaxLines]
  /\ part \in [Users -> 0 .. MaxParts]
  /\ parts \in [Users -> 1 .. MaxParts]
  /\ writingMutex \in Users \union {None}
  /\ queue \in Seq(Piece)
  /\ done \in BOOLEAN
  /\ destructor \in {"unborn", "flag", "notify", "join", "closed"}
  /\ worker \in {"lock", "waiting", "write", "ended"}
  /\ tmpBuffer \in Seq(Piece) /\ Len(tmpBuffer) <= 1
  /\ endWorker \in BOOLEAN
  /\ file \in Seq(Piece)

LogInit ==
  /\ users = Users
  /\ step = [u \in Users |-> "out"]
  /\ lines = [u \in Users |-> 0]
  /\ part = [u \in Users |-> 0]
  /\ parts = [u \in Users |-> 1]
  /\ writingMutex = None
  /\ queue = <<>>
  /\ done = FALSE
  /\ destructor = "unborn"
  /\ worker = "lock"
  /\ tmpBuffer = <<>>
  /\ endWorker = FALSE
  /\ file = <<>>

-------------------------------------------------------------------------------
(* PerformanceDataWriter::write(), SynchronizedFile::write()               *)

\* write(): the line is formatted, writingMutex has to be locked.
Write(u) ==
  /\ u \in users
  /\ step[u] = "out"
  /\ lines[u] < MaxLines
  /\ step' = [step EXCEPT ![u] = "lock"]
  /\ UNCHANGED <<users, lines, part, parts, writingMutex, workerVars, queue,
                 done, destructor>>

Lock_NoMutex(u) ==
  /\ step[u] = "lock"
  /\ writingMutex' = u
  /\ step' = [step EXCEPT ![u] = "put"]
  /\ lines' = [lines EXCEPT ![u] = @ + 1]
  /\ part' = [part EXCEPT ![u] = 0]
  /\ \E n \in 1 .. MaxParts : parts' = [parts EXCEPT ![u] = n]
  /\ UNCHANGED <<users, workerVars, queue, done, destructor>>

\* The lock of writingMutex; the text fills the put area parts - 1 times.
Lock(u) ==
  /\ step[u] = "lock"
  /\ writingMutex = None
  /\ writingMutex' = u
  /\ step' = [step EXCEPT ![u] = "put"]
  /\ lines' = [lines EXCEPT ![u] = @ + 1]
  /\ part' = [part EXCEPT ![u] = 0]
  /\ \E n \in 1 .. MaxParts : parts' = [parts EXCEPT ![u] = n]
  /\ UNCHANGED <<users, workerVars, queue, done, destructor>>

PieceOf(u, n) == [by |-> u, line |-> lines[u], part |-> n, of |-> parts[u]]

\* sync(), called by overflow() when the put area is full and by std::flush at
\* the end: what the area holds goes to the queue, and a new area is set.
Sync(u) ==
  /\ step[u] = "put"
  /\ queue' = Append(queue, PieceOf(u, part[u] + 1))
  /\ part' = [part EXCEPT ![u] = @ + 1]
  /\ step' = [step EXCEPT ![u] = "notify"]
  /\ UNCHANGED <<users, lines, parts, writingMutex, workerVars, done,
                 destructor>>

\* notify_one() wakes the only thread that waits.
Awake == IF worker = "waiting" THEN "lock" ELSE worker

Notify_OnceMore(u) ==
  /\ step[u] = "notify"
  /\ worker' = Awake
  /\ IF part[u] <= parts[u]
     THEN /\ step' = [step EXCEPT ![u] = "put"]
          /\ UNCHANGED writingMutex
     ELSE /\ step' = [step EXCEPT ![u] = "out"]
          /\ writingMutex' = None
  /\ UNCHANGED <<users, lines, part, parts, tmpBuffer, endWorker, file, queue,
                 done, destructor>>

\* notify_one() after the push; write() ends with the last piece.
Notify(u) ==
  /\ step[u] = "notify"
  /\ worker' = Awake
  /\ IF part[u] < parts[u]
     THEN /\ step' = [step EXCEPT ![u] = "put"]
          /\ UNCHANGED writingMutex
     ELSE /\ step' = [step EXCEPT ![u] = "out"]
          /\ writingMutex' = None
  /\ UNCHANGED <<users, lines, part, parts, tmpBuffer, endWorker, file, queue,
                 done, destructor>>

\* A request ends, or the server resets its pointer.  The last owner destroys
\* the writer: ~SynchronizedFile flushes a put area that is empty.
Release(u) ==
  /\ u \in users
  /\ step[u] = "out"
  /\ users' = users \ {u}
  /\ destructor' = IF users' = {} THEN "flag" ELSE destructor
  /\ UNCHANGED <<step, lines, part, parts, writingMutex, workerVars, queue, done>>

-------------------------------------------------------------------------------
(* AsynchronousBuffer                                                      *)

\* Under the mutex: the predicate of the wait, and if it holds the front of
\* the queue, if there is one, and the decision to end.
WorkerLock_EndOnDone ==
  /\ worker = "lock"
  /\ IF queue = <<>> /\ ~done
     THEN worker' = "waiting" /\ UNCHANGED <<queue, tmpBuffer, endWorker>>
     ELSE /\ worker' = "write"
          /\ IF queue = <<>>
             THEN UNCHANGED <<queue, tmpBuffer>>
             ELSE tmpBuffer' = <<Head(queue)>> /\ queue' = Tail(queue)
          /\ endWorker' = done
  /\ UNCHANGED <<writerVars, file, done, destructor>>

WorkerLock ==
  /\ worker = "lock"
  /\ IF queue = <<>> /\ ~done
     THEN worker' = "waiting" /\ UNCHANGED <<queue, tmpBuffer, endWorker>>
     ELSE /\ worker' = "write"
          /\ IF queue = <<>>
             THEN UNCHANGED <<queue, tmpBuffer>>
             ELSE tmpBuffer' = <<Head(queue)>> /\ queue' = Tail(queue)
          /\ endWorker' = (queue' = <<>> /\ done)
  /\ UNCHANGED <<writerVars, file, done, destructor>>

\* A wait may return although nobody notified.
SpuriousWake ==
  /\ worker = "waiting"
  /\ worker' = "lock"
  /\ UNCHANGED <<writerVars, tmpBuffer, endWorker, file, queue, done, destructor>>

\* Without the mutex: what was taken is written.
WorkerWrite ==
  /\ worker = "write"
  /\ file' = file \o tmpBuffer
  /\ tmpBuffer' = <<>>
  /\ worker' = IF endWorker THEN "ended" ELSE "lock"
  /\ UNCHANGED <<writerVars, endWorker, queue, done, destructor>>

\* ~AsynchronousBuffer: done is set under the mutex.
DestructorFlag ==
  /\ destructor = "flag"
  /\ done' = TRUE
  /\ destructor' = "notify"
  /\ UNCHANGED <<writerVars, workerVars, queue>>

DestructorNotify_Forgotten ==
  /\ destructor = "notify"
  /\ destructor' = "join"
  /\ UNCHANGED <<writerVars, workerVars, queue, done>>

DestructorNotify ==
  /\ destructor = "notify"
  /\ worker' = Awake
  /\ destructor' = "join"
  /\ UNCHANGED <<writerVars, tmpBuffer, endWorker, file, queue, done>>

\* join() returns, and the file is closed.
DestructorJoin ==
  /\ destructor = "join"
  /\ worker = "ended"
  /\ destructor' = "closed"
  /\ UNCHANGED <<writerVars, workerVars, queue, done>>

-------------------------------------------------------------------------------

\* What write() does once it is called.
WriteStep(u) == Lock(u) \/ Sync(u) \/ Notify(u)

WorkerStep == WorkerLock \/ WorkerWrite

DestructorStep == DestructorFlag \/ DestructorNotify \/ DestructorJoin

LogNext ==
  \/ \E u \in Users : Write(u) \/ WriteStep(u) \/ Release(u)
  \/ WorkerStep
  \/ SpuriousWake
  \/ DestructorStep

LogSpec == LogInit /\ [][LogNext]_logVars

-------------------------------------------------------------------------------
(* Properties                                                              *)

\* Everything that was pushed, in order: written, in the worker's hands, queued.
Pushed == file \o tmpBuffer \o queue

\* Lines are not cut by other lines: in what the worker writes, a piece that
\* is not the first of its line follows the piece before it, and a new line
\* begins only when the line before it is whole.  (Two requests write at once;
\* a line longer than the put area is pushed several times.)
LinesWhole ==
  \A i \in 1 .. Len(Pushed) :
    IF Pushed[i].part > 1
    THEN i > 1 /\ Pushed[i - 1] = [Pushed[i] EXCEPT !.part = @ - 1]
    ELSE i > 1 => Pushed[i - 1].part = Pushed[i - 1].of

\* AppendLog's state: the log is closed when the destructor has ended.
Abstract == INSTANCE AppendLog WITH
  given <- Pushed, stored <- file, closed <- destructor = "closed"

\* The queue, the worker and the destructor lose, repeat and reorder nothing:
\* the file holds what was pushed so far up to some point, and everything
\* once the destructor has ended.
ImplementsAppendLog == Abstract!Spec

\* The destructor ends: when the last owner lets go, the worker is woken, sees
\* done and leaves (a shutdown of the server waits for it).
LogCloses == users = {} ~> destructor = "closed"
===============================================================================
