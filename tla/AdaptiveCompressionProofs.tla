------------------------ MODULE AdaptiveCompressionProofs ------------------------
(***************************************************************************)
(* Theorems about AsynchronousLog, for every set of users, number of lines *)
(* and length of a line: its type invariant, that lines reach the file     *)
(* whole, and that the log implements AppendLog.  And theorems about the   *)
(* requests that share the statics of the adaptive compressor and use the  *)
(* log, for every finite set of them, window, size and number of chunks.   *)
(***************************************************************************)
EXTENDS AdaptiveCompression, QueueLemmas, FiniteSetTheorems

-------------------------------------------------------------------------------
(* The inductive invariant of the log                                      *)

\* The user inside write() holds writingMutex, and has lines to write.
WriterInv ==
  /\ \A u \in Users : writingMutex = u <=> step[u] \in {"put", "notify"}
  /\ \A u \in Users : step[u] = "lock" => lines[u] < MaxLines
  /\ \A u \in Users : step[u] \in {"put", "notify"} => lines[u] > 0
  /\ \A u \in Users : step[u] = "put" => part[u] < parts[u]
  /\ \A u \in Users : step[u] = "notify" => part[u] \in 1 .. parts[u]

\* A user that writes holds the log, and a log that is held is not destroyed.
OwnerInv ==
  /\ \A u \in Users : step[u] # "out" => u \in users
  /\ users # {} => destructor = "unborn"
  /\ done <=> destructor \in {"notify", "join", "closed"}

\* The worker ends after done, with nothing left to write.
WorkerInv ==
  /\ tmpBuffer # <<>> => worker = "write"
  /\ endWorker => done /\ queue = <<>> /\ worker \in {"write", "ended"}
  /\ worker = "ended" => endWorker
  /\ destructor = "closed" => worker = "ended"

LogInv == LogTypeOK /\ WriterInv /\ OwnerInv /\ WorkerInv

-------------------------------------------------------------------------------
(* Lemmas on sequences                                                     *)

\* A sequence of at most one element that is not empty.
LEMMA Singleton ==
  ASSUME NEW S, NEW s \in Seq(S), s # <<>>, Len(s) <= 1
  PROVE  \E p \in S : s = <<p>>
<1>1. Len(s) = 1
  <2>1. Len(s) \in Nat
    BY LenProperties
  <2>2. CASE Len(s) = 0
    BY <2>2, EmptySeq
  <2> QED
    BY <2>1, <2>2
<1>2. /\ s[1] \in S
      /\ <<s[1]>> \in Seq(S) /\ Len(<<s[1]>>) = 1
      /\ <<s[1]>>[1] = s[1]
  BY <1>1
<1>3. s = <<s[1]>>
  BY <1>1, <1>2, SeqEqual
<1> QED
  BY <1>2, <1>3

-------------------------------------------------------------------------------
(* Invariance                                                              *)

LEMMA InitInv == LogInit => LogInv
<1> SUFFICES ASSUME LogInit
             PROVE  LogInv
  OBVIOUS
<1>1. <<>> \in Seq(Piece) /\ Len(<<>>) = 0
  BY EmptySeq
<1>2. /\ queue \in Seq(Piece) /\ file \in Seq(Piece)
      /\ tmpBuffer \in Seq(Piece) /\ Len(tmpBuffer) <= 1
  BY <1>1 DEF LogInit
<1>4. 1 \in 1 .. MaxParts /\ 0 \in 0 .. MaxParts /\ 0 \in 0 .. MaxLines
  BY LogAssumption
<1>5. LogTypeOK
  BY <1>2, <1>4 DEF LogInit, LogTypeOK
<1>3. WriterInv /\ OwnerInv /\ WorkerInv
  BY LogAssumption DEF LogInit, WriterInv, OwnerInv, WorkerInv
<1> QED
  BY <1>3, <1>5 DEF LogInv

\* What a write() does.
LEMMA WriteInv ==
  ASSUME LogInv, NEW u \in Users, Write(u) \/ WriteStep(u)
  PROVE  LogInv'
<1> USE LogAssumption
<1>1. CASE Write(u)
  BY <1>1 DEF Write, LogInv, LogTypeOK, WriterInv, OwnerInv, WorkerInv, workerVars
<1>2. CASE Lock(u)
  <2>1. PICK n \in 1 .. MaxParts : parts' = [parts EXCEPT ![u] = n]
    BY <1>2 DEF Lock
  <2>2. LogTypeOK'
    BY <1>2, <2>1 DEF Lock, LogInv, LogTypeOK, WriterInv, workerVars
  <2>3. WriterInv'
    BY <1>2, <2>1 DEF Lock, LogInv, LogTypeOK, WriterInv
  <2>4. OwnerInv' /\ WorkerInv'
    BY <1>2 DEF Lock, LogInv, LogTypeOK, OwnerInv, WorkerInv, workerVars
  <2> QED
    BY <2>2, <2>3, <2>4 DEF LogInv
<1>3. CASE Sync(u)
  <2>1. PieceOf(u, part[u] + 1) \in Piece
    BY <1>3 DEF Sync, PieceOf, Piece, LogInv, LogTypeOK, WriterInv
  <2>2. queue' \in Seq(Piece)
    BY <1>3, <2>1 DEF Sync, LogInv, LogTypeOK
  <2>3. ~done
    BY <1>3 DEF Sync, LogInv, OwnerInv
  <2>4. LogTypeOK'
    BY <1>3, <2>2 DEF Sync, LogInv, LogTypeOK, WriterInv, workerVars
  <2> QED
    BY <1>3, <2>3, <2>4
    DEF Sync, LogInv, LogTypeOK, WriterInv, OwnerInv, WorkerInv, workerVars
<1>4. CASE Notify(u)
  BY <1>4 DEF Notify, Awake, LogInv, LogTypeOK, WriterInv, OwnerInv, WorkerInv
<1> QED
  BY <1>1, <1>2, <1>3, <1>4 DEF WriteStep

\* What the worker does.
LEMMA WorkerStepInv ==
  ASSUME LogInv, WorkerStep \/ SpuriousWake
  PROVE  LogInv'
<1>1. CASE WorkerLock
  <2>1. queue # <<>> => /\ Tail(queue) \in Seq(Piece)
                        /\ <<Head(queue)>> \in Seq(Piece)
                        /\ Len(<<Head(queue)>>) = 1
    BY DEF LogInv, LogTypeOK
  <2>2. /\ queue' \in Seq(Piece) /\ tmpBuffer' \in Seq(Piece)
        /\ Len(tmpBuffer') <= 1
    <3>1. CASE queue = <<>>
      BY <1>1, <3>1 DEF WorkerLock, LogInv, LogTypeOK
    <3>2. CASE queue # <<>>
      <4>1. tmpBuffer' = <<Head(queue)>> /\ queue' = Tail(queue)
        BY <1>1, <3>2 DEF WorkerLock
      <4> QED
        BY <2>1, <3>2, <4>1
    <3> QED
      BY <3>1, <3>2
  <2>4. worker' \in {"lock", "waiting", "write", "ended"} /\ endWorker' \in BOOLEAN
    BY <1>1 DEF WorkerLock, LogInv, LogTypeOK
  <2>5. LogTypeOK'
    BY <1>1, <2>2, <2>4 DEF WorkerLock, LogInv, LogTypeOK, writerVars
  <2>3. tmpBuffer = <<>>
    BY <1>1 DEF WorkerLock, LogInv, WorkerInv
  <2> QED
    BY <1>1, <2>5, <2>3
    DEF WorkerLock, LogInv, WriterInv, OwnerInv, WorkerInv, writerVars
<1>2. CASE WorkerWrite
  <2>1. file' \in Seq(Piece)
    BY <1>2, ConcatProperties DEF WorkerWrite, LogInv, LogTypeOK
  <2>2. LogTypeOK'
    BY <1>2, <2>1 DEF WorkerWrite, LogInv, LogTypeOK, writerVars
  <2> QED
    BY <1>2, <2>2
    DEF WorkerWrite, LogInv, WriterInv, OwnerInv, WorkerInv, writerVars
<1>3. CASE SpuriousWake
  BY <1>3
  DEF SpuriousWake, LogInv, LogTypeOK, WriterInv, OwnerInv, WorkerInv, writerVars
<1> QED
  BY <1>1, <1>2, <1>3 DEF WorkerStep

\* What the owners and the destructor do.
LEMMA OwnerStepInv ==
  ASSUME LogInv, (\E u \in Users : Release(u)) \/ DestructorStep
  PROVE  LogInv'
<1>1. ASSUME NEW u \in Users, Release(u)
      PROVE  LogInv'
  BY <1>1
  DEF Release, LogInv, LogTypeOK, WriterInv, OwnerInv, WorkerInv, workerVars
<1>2. CASE DestructorFlag
  BY <1>2 DEF DestructorFlag, LogInv, LogTypeOK, WriterInv, OwnerInv, WorkerInv,
              writerVars, workerVars
<1>3. CASE DestructorNotify
  BY <1>3 DEF DestructorNotify, Awake, LogInv, LogTypeOK, WriterInv, OwnerInv,
              WorkerInv, writerVars
<1>4. CASE DestructorJoin
  BY <1>4 DEF DestructorJoin, LogInv, LogTypeOK, WriterInv, OwnerInv, WorkerInv,
              writerVars, workerVars
<1> QED
  BY <1>1, <1>2, <1>3, <1>4 DEF DestructorStep

LEMMA NextInv == LogInv /\ [LogNext]_logVars => LogInv'
<1> SUFFICES ASSUME LogInv, [LogNext]_logVars
             PROVE  LogInv'
  OBVIOUS
<1>1. CASE UNCHANGED logVars
  BY <1>1 DEF logVars, writerVars, workerVars, LogInv, LogTypeOK, WriterInv,
              OwnerInv, WorkerInv
<1> QED
  BY <1>1, WriteInv, WorkerStepInv, OwnerStepInv DEF LogNext

LEMMA Invariance == LogSpec => []LogInv
  BY InitInv, NextInv, PTL DEF LogSpec

\* The log's variables keep their types: no line grows beyond its pieces, and
\* no user writes more than it may.
THEOREM TypeCorrect == LogSpec => []LogTypeOK
<1>1. LogInv => LogTypeOK
  BY DEF LogInv
<1> QED
  BY <1>1, Invariance, PTL

-------------------------------------------------------------------------------
(* Refinement                                                              *)

\* What a step does to the pieces pushed so far: nothing, but for Sync.
LEMMA PushedLemma ==
  ASSUME LogInv, [LogNext]_logVars
  PROVE  \/ \E u \in Users : /\ Sync(u)
                             /\ PieceOf(u, part[u] + 1) \in Piece
                             /\ Pushed' = Append(Pushed, PieceOf(u, part[u] + 1))
         \/ (\A u \in Users : ~Sync(u)) /\ Pushed' = Pushed
<1>1. ASSUME NEW u \in Users, Sync(u)
      PROVE  /\ PieceOf(u, part[u] + 1) \in Piece
             /\ Pushed' = Append(Pushed, PieceOf(u, part[u] + 1))
  <2>1. PieceOf(u, part[u] + 1) \in Piece
    BY <1>1, LogAssumption DEF Sync, PieceOf, Piece, LogInv, LogTypeOK, WriterInv
  <2>2. /\ file \in Seq(Piece) /\ tmpBuffer \in Seq(Piece)
        /\ queue \in Seq(Piece)
    BY DEF LogInv, LogTypeOK
  <2>3. file \o tmpBuffer \o Append(queue, PieceOf(u, part[u] + 1))
          = Append(file \o tmpBuffer \o queue, PieceOf(u, part[u] + 1))
    BY <2>1, <2>2, AppendToPushed
  <2>4. /\ queue' = Append(queue, PieceOf(u, part[u] + 1))
        /\ file' = file /\ tmpBuffer' = tmpBuffer
    BY <1>1 DEF Sync, workerVars
  <2> QED
    BY <2>1, <2>3, <2>4 DEF Pushed
<1>2. ASSUME \A u \in Users : ~Sync(u)
      PROVE  Pushed' = Pushed
  <2>1. CASE WorkerLock
    <3>1. tmpBuffer = <<>>
      BY <2>1 DEF WorkerLock, LogInv, WorkerInv
    <3>2. CASE queue = <<>>
      BY <2>1, <3>2 DEF WorkerLock, Pushed
    <3>3. CASE queue # <<>>
      BY <2>1, <3>1, <3>3, HeadOfPushed
      DEF WorkerLock, Pushed, LogInv, LogTypeOK
    <3> QED
      BY <3>2, <3>3
  <2>2. CASE WorkerWrite
    <3>1. file \o tmpBuffer \in Seq(Piece)
      BY ConcatProperties DEF LogInv, LogTypeOK
    <3>2. file \o tmpBuffer \o <<>> = file \o tmpBuffer
      BY <3>1, ConcatEmptySeq
    <3> QED
      BY <2>2, <3>2 DEF WorkerWrite, Pushed
  <2>3. CASE UNCHANGED <<file, tmpBuffer, queue>>
    BY <2>3 DEF Pushed
  <2> QED
    BY <1>2, <2>1, <2>2, <2>3
    DEF LogNext, logVars, writerVars, workerVars, Write, WriteStep, Lock, Notify,
        Release, WorkerStep, SpuriousWake, DestructorStep, DestructorFlag,
        DestructorNotify, DestructorJoin
<1> QED
  BY <1>1, <1>2

LEMMA StepRefines ==
  LogInv /\ [LogNext]_logVars => [Abstract!Next]_(Abstract!logVars)
<1> SUFFICES ASSUME LogInv, [LogNext]_logVars
             PROVE  Abstract!Next \/ UNCHANGED Abstract!logVars
  OBVIOUS
<1>1. ASSUME NEW u \in Users, Sync(u)
      PROVE  Abstract!Next
  <2>1. \E p \in Piece : Pushed' = Append(Pushed, p)
    BY <1>1, PushedLemma
  <2>2. destructor = "unborn" /\ destructor' = destructor /\ file' = file
    BY <1>1 DEF Sync, LogInv, OwnerInv, workerVars
  <2> QED
    BY <2>1, <2>2 DEF Abstract!Next, Abstract!Give
<1>2. CASE WorkerWrite
  <2>1. Pushed' = Pushed
    BY <1>2, PushedLemma DEF WorkerWrite, Sync, writerVars, LogInv, LogTypeOK
  <2>2. CASE tmpBuffer = <<>>
    <3>1. file' = file
      BY <1>2, <2>2, ConcatEmptySeq DEF WorkerWrite, LogInv, LogTypeOK
    <3> QED
      BY <1>2, <2>1, <3>1 DEF WorkerWrite, Abstract!logVars
  <2>3. CASE tmpBuffer # <<>>
    <3>1. PICK p \in Piece : tmpBuffer = <<p>>
      BY <2>3, Singleton DEF LogInv, LogTypeOK
    <3>2. /\ Len(file) < Len(Pushed)
          /\ file' = Append(file, Pushed[Len(file) + 1])
      BY <1>2, <3>1, WrittenOfPushed DEF WorkerWrite, Pushed, LogInv, LogTypeOK
    <3> QED
      BY <1>2, <2>1, <3>2 DEF WorkerWrite, Abstract!Next, Abstract!Store
  <2> QED
    BY <2>2, <2>3
<1>3. CASE DestructorJoin
  <2>1. tmpBuffer = <<>> /\ queue = <<>>
    BY <1>3 DEF DestructorJoin, LogInv, WorkerInv
  <2>2. Pushed = file
    BY <2>1, ConcatEmptySeq DEF Pushed, LogInv, LogTypeOK
  <2>3. Pushed' = Pushed
    BY <1>3 DEF DestructorJoin, workerVars, Pushed
  <2> QED
    BY <1>3, <2>2, <2>3
    DEF DestructorJoin, workerVars, Abstract!Next, Abstract!Close
<1>4. ASSUME ~WorkerWrite, ~DestructorJoin, \A u \in Users : ~Sync(u)
      PROVE  UNCHANGED Abstract!logVars
  <2>1. Pushed' = Pushed
    BY <1>4, PushedLemma
  <2>2. /\ file' = file
        /\ (destructor' = "closed") = (destructor = "closed")
    BY <1>4
    DEF LogNext, logVars, writerVars, workerVars, Write, WriteStep, Lock, Notify,
        Release, WorkerStep, WorkerLock, SpuriousWake, DestructorStep,
        DestructorFlag, DestructorNotify, LogInv, OwnerInv, LogTypeOK
  <2> QED
    BY <2>1, <2>2 DEF Abstract!logVars
<1> QED
  BY <1>1, <1>2, <1>3, <1>4

\* The log implements AppendLog: what is pushed reaches the file in order and
\* once, and all of it before the destructor ends.
THEOREM Refinement == LogSpec => ImplementsAppendLog
<1>1. LogInit => Abstract!Init
  BY ConcatEmptySeq DEF LogInit, Abstract!Init, Pushed
<1>2. LogInv /\ [LogNext]_logVars => [Abstract!Next]_(Abstract!logVars)
  BY StepRefines
<1> QED
  BY <1>1, <1>2, Invariance, PTL DEF LogSpec, ImplementsAppendLog, Abstract!Spec

-------------------------------------------------------------------------------
(* Whole lines                                                             *)

\* Between two pushes the last piece is the writer's last one, or ends a line.
EndInv ==
  IF \E u \in Users : writingMutex = u /\ part[u] > 0
  THEN \A u \in Users :
         writingMutex = u => /\ Len(Pushed) > 0
                             /\ Pushed[Len(Pushed)] = PieceOf(u, part[u])
  ELSE Len(Pushed) > 0 =>
         Pushed[Len(Pushed)].part = Pushed[Len(Pushed)].of

LEMMA EndStep ==
  ASSUME LogInv, LogInv', LinesWhole, EndInv, [LogNext]_logVars
  PROVE  LinesWhole' /\ EndInv'
<1>0. Pushed \in Seq(Piece)
  BY ConcatProperties DEF Pushed, LogInv, LogTypeOK
<1>1. ASSUME NEW u \in Users, Sync(u)
      PROVE  LinesWhole' /\ EndInv'
  <2> DEFINE p == PieceOf(u, part[u] + 1)
             n == Len(Pushed)
  <2>1. p \in Piece /\ Pushed' = Append(Pushed, p)
    <3>1. PICK v \in Users : /\ Sync(v)
                             /\ PieceOf(v, part[v] + 1) \in Piece
                             /\ Pushed' = Append(Pushed, PieceOf(v, part[v] + 1))
      BY <1>1, PushedLemma
    <3>2. v = u
      BY <1>1, <3>1 DEF Sync, LogInv, WriterInv
    <3> QED
      BY <3>1, <3>2
  <2>2. /\ Len(Pushed') = n + 1
        /\ Pushed'[n + 1] = p
        /\ \A i \in 1 .. n : Pushed'[i] = Pushed[i]
        /\ n \in Nat
    BY <1>0, <2>1
  <2>3. writingMutex = u /\ writingMutex' = u
    BY <1>1 DEF Sync, LogInv, WriterInv
  <2>4. /\ p.part = part[u] + 1 /\ part[u] \in Nat
        /\ part'[u] = part[u] + 1
        /\ p = [by |-> u, line |-> lines'[u], part |-> part'[u], of |-> parts'[u]]
    BY <1>1 DEF Sync, PieceOf, LogInv, LogTypeOK
  <2>7. EndInv'
    BY <2>2, <2>3, <2>4 DEF EndInv, PieceOf
  <2>5. CASE part[u] > 0
    <3>1. n > 0 /\ Pushed[n] = PieceOf(u, part[u])
      BY <2>3, <2>5 DEF EndInv
    <3>2. PieceOf(u, part[u]) = [p EXCEPT !.part = @ - 1]
      BY <2>4 DEF PieceOf
    <3>3. LinesWhole'
      <4> SUFFICES ASSUME NEW i \in 1 .. n + 1
                   PROVE  IF Pushed'[i].part > 1
                          THEN i > 1 /\ Pushed'[i - 1]
                                          = [Pushed'[i] EXCEPT !.part = @ - 1]
                          ELSE i > 1 =>
                                 Pushed'[i - 1].part = Pushed'[i - 1].of
        BY <2>2 DEF LinesWhole
      <4>1. CASE i = n + 1
        <5>1. n \in 1 .. n /\ i - 1 = n /\ i > 1
          BY <2>2, <3>1, <4>1
        <5>2. Pushed'[i] = p /\ Pushed'[i - 1] = Pushed[n] /\ p.part > 1
          BY <2>2, <2>4, <2>5, <4>1, <5>1
        <5> QED
          BY <3>1, <3>2, <5>1, <5>2
      <4>2. CASE i \in 1 .. n
        <5>1. i > 1 => i - 1 \in 1 .. n
          BY <2>2, <4>2
        <5> QED
          BY <2>2, <4>2, <5>1 DEF LinesWhole
      <4> QED
        BY <2>2, <4>1, <4>2
    <3> QED
      BY <2>7, <3>3
  <2>6. CASE part[u] = 0
    <3>1. n > 0 => Pushed[n].part = Pushed[n].of
      BY <2>3, <2>6 DEF EndInv
    <3>2. LinesWhole'
      BY <2>2, <2>4, <2>6, <3>1 DEF LinesWhole
    <3> QED
      BY <2>7, <3>2
  <2> QED
    BY <2>4, <2>5, <2>6
<1>2. ASSUME \A u \in Users : ~Sync(u)
      PROVE  LinesWhole' /\ EndInv'
  <2>1. Pushed' = Pushed
    BY <1>2, PushedLemma
  <2>2. LinesWhole'
    BY <2>1 DEF LinesWhole
  <2>3. ASSUME NEW u \in Users, Notify(u)
        PROVE  EndInv'
    <3>1. writingMutex = u /\ part[u] \in 1 .. parts[u] /\ parts[u] \in Nat
      BY <2>3 DEF Notify, LogInv, WriterInv, LogTypeOK
    <3>2. Len(Pushed) > 0 /\ Pushed[Len(Pushed)] = PieceOf(u, part[u])
      BY <3>1 DEF EndInv
    <3>3. CASE part[u] < parts[u]
      BY <2>1, <2>3, <3>1, <3>2, <3>3 DEF Notify, EndInv, PieceOf
    <3>4. CASE ~(part[u] < parts[u])
      <4>1. part[u] = parts[u]
        BY <3>1, <3>4
      <4>2. writingMutex' = None
        BY <2>3, <3>4 DEF Notify
      <4>3. Pushed[Len(Pushed)].part = Pushed[Len(Pushed)].of
        BY <3>2, <4>1 DEF PieceOf
      <4> QED
        BY <2>1, <4>2, <4>3, LogAssumption DEF EndInv
    <3> QED
      BY <3>3, <3>4
  <2>4. ASSUME NEW u \in Users, Lock(u)
        PROVE  EndInv'
    <3>1. writingMutex = None /\ writingMutex' = u /\ part'[u] = 0
      BY <2>4 DEF Lock, LogInv, LogTypeOK
    <3>2. Len(Pushed) > 0 =>
            Pushed[Len(Pushed)].part = Pushed[Len(Pushed)].of
      BY <3>1, LogAssumption DEF EndInv
    <3> QED
      BY <2>1, <3>1, <3>2 DEF EndInv
  <2>5. CASE UNCHANGED <<writingMutex, part, parts, lines>>
    BY <2>1, <2>2, <2>5 DEF EndInv, PieceOf
  <2> QED
    BY <1>2, <2>2, <2>3, <2>4, <2>5
    DEF LogNext, logVars, writerVars, Write, WriteStep, Release, WorkerStep,
        WorkerLock, WorkerWrite, SpuriousWake, DestructorStep, DestructorFlag,
        DestructorNotify, DestructorJoin
<1> QED
  BY <1>1, <1>2

\* Every line reaches the queue, and so the file, in one stretch, however many
\* requests write at once and however long the lines are.
THEOREM WholeLines == LogSpec => []LinesWhole
<1>1. LogInit => LinesWhole /\ EndInv
  <2>1. LogInit => Pushed = <<>>
    BY ConcatEmptySeq DEF LogInit, Pushed
  <2> QED
    BY <2>1, LogAssumption DEF LogInit, LinesWhole, EndInv
<1>2. LogInv /\ LogInv' /\ LinesWhole /\ EndInv /\ [LogNext]_logVars
        => (LinesWhole /\ EndInv)'
  BY EndStep
<1> QED
  BY <1>1, <1>2, Invariance, PTL DEF LogSpec
-------------------------------------------------------------------------------
(* The inductive invariant of the statics                                  *)

Where(places) == {r \in Requests : at[r] \in places}
Number(places) == Cardinality(Where(places))
Others == Cardinality(Requests) - 1

\* What the chunks of the requests at these places can lower a window by.
UnderWay(places) == CHUNK * Number(places)
OthersRoom == CHUNK * Others

\* Requests whose chunk is counted in since when they leave these places.
Counting == {"enter", "copying", "test", "deciding"}

\* The bytes that have been read, at most.
ReadRoom == CHUNK * (CHUNKS - left)

StaticsTyped ==
  /\ strategy \in Strategies
  /\ at \in [Requests -> {"idle", "enter", "copying", "test", "deciding", "count",
                          "copyOn", "decideOn", "load", "logged"}]
  /\ left \in 0 .. CHUNKS
  /\ local \in [Requests -> 0 .. WINDOW]
  /\ \A r \in Requests : at[r] \in {"copying", "deciding"} => local[r] > 0
  /\ toSend \in Int /\ toSend <= WINDOW
  /\ toCalculate \in Int /\ toCalculate <= WINDOW
  /\ counted \in {"low", "high"}
  /\ since \in Nat
  /\ torn \in BOOLEAN
  /\ overlap \in BOOLEAN

\* A window gets below zero by the chunks under way when it ends, and no chunk is
\* counted twice.
BoundsInv ==
  /\ UnderWay({"copying"}) < toSend + OthersRoom + CHUNK
  /\ UnderWay({"deciding"}) < toCalculate + OthersRoom + CHUNK
  /\ since + UnderWay(Counting) <= ReadRoom

\* While nothing has overlapped, one request examines, no window is being spent on
\* decisions when it does, and none after it found the data incompressible.
OverlapInv ==
  ~overlap =>
    /\ \A r, q \in Examining : r = q
    /\ Examining # {} \/ counted = "high" =>
         toCalculate <= 0 /\ Where({"deciding", "load"}) = {}
    /\ Where({"copyOn"}) # {} => counted = "high"
    /\ Where({"decideOn"}) # {} => counted = "low"

\* And while no update was lost either, only chunks that were under way are copied
\* during the examination, and what is spent of a window is what it has lost.
WindowInv ==
  ~overlap /\ ~torn =>
    IF Examining # {}
    THEN toSend <= 0 /\ since + UnderWay({"copying"}) <= OthersRoom
    ELSE \/ /\ toCalculate <= 0 /\ Where({"deciding"}) = {}
            /\ since + toSend <= WINDOW + OthersRoom
         \/ /\ toSend <= 0
            /\ since + UnderWay({"copying"}) + toCalculate <= WINDOW + OthersRoom

StaticsInv == StaticsTyped /\ BoundsInv /\ OverlapInv /\ WindowInv

-------------------------------------------------------------------------------
(* Counting requests and chunks                                            *)

LEMMA Numbers ==
  ASSUME NEW P
  PROVE  /\ IsFiniteSet(Where(P))
         /\ Number(P) \in Nat /\ Number(P) <= Others + 1
         /\ (\E r \in Requests : at[r] \notin P) => Number(P) <= Others
         /\ Number(P) = 0 <=> Where(P) = {}
         /\ Others \in Nat
<1>1. /\ IsFiniteSet(Requests) /\ Cardinality(Requests) \in Nat
      /\ Cardinality(Requests) # 0
  BY CompressionAssumption, FS_CardinalityType, FS_EmptySet
<1>2. /\ Where(P) \in SUBSET Requests
      /\ (\E r \in Requests : at[r] \notin P) => Where(P) # Requests
  BY DEF Where
<1>3. /\ IsFiniteSet(Where(P)) /\ Cardinality(Where(P)) <= Cardinality(Requests)
      /\ Cardinality(Requests) = Cardinality(Where(P)) => Requests = Where(P)
  BY <1>1, <1>2, FS_Subset
<1>4. /\ Cardinality(Where(P)) \in Nat
      /\ Cardinality(Where(P)) = 0 <=> Where(P) = {}
  BY <1>3, FS_CardinalityType, FS_EmptySet
<1> QED
  BY <1>1, <1>2, <1>3, <1>4 DEF Number, Others

\* A request goes from one place to another one.
LEMMA Moved ==
  ASSUME StaticsTyped, NEW r \in Requests, NEW q, Goto(r, q), NEW P
  PROVE  Number(P)' = Number(P) + (IF q \in P THEN 1 ELSE 0)
                                - (IF at[r] \in P THEN 1 ELSE 0)
<1>1. IsFiniteSet(Where(P)) /\ Cardinality(Where(P)) \in Nat
  BY Numbers DEF Number
<1>2. /\ at' = [at EXCEPT ![r] = q] /\ DOMAIN at = Requests
      /\ at[r] \in P <=> r \in Where(P)
  BY DEF Goto, StaticsTyped, Where
<1>3. Where(P)' = IF q \in P THEN Where(P) \cup {r} ELSE Where(P) \ {r}
  BY <1>2 DEF Where
<1>4. /\ Cardinality(Where(P) \cup {r})
           = IF r \in Where(P) THEN Cardinality(Where(P)) ELSE Cardinality(Where(P)) + 1
      /\ Cardinality(Where(P) \ {r})
           = IF r \in Where(P) THEN Cardinality(Where(P)) - 1 ELSE Cardinality(Where(P))
  BY <1>1, FS_AddElement, FS_RemoveElement
<1>5. Number(P)' = IF q \in P THEN Cardinality(Where(P) \cup {r})
                   ELSE Cardinality(Where(P) \ {r})
  BY <1>3 DEF Number
<1> QED
  BY <1>1, <1>2, <1>4, <1>5 DEF Number

\* What n chunks have at most.
LEMMA Room ==
  /\ \A n \in Nat : CHUNK * n \in Nat /\ CHUNK * (n + 1) = CHUNK * n + CHUNK
  /\ \A m, n \in Nat : m <= n => CHUNK * m <= CHUNK * n
  /\ \A n \in Nat : CHUNK * n = 0 <=> n = 0
<1>1. CHUNK \in Nat /\ CHUNK > 0
  BY CompressionAssumption
<1>2. \A n \in Nat : CHUNK * n \in Nat /\ CHUNK * (n + 1) = CHUNK * n + CHUNK
  BY <1>1
<1>3. ASSUME NEW m \in Nat, NEW n \in Nat, m <= n
      PROVE  CHUNK * m <= CHUNK * n
  <2>1. n - m \in Nat /\ n = m + (n - m)
    BY <1>3
  <2>2. CHUNK * (m + (n - m)) = CHUNK * m + CHUNK * (n - m)
    BY <1>1, <2>1
  <2>3. CHUNK * m \in Nat /\ CHUNK * (n - m) \in Nat
    BY <1>2, <2>1
  <2> QED
    BY <2>1, <2>2, <2>3
<1>4. ASSUME NEW n \in Nat
      PROVE  CHUNK * n = 0 <=> n = 0
  <2>1. CHUNK * 0 = 0
    BY <1>1
  <2>2. CASE n # 0
    <3>1. 1 <= n /\ CHUNK * 1 = CHUNK
      BY <1>1, <2>2
    <3>2. CHUNK * 1 <= CHUNK * n
      BY <1>3, <3>1
    <3> QED
      BY <1>1, <1>2, <2>2, <3>1, <3>2
  <2> QED
    BY <2>1, <2>2
<1> QED
  BY <1>2, <1>3, <1>4

\* The same of their chunks' bytes.
LEMMA Rooms ==
  ASSUME NEW P
  PROVE  /\ UnderWay(P) \in Nat /\ UnderWay(P) <= OthersRoom + CHUNK
         /\ (\E r \in Requests : at[r] \notin P) => UnderWay(P) <= OthersRoom
         /\ UnderWay(P) = 0 <=> Where(P) = {}
         /\ OthersRoom \in Nat
<1> DEFINE n == Number(P)
           m == Others
<1>1. /\ n \in Nat /\ m \in Nat /\ m + 1 \in Nat /\ n <= m + 1
      /\ (\E r \in Requests : at[r] \notin P) => n <= m
      /\ n = 0 <=> Where(P) = {}
  BY Numbers
<1>2. UnderWay(P) = CHUNK * n /\ OthersRoom = CHUNK * m
  BY DEF UnderWay, OthersRoom
<1> HIDE DEF n, m
<1>3. /\ CHUNK * n \in Nat /\ CHUNK * m \in Nat
      /\ CHUNK * (m + 1) = CHUNK * m + CHUNK
      /\ CHUNK * n <= CHUNK * (m + 1)
      /\ n <= m => CHUNK * n <= CHUNK * m
      /\ CHUNK * n = 0 <=> n = 0
  BY <1>1, Room
<1> QED
  BY <1>1, <1>2, <1>3

\* The chunks of all requests have the room of the others' and one more.
LEMMA AllRoom ==
  /\ CHUNK * Cardinality(Requests) = OthersRoom + CHUNK
  /\ CHUNK * (2 * Cardinality(Requests) - 1) = OthersRoom + OthersRoom + CHUNK
<1> DEFINE m == Others
<1>1. m \in Nat /\ CHUNK \in Nat
  BY Numbers, CompressionAssumption
<1>2. Cardinality(Requests) = m + 1 /\ 2 * Cardinality(Requests) - 1 = m + (m + 1)
  BY CompressionAssumption, FS_CardinalityType DEF Others
<1>3. OthersRoom = CHUNK * m
  BY DEF OthersRoom
<1> HIDE DEF m
<1>4. CHUNK * (m + 1) = CHUNK * m + CHUNK
  BY <1>1
<1>5. CHUNK * (m + (m + 1)) = CHUNK * m + CHUNK * (m + 1)
  BY <1>1
<1>6. CHUNK * m \in Nat
  BY <1>1
<1> QED
  BY <1>1, <1>2, <1>3, <1>4, <1>5, <1>6

\* The chunks read are as many as there are at most; reading one makes one more.
LEMMA ReadBound ==
  ASSUME StaticsTyped
  PROVE  ReadRoom \in Nat /\ ReadRoom <= CHUNK * CHUNKS
<1>1. CHUNKS - left \in Nat /\ CHUNKS \in Nat /\ CHUNKS - left <= CHUNKS
  BY CompressionAssumption DEF StaticsTyped
<1> QED
  BY <1>1, Room DEF ReadRoom

LEMMA ReadOne ==
  ASSUME StaticsTyped, left > 0, left' = left - 1
  PROVE  ReadRoom' = ReadRoom + CHUNK
<1>1. /\ CHUNKS - left \in Nat /\ CHUNKS - left' = (CHUNKS - left) + 1
  BY CompressionAssumption DEF StaticsTyped
<1>2. CHUNK * ((CHUNKS - left) + 1) = CHUNK * (CHUNKS - left) + CHUNK
  BY <1>1, Room
<1> QED
  BY <1>1, <1>2 DEF ReadRoom

-------------------------------------------------------------------------------
(* Invariance of the statics                                               *)

\* What is where after a request has gone from one place to another one, as far
\* as the invariant speaks of it.
LEMMA Steps ==
  ASSUME StaticsTyped, NEW r \in Requests, NEW q, Goto(r, q)
  PROVE  /\ UnderWay({"copying"})'
              = UnderWay({"copying"}) + (IF q = "copying" THEN CHUNK ELSE 0)
                                      - (IF at[r] = "copying" THEN CHUNK ELSE 0)
         /\ UnderWay({"deciding"})'
              = UnderWay({"deciding"}) + (IF q = "deciding" THEN CHUNK ELSE 0)
                                       - (IF at[r] = "deciding" THEN CHUNK ELSE 0)
         /\ UnderWay(Counting)'
              = UnderWay(Counting)
                  + (IF \/ q = "enter" \/ q = "copying" \/ q = "test" \/ q = "deciding"
                     THEN CHUNK ELSE 0)
                  - (IF \/ at[r] = "enter" \/ at[r] = "copying" \/ at[r] = "test"
                        \/ at[r] = "deciding"
                     THEN CHUNK ELSE 0)
<1>1. ASSUME NEW P
      PROVE  UnderWay(P)' = UnderWay(P) + (IF q \in P THEN CHUNK ELSE 0)
                                        - (IF at[r] \in P THEN CHUNK ELSE 0)
  <2> DEFINE n == Number(P)
             m == Number(P)'
  <2>1. /\ n \in Nat /\ CHUNK \in Nat
        /\ m = n + (IF q \in P THEN 1 ELSE 0) - (IF at[r] \in P THEN 1 ELSE 0)
    BY Numbers, Moved, CompressionAssumption
  <2>2. UnderWay(P) = CHUNK * n /\ UnderWay(P)' = CHUNK * m
    BY DEF UnderWay
  <2> HIDE DEF n, m
  <2>3. CHUNK * (n + 1) = CHUNK * n + CHUNK /\ CHUNK * (n - 1) = CHUNK * n - CHUNK
    BY <2>1
  <2>4. CHUNK * n \in Int
    BY <2>1
  <2>5. m = n \/ m = n + 1 \/ m = n - 1
    BY <2>1
  <2> QED
    BY <2>1, <2>2, <2>3, <2>4, <2>5
<1>2. \A P : UnderWay(P)' = UnderWay(P) + (IF q \in P THEN CHUNK ELSE 0)
                                      - (IF at[r] \in P THEN CHUNK ELSE 0)
  BY <1>1
<1> QED
  BY <1>2 DEF Counting

LEMMA Counts ==
  /\ UnderWay({"copying"}) \in Nat /\ UnderWay({"deciding"}) \in Nat
  /\ UnderWay(Counting) \in Nat /\ OthersRoom \in Nat /\ OthersRoom' = OthersRoom
  /\ CHUNK \in Nat
  /\ UnderWay({"copying"}) <= OthersRoom + CHUNK
  /\ UnderWay({"deciding"}) <= OthersRoom + CHUNK
<1>1. OthersRoom' = OthersRoom
  BY DEF OthersRoom, Others
<1> QED
  BY <1>1, Rooms, CompressionAssumption

Ranges ==
  /\ toSend \in Int /\ toSend <= WINDOW
  /\ toCalculate \in Int /\ toCalculate <= WINDOW
  /\ since \in Nat /\ WINDOW \in Nat /\ WINDOW > 0
  /\ CHUNK \in Nat /\ CHUNK > 0
  /\ local \in [Requests -> 0 .. WINDOW]

LEMMA Typed == StaticsTyped => Ranges
<1>1. StaticsTyped => toSend \in Int /\ toSend <= WINDOW
  BY DEF StaticsTyped
<1>2. StaticsTyped => toCalculate \in Int /\ toCalculate <= WINDOW /\ since \in Nat
  BY DEF StaticsTyped
<1>3. StaticsTyped => local \in [Requests -> 0 .. WINDOW]
  BY DEF StaticsTyped
<1>4. WINDOW \in Nat /\ WINDOW > 0 /\ CHUNK \in Nat /\ CHUNK > 0
  BY CompressionAssumption
<1> QED
  BY <1>1, <1>2, <1>3, <1>4 DEF Ranges

\* A chunk is read.
LEMMA ReadChunkInv ==
  ASSUME StaticsInv, NEW r \in Requests, ReadChunk(r)
  PROVE  StaticsInv'
<1>1. /\ StaticsTyped /\ at[r] = "idle" /\ Goto(r, "enter")
      /\ left > 0 /\ left' = left - 1
      /\ UNCHANGED <<strategy, local, toSend, toCalculate, counted, since, torn, overlap>>
  BY DEF StaticsInv, ReadChunk, statics, history
<1>2. Ranges
  BY <1>1, Typed
<1>3. StaticsTyped'
  <2>1. left' \in 0 .. CHUNKS
    BY <1>1, CompressionAssumption DEF StaticsTyped
  <2> QED
    BY <1>1, <2>1 DEF StaticsTyped, Goto
<1>4. /\ UnderWay({"copying"})' = UnderWay({"copying"})
      /\ UnderWay({"deciding"})' = UnderWay({"deciding"})
      /\ UnderWay(Counting)' = UnderWay(Counting) + CHUNK
  BY <1>1, Steps, Counts
<1>5. UNCHANGED <<Examining, Where({"deciding", "load"}), Where({"deciding"}),
                  Where({"copyOn"}), Where({"decideOn"})>>
  BY <1>1 DEF Examining, Where, Goto, StaticsTyped
<1>6. ReadRoom' = ReadRoom + CHUNK
  BY <1>1, ReadOne
<1>7. BoundsInv'
  BY <1>1, <1>2, <1>4, <1>6, Counts, ReadBound DEF StaticsInv, BoundsInv, Ranges
<1>8. OverlapInv'
  BY <1>1, <1>5 DEF StaticsInv, OverlapInv
<1>9. WindowInv'
  BY <1>1, <1>4, <1>5, Counts DEF StaticsInv, WindowInv
<1> QED
  BY <1>3, <1>7, <1>8, <1>9 DEF StaticsInv

\* compress() returns, or logs its decision, without an update.
LEMMA PassesInv ==
  ASSUME StaticsInv, NEW r \in Requests, NEW q \in {"idle", "logged"},
         at[r] \in {"enter", "load", "logged"}, Goto(r, q),
         UNCHANGED <<strategy, left, local, statics, history>>
  PROVE  StaticsInv'
<1>1. /\ StaticsTyped
      /\ UNCHANGED <<strategy, left, local, toSend, toCalculate, counted, since, torn,
                     overlap>>
  BY DEF StaticsInv, statics, history
<1>2. Ranges
  BY <1>1, Typed
<1>3. StaticsTyped'
  BY <1>1 DEF StaticsTyped, Goto
<1>4. /\ UnderWay({"copying"})' = UnderWay({"copying"})
      /\ UnderWay({"deciding"})' = UnderWay({"deciding"})
      /\ UnderWay(Counting)' <= UnderWay(Counting)
  BY <1>1, Steps, Counts
<1>5. /\ UNCHANGED <<Examining, Where({"deciding"}), Where({"copyOn"}),
                     Where({"decideOn"})>>
      /\ Where({"deciding", "load"})' \subseteq Where({"deciding", "load"})
  BY <1>1 DEF Examining, Where, Goto, StaticsTyped
<1>6. ReadRoom' = ReadRoom
  BY <1>1 DEF ReadRoom
<1>9. UnderWay(Counting)' \in Int
  BY <1>1, Steps, Counts
<1>7. BoundsInv'
  BY <1>1, <1>2, <1>4, <1>6, <1>9, Counts, ReadBound DEF StaticsInv, BoundsInv, Ranges
<1>8. OverlapInv' /\ WindowInv'
  BY <1>1, <1>4, <1>5, Counts DEF StaticsInv, OverlapInv, WindowInv
<1> QED
  BY <1>3, <1>7, <1>8 DEF StaticsInv

\* The first test, of the window of copies.
LEMMA EnterInv ==
  ASSUME StaticsInv, NEW r \in Requests, Enter(r)
  PROVE  StaticsInv'
<1>1. /\ StaticsTyped /\ at[r] = "enter"
      /\ Goto(r, IF toSend > 0 THEN "copying" ELSE "test")
      /\ local' = [local EXCEPT ![r] = IF toSend > 0 THEN toSend ELSE 0]
      /\ UNCHANGED <<strategy, left, toSend, toCalculate, counted, since, torn, overlap>>
  BY DEF StaticsInv, Enter, statics, history
<1>2. Ranges
  BY <1>1, Typed
<1>3. StaticsTyped'
  <2>1. (IF toSend > 0 THEN toSend ELSE 0) \in 0 .. WINDOW
    BY <1>2 DEF Ranges
  <2>2. local' \in [Requests -> 0 .. WINDOW]
    BY <1>1, <1>2, <2>1 DEF Ranges
  <2>3. \A x \in Requests : at'[x] \in {"copying", "deciding"} => local'[x] > 0
    BY <1>1, <1>2 DEF Goto, StaticsTyped, Ranges
  <2> QED
    BY <1>1, <2>2, <2>3 DEF StaticsTyped, Goto
<1>4. /\ UnderWay({"copying"})' = UnderWay({"copying"}) + (IF toSend > 0 THEN CHUNK ELSE 0)
      /\ UnderWay({"deciding"})' = UnderWay({"deciding"})
      /\ UnderWay(Counting)' = UnderWay(Counting)
  BY <1>1, Steps, Counts
<1>5. UNCHANGED <<Examining, Where({"deciding", "load"}), Where({"deciding"}),
                  Where({"copyOn"}), Where({"decideOn"})>>
  BY <1>1 DEF Examining, Where, Goto, StaticsTyped
<1>6. ReadRoom' = ReadRoom
  BY <1>1 DEF ReadRoom
<1>7. BoundsInv'
  <2>1. UnderWay({"copying"}) <= OthersRoom
    BY <1>1, Rooms
  <2> QED
    BY <1>1, <1>2, <1>4, <1>6, <2>1, Counts, ReadBound
    DEF StaticsInv, BoundsInv, Ranges
<1>8. OverlapInv'
  BY <1>1, <1>5 DEF StaticsInv, OverlapInv
<1>9. WindowInv'
  <2>1. CASE toSend > 0
    <3>1. UnderWay({"copying"})' = UnderWay({"copying"}) + CHUNK
      BY <1>4, <2>1
    <3>2. toSend' > 0 /\ toSend \in Int
      BY <1>1, <1>2, <2>1 DEF Ranges
    <3> SUFFICES ASSUME ~overlap', ~torn'
                 PROVE  WindowInv'
      BY DEF WindowInv
    <3>3. /\ Examining = {} /\ toCalculate <= 0 /\ Where({"deciding"}) = {}
          /\ since + toSend <= WINDOW + OthersRoom
      BY <1>1, <2>1, <3>2 DEF StaticsInv, WindowInv
    <3> QED
      BY <1>1, <1>5, <3>3, Counts DEF WindowInv
  <2>2. CASE ~(toSend > 0)
    <3>1. UnderWay({"copying"})' = UnderWay({"copying"})
      BY <1>4, <2>2, Counts
    <3> QED
      BY <1>1, <1>2, <1>5, <2>2, <3>1, Counts DEF StaticsInv, WindowInv, Ranges
  <2> QED
    BY <2>1, <2>2
<1> QED
  BY <1>3, <1>7, <1>8, <1>9 DEF StaticsInv

\* A chunk of the window of copies.
LEMMA CopyInWindowInv ==
  ASSUME StaticsInv, NEW r \in Requests, CopyInWindow(r)
  PROVE  StaticsInv'
<1> PICK size \in Sizes : /\ toSend' \in Lowered(toSend, local[r], size)
                         /\ torn' = (torn \/ toSend' # toSend - size)
                         /\ since' = since + size
  BY DEF CopyInWindow
<1>1. /\ StaticsTyped /\ at[r] = "copying" /\ Goto(r, "idle")
      /\ toSend' \in {toSend - size, local[r] - size}
      /\ torn' = (torn \/ toSend' # toSend - size)
      /\ since' = since + size /\ size \in 0 .. CHUNK
      /\ local' = [local EXCEPT ![r] = 0]
      /\ UNCHANGED <<strategy, left, toCalculate, counted, overlap>>
  BY DEF StaticsInv, CopyInWindow, Lowered, Return, Sizes
<1>2. Ranges
  BY <1>1, Typed
<1>3. local[r] \in 1 .. WINDOW
  <2>1. local[r] \in 0 .. WINDOW
    BY <1>2 DEF Ranges
  <2>2. local[r] > 0
    BY <1>1 DEF StaticsTyped
  <2> QED
    BY <1>2, <2>1, <2>2 DEF Ranges
<1>4. /\ toSend' \in Int /\ toSend' <= WINDOW
      /\ toSend' >= toSend - CHUNK \/ toSend' > -CHUNK
  BY <1>1, <1>2, <1>3 DEF Ranges
<1>5. StaticsTyped'
  <2>1. local' \in [Requests -> 0 .. WINDOW]
    BY <1>1, <1>2 DEF Ranges
  <2>2. \A x \in Requests : at'[x] \in {"copying", "deciding"} => local'[x] > 0
    BY <1>1, <1>2 DEF Goto, StaticsTyped, Ranges
  <2>3. torn' \in BOOLEAN
    BY <1>1
  <2>4. since' \in Nat
    BY <1>1, <1>2 DEF Ranges
  <2> QED
    BY <1>1, <1>4, <2>1, <2>2, <2>3, <2>4 DEF StaticsTyped, Goto
<1>6. /\ UnderWay({"copying"})' = UnderWay({"copying"}) - CHUNK
      /\ UnderWay({"deciding"})' = UnderWay({"deciding"})
      /\ UnderWay(Counting)' = UnderWay(Counting) - CHUNK
  BY <1>1, Steps, Counts
<1>7. UNCHANGED <<Examining, Where({"deciding", "load"}), Where({"deciding"}),
                  Where({"copyOn"}), Where({"decideOn"})>>
  BY <1>1 DEF Examining, Where, Goto, StaticsTyped
<1>8. ReadRoom' = ReadRoom
  BY <1>1 DEF ReadRoom
<1>9. BoundsInv'
  BY <1>1, <1>2, <1>4, <1>6, <1>8, Counts, ReadBound DEF StaticsInv, BoundsInv, Ranges
<1>10. OverlapInv'
  BY <1>1, <1>7 DEF StaticsInv, OverlapInv
<1>11. WindowInv'
  <2> SUFFICES ASSUME ~overlap', ~torn'
               PROVE  WindowInv'
    BY DEF WindowInv
  <2>1. ~overlap /\ ~torn /\ toSend' = toSend - size
    BY <1>1
  <2>2. /\ toSend \in Int /\ toCalculate \in Int /\ since \in Int /\ WINDOW \in Int
        /\ since' = since + size /\ size \in 0 .. CHUNK /\ CHUNK \in Nat
        /\ toCalculate' = toCalculate /\ UnderWay({"copying"}) \in Int /\ OthersRoom \in Int /\ OthersRoom' = OthersRoom
    BY <1>1, <1>2, Counts DEF Ranges
  <2>3. CASE Examining # {}
    <3>1. toSend <= 0 /\ since + UnderWay({"copying"}) <= OthersRoom
      BY <2>1, <2>3 DEF StaticsInv, WindowInv
    <3>2. toSend' <= 0 /\ since' + UnderWay({"copying"})' <= OthersRoom'
      BY <1>6, <2>1, <2>2, <3>1
    <3> QED
      BY <1>7, <2>3, <3>2 DEF WindowInv
  <2>4. CASE Examining = {} /\ toCalculate <= 0 /\ Where({"deciding"}) = {}
             /\ since + toSend <= WINDOW + OthersRoom
    <3>1. since' + toSend' <= WINDOW + OthersRoom'
      BY <2>1, <2>2, <2>4
    <3> QED
      BY <1>7, <2>2, <2>4, <3>1 DEF WindowInv
  <2>5. CASE Examining = {} /\ toSend <= 0
             /\ since + UnderWay({"copying"}) + toCalculate <= WINDOW + OthersRoom
    <3>1. /\ toSend' <= 0
          /\ since' + UnderWay({"copying"})' + toCalculate' <= WINDOW + OthersRoom'
      BY <1>6, <2>1, <2>2, <2>5
    <3> QED
      BY <1>7, <2>5, <3>1 DEF WindowInv
  <2> QED
    BY <2>1, <2>3, <2>4, <2>5 DEF StaticsInv, WindowInv
<1> QED
  BY <1>5, <1>9, <1>10, <1>11 DEF StaticsInv

\* The second test: the data is examined.
LEMMA ExaminesInv ==
  ASSUME StaticsInv, NEW r \in Requests, Test(r), toCalculate <= 0
  PROVE  StaticsInv'
<1>1. /\ StaticsTyped /\ at[r] = "test" /\ Goto(r, "count")
      /\ since' = 0 /\ torn' = (toSend > 0) /\ overlap' = (Inside # {})
      /\ UNCHANGED <<strategy, left, local, toSend, toCalculate, counted>>
  BY DEF StaticsInv, Test, statics
<1>2. Ranges
  BY <1>1, Typed
<1>3. StaticsTyped'
  <2>1. torn' \in BOOLEAN /\ overlap' \in BOOLEAN /\ since' \in Nat
    BY <1>1
  <2> QED
    BY <1>1, <2>1 DEF StaticsTyped, Goto
<1>4. /\ UnderWay({"copying"})' = UnderWay({"copying"})
      /\ UnderWay({"deciding"})' = UnderWay({"deciding"})
      /\ UnderWay(Counting)' = UnderWay(Counting) - CHUNK
  BY <1>1, Steps, Counts
<1>5. ReadRoom' = ReadRoom
  BY <1>1 DEF ReadRoom
<1>6. BoundsInv'
  BY <1>1, <1>2, <1>4, <1>5, Counts, ReadBound DEF StaticsInv, BoundsInv, Ranges
<1>7. ASSUME ~overlap'
      PROVE  /\ Examining' = {r}
             /\ Where({"deciding", "load"})' = {} /\ Where({"deciding"})' = {}
             /\ Where({"copyOn"})' = {} /\ Where({"decideOn"})' = {}
  BY <1>1, <1>7 DEF Inside, Examining, Where, Goto, StaticsTyped
<1>8. OverlapInv'
  BY <1>1, <1>7 DEF OverlapInv
<1>9. WindowInv'
  <2>1. UnderWay({"copying"}) <= OthersRoom
    BY <1>1, Rooms
  <2> SUFFICES ASSUME ~overlap', ~torn'
               PROVE  WindowInv'
    BY DEF WindowInv
  <2>2. Examining' # {} /\ ~(toSend > 0)
    BY <1>1, <1>7
  <2>3. toSend' <= 0 /\ since' + UnderWay({"copying"})' <= OthersRoom'
    BY <1>1, <1>2, <1>4, <2>1, <2>2, Counts DEF Ranges
  <2> QED
    BY <2>2, <2>3 DEF WindowInv
<1> QED
  BY <1>3, <1>6, <1>8, <1>9 DEF StaticsInv

\* The second test: a chunk of the window of decisions.
LEMMA DecidesInv ==
  ASSUME StaticsInv, NEW r \in Requests, Test(r), ~(toCalculate <= 0)
  PROVE  StaticsInv'
<1>1. /\ StaticsTyped /\ at[r] = "test" /\ Goto(r, "deciding")
      /\ local' = [local EXCEPT ![r] = toCalculate]
      /\ overlap' = (overlap \/ Examining # {})
      /\ UNCHANGED <<strategy, left, toSend, toCalculate, counted, since, torn>>
  BY DEF StaticsInv, Test, statics
<1>2. Ranges
  BY <1>1, Typed
<1>3. toCalculate \in 1 .. WINDOW
  BY <1>2 DEF Ranges
<1>4. StaticsTyped'
  <2>1. local' \in [Requests -> 0 .. WINDOW]
    BY <1>1, <1>2, <1>3 DEF Ranges
  <2>2. \A x \in Requests : at'[x] \in {"copying", "deciding"} => local'[x] > 0
    <3>1. local'[r] = toCalculate /\ toCalculate > 0
      BY <1>1, <1>2 DEF Ranges
    <3> QED
      BY <1>1, <1>2, <3>1 DEF Goto, StaticsTyped, Ranges
  <2>3. overlap' \in BOOLEAN
    BY <1>1 DEF StaticsTyped
  <2> QED
    BY <1>1, <2>1, <2>2, <2>3 DEF StaticsTyped, Goto
<1>5. /\ UnderWay({"copying"})' = UnderWay({"copying"})
      /\ UnderWay({"deciding"})' = UnderWay({"deciding"}) + CHUNK
      /\ UnderWay(Counting)' = UnderWay(Counting)
  BY <1>1, Steps, Counts
<1>6. UNCHANGED <<Examining, Where({"copyOn"}), Where({"decideOn"})>>
  BY <1>1 DEF Examining, Where, Goto, StaticsTyped
<1>7. ReadRoom' = ReadRoom
  BY <1>1 DEF ReadRoom
<1>8. BoundsInv'
  <2>1. UnderWay({"deciding"}) <= OthersRoom
    BY <1>1, Rooms
  <2> QED
    BY <1>1, <1>2, <1>3, <1>5, <1>7, <2>1, Counts, ReadBound
    DEF StaticsInv, BoundsInv, Ranges
<1>9. OverlapInv'
  BY <1>1, <1>6 DEF StaticsInv, OverlapInv
<1>10. WindowInv'
  BY <1>1, <1>2, <1>3, <1>5, <1>6, Counts DEF StaticsInv, WindowInv, Ranges
<1> QED
  BY <1>4, <1>8, <1>9, <1>10 DEF StaticsInv

\* The count of the data is stored.
LEMMA CountInv ==
  ASSUME StaticsInv, NEW r \in Requests, Count(r)
  PROVE  StaticsInv'
<1>1. /\ StaticsTyped /\ at[r] = "count"
      /\ Goto(r, IF counted' = "high" THEN "copyOn" ELSE "decideOn")
      /\ counted' \in {"low", "high"}
      /\ UNCHANGED <<strategy, left, local, toSend, toCalculate, since, torn, overlap>>
  BY DEF StaticsInv, Count, history
<1>2. StaticsTyped'
  BY <1>1 DEF StaticsTyped, Goto
<1>3. /\ UnderWay({"copying"})' = UnderWay({"copying"})
      /\ UnderWay({"deciding"})' = UnderWay({"deciding"})
      /\ UnderWay(Counting)' = UnderWay(Counting)
  BY <1>1, Steps, Counts
<1>4. r \in Examining /\ Examining' = Examining
  BY <1>1 DEF Examining, Goto, StaticsTyped
<1>5. /\ Where({"deciding", "load"})' \subseteq Where({"deciding", "load"})
      /\ Where({"deciding"})' \subseteq Where({"deciding"})
  BY <1>1 DEF Where, Goto, StaticsTyped
<1>6. ReadRoom' = ReadRoom
  BY <1>1 DEF ReadRoom
<1>7. BoundsInv'
  BY <1>1, <1>3, <1>6, Counts DEF StaticsInv, BoundsInv
<1>8. OverlapInv'
  <2> SUFFICES ASSUME ~overlap'
               PROVE  OverlapInv'
    BY DEF OverlapInv
  <2>1. \A x \in Examining : x = r
    BY <1>1, <1>4 DEF StaticsInv, OverlapInv
  <2>2. /\ Where({"copyOn"})' # {} => counted' = "high"
        /\ Where({"decideOn"})' # {} => counted' = "low"
    BY <1>1, <2>1 DEF Where, Examining, Goto, StaticsTyped
  <2> QED
    BY <1>1, <1>4, <1>5, <2>2 DEF StaticsInv, OverlapInv
<1>9. WindowInv'
  BY <1>1, <1>3, <1>4, Counts DEF StaticsInv, WindowInv
<1> QED
  BY <1>2, <1>7, <1>8, <1>9 DEF StaticsInv

\* The request that examines, and has found the data compressible or not, is alone
\* in doing so when nothing overlaps.
LEMMA Alone ==
  ASSUME StaticsInv, NEW r \in Requests, at[r] \in {"copyOn", "decideOn"},
         ~overlap, NEW q \in {"idle", "load"}, Goto(r, q)
  PROVE  /\ Examining # {} /\ Examining' = {}
         /\ toCalculate <= 0 /\ Where({"deciding"}) = {} /\ Where({"deciding"})' = {}
         /\ q = "idle" => Where({"deciding", "load"})' = {}
         /\ Where({"copyOn"})' = {} /\ Where({"decideOn"})' = {}
         /\ counted = IF at[r] = "copyOn" THEN "high" ELSE "low"
<1>1. StaticsTyped /\ OverlapInv
  BY DEF StaticsInv
<1>2. r \in Examining /\ \A x \in Examining : x = r
  BY <1>1 DEF OverlapInv, Examining
<1>3. /\ Examining' = {}
      /\ Where({"copyOn"})' = {} /\ Where({"decideOn"})' = {}
  BY <1>1, <1>2 DEF Examining, Where, Goto, StaticsTyped
<1>4. toCalculate <= 0 /\ Where({"deciding", "load"}) = {}
  BY <1>1, <1>2 DEF OverlapInv
<1>5. /\ Where({"deciding"}) = {} /\ Where({"deciding"})' = {}
      /\ q = "idle" => Where({"deciding", "load"})' = {}
  BY <1>1, <1>4 DEF Where, Goto, StaticsTyped
<1>6. counted = IF at[r] = "copyOn" THEN "high" ELSE "low"
  BY <1>1 DEF OverlapInv, Where
<1> QED
  BY <1>2, <1>3, <1>4, <1>5, <1>6

\* A window of copies is opened.
LEMMA CopyOnInv ==
  ASSUME StaticsInv, NEW r \in Requests, CopyOn(r)
  PROVE  StaticsInv'
<1>1. /\ StaticsTyped /\ at[r] = "copyOn" /\ Goto(r, "idle")
      /\ toSend' = WINDOW
      /\ UNCHANGED <<strategy, left, local, toCalculate, counted, since, torn, overlap>>
  BY DEF StaticsInv, CopyOn, Return, history
<1>2. Ranges
  BY <1>1, Typed
<1>3. StaticsTyped'
  <2>1. toSend' \in Int /\ toSend' <= WINDOW
    BY <1>1, <1>2 DEF Ranges
  <2> QED
    BY <1>1, <2>1 DEF StaticsTyped, Goto
<1>4. /\ UnderWay({"copying"})' = UnderWay({"copying"})
      /\ UnderWay({"deciding"})' = UnderWay({"deciding"})
      /\ UnderWay(Counting)' = UnderWay(Counting)
  BY <1>1, Steps, Counts
<1>5. ReadRoom' = ReadRoom
  BY <1>1 DEF ReadRoom
<1>6. BoundsInv'
  <2>1. UnderWay({"copying"})' < toSend' + OthersRoom' + CHUNK
    BY <1>1, <1>2, <1>4, Counts DEF Ranges
  <2> QED
    BY <1>1, <1>4, <1>5, <2>1, Counts DEF StaticsInv, BoundsInv
<1>7. OverlapInv'
  BY <1>1, Alone DEF OverlapInv
<1>8. WindowInv'
  <2> SUFFICES ASSUME ~overlap', ~torn'
               PROVE  WindowInv'
    BY DEF WindowInv
  <2>1. /\ Examining # {} /\ Examining' = {}
        /\ toCalculate' <= 0 /\ Where({"deciding"})' = {}
    BY <1>1, Alone
  <2>2. since + UnderWay({"copying"}) <= OthersRoom
    BY <1>1, <2>1 DEF StaticsInv, WindowInv
  <2>3. since' + toSend' <= WINDOW + OthersRoom'
    BY <1>1, <1>2, <2>2, Counts DEF Ranges
  <2> QED
    BY <2>1, <2>3 DEF WindowInv
<1> QED
  BY <1>3, <1>6, <1>7, <1>8 DEF StaticsInv

\* A window of decisions is opened.
LEMMA DecideOnInv ==
  ASSUME StaticsInv, NEW r \in Requests, DecideOn(r)
  PROVE  StaticsInv'
<1>1. /\ StaticsTyped /\ at[r] = "decideOn" /\ Goto(r, "load")
      /\ toCalculate' = WINDOW
      /\ UNCHANGED <<strategy, left, local, toSend, counted, since, torn, overlap>>
  BY DEF StaticsInv, DecideOn, history
<1>2. Ranges
  BY <1>1, Typed
<1>3. StaticsTyped'
  <2>1. toCalculate' \in Int /\ toCalculate' <= WINDOW
    BY <1>1, <1>2 DEF Ranges
  <2> QED
    BY <1>1, <2>1 DEF StaticsTyped, Goto
<1>4. /\ UnderWay({"copying"})' = UnderWay({"copying"})
      /\ UnderWay({"deciding"})' = UnderWay({"deciding"})
      /\ UnderWay(Counting)' = UnderWay(Counting)
  BY <1>1, Steps, Counts
<1>5. ReadRoom' = ReadRoom
  BY <1>1 DEF ReadRoom
<1>6. BoundsInv'
  <2>1. UnderWay({"deciding"})' < toCalculate' + OthersRoom' + CHUNK
    BY <1>1, <1>2, <1>4, Counts DEF Ranges
  <2> QED
    BY <1>1, <1>4, <1>5, <2>1, Counts DEF StaticsInv, BoundsInv
<1>7. OverlapInv'
  <2> SUFFICES ASSUME ~overlap'
               PROVE  OverlapInv'
    BY DEF OverlapInv
  <2>1. /\ Examining' = {} /\ counted' = "low"
        /\ Where({"copyOn"})' = {} /\ Where({"decideOn"})' = {}
    BY <1>1, Alone
  <2> QED
    BY <2>1 DEF OverlapInv
<1>8. WindowInv'
  <2> SUFFICES ASSUME ~overlap', ~torn'
               PROVE  WindowInv'
    BY DEF WindowInv
  <2>1. Examining # {} /\ Examining' = {}
    BY <1>1, Alone
  <2>2. toSend <= 0 /\ since + UnderWay({"copying"}) <= OthersRoom
    BY <1>1, <2>1 DEF StaticsInv, WindowInv
  <2>3. /\ toSend' <= 0
        /\ since' + UnderWay({"copying"})' + toCalculate' <= WINDOW + OthersRoom'
    BY <1>1, <1>2, <1>4, <2>2, Counts DEF Ranges
  <2> QED
    BY <2>1, <2>3 DEF WindowInv
<1> QED
  BY <1>3, <1>6, <1>7, <1>8 DEF StaticsInv

\* A chunk of the window of decisions.
LEMMA DecidingInv ==
  ASSUME StaticsInv, NEW r \in Requests, Deciding(r)
  PROVE  StaticsInv'
<1> PICK size \in Sizes : /\ toCalculate' \in Lowered(toCalculate, local[r], size)
                         /\ torn' = (torn \/ toCalculate' # toCalculate - size)
                         /\ since' = since + size
  BY DEF Deciding
<1>1. /\ StaticsTyped /\ at[r] = "deciding" /\ Goto(r, "load")
      /\ toCalculate' \in {toCalculate - size, local[r] - size}
      /\ torn' = (torn \/ toCalculate' # toCalculate - size)
      /\ since' = since + size /\ size \in 0 .. CHUNK
      /\ local' = [local EXCEPT ![r] = 0]
      /\ UNCHANGED <<strategy, left, toSend, counted, overlap>>
  BY DEF StaticsInv, Deciding, Lowered, Sizes
<1>2. Ranges
  BY <1>1, Typed
<1>3. local[r] \in 1 .. WINDOW
  <2>1. local[r] \in 0 .. WINDOW
    BY <1>2 DEF Ranges
  <2>2. local[r] > 0
    BY <1>1 DEF StaticsTyped
  <2> QED
    BY <1>2, <2>1, <2>2 DEF Ranges
<1>4. /\ toCalculate' \in Int /\ toCalculate' <= WINDOW
      /\ toCalculate' >= toCalculate - CHUNK \/ toCalculate' > -CHUNK
  BY <1>1, <1>2, <1>3 DEF Ranges
<1>5. StaticsTyped'
  <2>1. local' \in [Requests -> 0 .. WINDOW]
    BY <1>1, <1>2 DEF Ranges
  <2>2. \A x \in Requests : at'[x] \in {"copying", "deciding"} => local'[x] > 0
    BY <1>1, <1>2 DEF Goto, StaticsTyped, Ranges
  <2>3. torn' \in BOOLEAN
    BY <1>1
  <2>4. since' \in Nat
    BY <1>1, <1>2 DEF Ranges
  <2> QED
    BY <1>1, <1>4, <2>1, <2>2, <2>3, <2>4 DEF StaticsTyped, Goto
<1>6. /\ UnderWay({"copying"})' = UnderWay({"copying"})
      /\ UnderWay({"deciding"})' = UnderWay({"deciding"}) - CHUNK
      /\ UnderWay(Counting)' = UnderWay(Counting) - CHUNK
  BY <1>1, Steps, Counts
<1>7. ReadRoom' = ReadRoom
  BY <1>1 DEF ReadRoom
<1>8. BoundsInv'
  BY <1>1, <1>2, <1>4, <1>6, <1>7, Counts, ReadBound DEF StaticsInv, BoundsInv, Ranges
<1>9. ASSUME ~overlap
      PROVE  Examining = {} /\ Examining' = {} /\ counted = "low"
             /\ Where({"deciding"}) # {}
  <2>1. r \in Where({"deciding", "load"}) /\ r \in Where({"deciding"})
    BY <1>1 DEF Where
  <2>2. Examining = {} /\ counted # "high"
    BY <1>9, <2>1 DEF StaticsInv, OverlapInv
  <2>3. Examining' = {}
    BY <1>1, <2>2 DEF Examining, Goto, StaticsTyped
  <2> QED
    BY <1>1, <2>1, <2>2, <2>3 DEF StaticsTyped
<1>10. OverlapInv'
  <2> SUFFICES ASSUME ~overlap'
               PROVE  OverlapInv'
    BY DEF OverlapInv
  <2>1. Examining' = {} /\ counted' = "low"
    BY <1>1, <1>9
  <2>2. Where({"copyOn"})' = {} /\ Where({"decideOn"})' = {}
    BY <2>1 DEF Examining, Where
  <2> QED
    BY <2>1, <2>2 DEF OverlapInv
<1>11. WindowInv'
  <2> SUFFICES ASSUME ~overlap', ~torn'
               PROVE  WindowInv'
    BY DEF WindowInv
  <2>1. ~overlap /\ ~torn /\ toCalculate' = toCalculate - size
    BY <1>1
  <2>2. /\ toSend <= 0
        /\ since + UnderWay({"copying"}) + toCalculate <= WINDOW + OthersRoom
    BY <1>9, <2>1 DEF StaticsInv, WindowInv
  <2>3. /\ toSend' <= 0
        /\ since' + UnderWay({"copying"})' + toCalculate' <= WINDOW + OthersRoom'
    BY <1>1, <1>2, <1>6, <2>1, <2>2, Counts DEF Ranges
  <2> QED
    BY <1>9, <2>1, <2>3 DEF WindowInv
<1> QED
  BY <1>5, <1>8, <1>10, <1>11 DEF StaticsInv

LEMMA StaticsInit == Init => StaticsInv
<1> SUFFICES ASSUME Init
             PROVE  StaticsInv
  OBVIOUS
<1>1. StaticsTyped
  <2>1. 0 \in 0 .. WINDOW /\ CHUNKS \in 0 .. CHUNKS /\ 0 <= WINDOW
    BY CompressionAssumption
  <2>2. /\ left \in 0 .. CHUNKS /\ local \in [Requests -> 0 .. WINDOW]
        /\ toSend \in Int /\ toSend <= WINDOW
        /\ toCalculate \in Int /\ toCalculate <= WINDOW /\ since \in Nat
    BY <2>1 DEF Init
  <2>3. \A r \in Requests : at[r] = "idle"
    BY DEF Init
  <2> QED
    BY <2>2, <2>3 DEF Init, StaticsTyped
<1>2. \A P : ("idle" \notin P) => Where(P) = {}
  BY DEF Init, Where
<1>3. /\ Where({"copying"}) = {} /\ Where({"deciding"}) = {} /\ Where(Counting) = {}
      /\ Where({"deciding", "load"}) = {}
      /\ Where({"copyOn"}) = {} /\ Where({"decideOn"}) = {}
  BY <1>2 DEF Counting
<1>4. UnderWay({"copying"}) = 0 /\ UnderWay({"deciding"}) = 0 /\ UnderWay(Counting) = 0
  BY <1>3, Rooms
<1>5. toSend = 0 /\ toCalculate = 0 /\ since = 0 /\ counted = "low"
  BY DEF Init
<1>6. BoundsInv
  BY <1>1, <1>4, <1>5, Counts, ReadBound, CompressionAssumption DEF BoundsInv
<1>7. Examining = {}
  BY DEF Init, Examining
<1>8. OverlapInv
  BY <1>3, <1>5, <1>7 DEF OverlapInv
<1>9. WINDOW \in Nat
  BY CompressionAssumption
<1>10. WindowInv
  BY <1>3, <1>5, <1>7, <1>9, Counts DEF WindowInv
<1> QED
  BY <1>1, <1>6, <1>8, <1>10 DEF StaticsInv

LEMMA StaticsStutter ==
  ASSUME StaticsInv, UNCHANGED compressionVars
  PROVE  StaticsInv'
<1>1. UNCHANGED <<strategy, at, left, local, toSend, toCalculate, counted, since, torn,
                  overlap>>
  BY DEF compressionVars, statics, history
<1>2. StaticsTyped'
  BY <1>1 DEF StaticsInv, StaticsTyped
<1>3. \A P : Where(P)' = Where(P) /\ Number(P)' = Number(P)
  BY <1>1 DEF Where, Number
<1>4. UNCHANGED <<UnderWay({"copying"}), UnderWay({"deciding"}), UnderWay(Counting),
                  Where({"deciding"}), Where({"deciding", "load"}), Where({"copyOn"}),
                  Where({"decideOn"}), Examining>>
  BY <1>1 DEF UnderWay, Where, Number, Examining
<1>5. ReadRoom' = ReadRoom
  BY <1>1 DEF ReadRoom
<1>6. BoundsInv' /\ OverlapInv' /\ WindowInv'
  BY <1>1, <1>4, <1>5, Counts DEF StaticsInv, BoundsInv, OverlapInv, WindowInv
<1> QED
  BY <1>2, <1>6 DEF StaticsInv

LEMMA StaticsNext == StaticsInv /\ [Next]_vars => StaticsInv'
<1> SUFFICES ASSUME StaticsInv, [Next]_vars
             PROVE  StaticsInv'
  OBVIOUS
<1>1. ASSUME NEW r \in Requests, ReadChunk(r) \/ Compress(r)
      PROVE  StaticsInv'
  <2>1. CASE Test(r)
    BY <2>1, ExaminesInv, DecidesInv
  <2>2. CASE Hurry(r) \/ Decide(r) \/ Logged(r)
    <3>1. /\ at[r] \in {"load", "logged"} /\ (Goto(r, "idle") \/ Goto(r, "logged"))
          /\ UNCHANGED <<strategy, left, local, statics, history>>
      BY <2>2 DEF Hurry, Decide, Logged, Return
    <3> QED
      BY <3>1, PassesInv
  <2>3. CASE TrainCopy(r) \/ TrainWrite(r)
    <3>1. /\ at[r] = "enter" /\ (Goto(r, "idle") \/ Goto(r, "logged"))
          /\ UNCHANGED <<strategy, left, local, statics, history>>
      BY <2>3 DEF TrainCopy, TrainWrite, Return
    <3> QED
      BY <3>1, PassesInv
  <2> QED
    BY <1>1, <2>1, <2>2, <2>3, ReadChunkInv, EnterInv, CopyInWindowInv, CountInv,
       CopyOnInv, DecideOnInv, DecidingInv
    DEF Compress
<1>2. CASE LogStep \/ UNCHANGED vars
  BY <1>2, StaticsStutter DEF LogStep, vars
<1> QED
  BY <1>1, <1>2 DEF Next

LEMMA StaticsInvariance == Spec => []StaticsInv
  BY StaticsInit, StaticsNext, PTL DEF Spec

-------------------------------------------------------------------------------
(* The requests and the log                                                *)

\* Requests that compress, and the server, use the log as AsynchronousLog says.
THEOREM SharedLog == Spec => LogSpec
<1>1. Init => LogInit
  BY DEF Init
<1>2. [Next]_vars => [LogNext]_logVars
  <2> SUFFICES ASSUME [Next]_vars
               PROVE  LogNext \/ UNCHANGED logVars
    OBVIOUS
  <2>1. ASSUME NEW r \in Requests, ReadChunk(r) \/ Compress(r)
        PROVE  LogNext \/ UNCHANGED logVars
    <3>1. r \in Users
      BY CompressionAssumption
    <3>2. Write(r) \/ UNCHANGED logVars
      BY <2>1
      DEF ReadChunk, Compress, Enter, CopyInWindow, Test, Count, CopyOn, DecideOn,
          Deciding, Hurry, Decide, Logged, TrainCopy, TrainWrite
    <3> QED
      BY <3>1, <3>2 DEF LogNext
  <2>2. CASE LogStep
    BY <2>2 DEF LogStep, LogNext, LetGo
  <2>3. CASE UNCHANGED vars
    BY <2>3 DEF vars
  <2> QED
    BY <2>1, <2>2, <2>3 DEF Next
<1> QED
  BY <1>1, <1>2, PTL DEF Spec, LogSpec

\* Every variable of the compressing requests keeps its type: the shared windows do
\* not sink below zero by a chunk of each request.
THEOREM CompressionTyping == Spec => []TypeOK
<1>1. StaticsInv /\ LogTypeOK => TypeOK
  <2> SUFFICES ASSUME StaticsInv, LogTypeOK
               PROVE  TypeOK
    OBVIOUS
  <2>1. StaticsTyped /\ BoundsInv /\ Ranges
    BY Typed DEF StaticsInv
  <2>2. toSend > -OthersRoom - CHUNK /\ toCalculate > -OthersRoom - CHUNK
    BY <2>1, Counts DEF BoundsInv, Ranges
  <2>3. /\ toSend \in 1 - CHUNK * Cardinality(Requests) .. WINDOW
        /\ toCalculate \in 1 - CHUNK * Cardinality(Requests) .. WINDOW
    BY <2>1, <2>2, AllRoom, Counts DEF Ranges
  <2>4. since \in 0 .. CHUNK * CHUNKS
    <3>1. CHUNK * CHUNKS \in Nat
      BY Room, CompressionAssumption
    <3> QED
      BY <2>1, <3>1, Counts, ReadBound DEF BoundsInv, Ranges
  <2> QED
    BY <2>1, <2>3, <2>4 DEF TypeOK, StaticsTyped
<1> QED
  BY <1>1, StaticsInvariance, SharedLog, TypeCorrect, PTL

\* However many requests share the windows, and however short their chunks are, the
\* data is looked at again in time, unless an update was lost, examinations overlapped,
\* or one came after a window that another request had opened.
THEOREM InTime == Spec => []ExaminedInTime
<1>1. StaticsInv => ExaminedInTime
  <2> SUFFICES ASSUME StaticsInv, ~torn, ~overlap
               PROVE  since < WINDOW + OthersRoom + OthersRoom + CHUNK
    BY AllRoom, Counts, Typed DEF StaticsInv, Ranges, ExaminedInTime
  <2>1. Ranges /\ BoundsInv
    BY Typed DEF StaticsInv
  <2>3. CASE since + UnderWay({"copying"}) <= OthersRoom
    BY <2>1, <2>3, Counts DEF Ranges
  <2>4. CASE since + toSend <= WINDOW + OthersRoom
    BY <2>1, <2>4, Counts DEF Ranges, BoundsInv
  <2>5. CASE since + UnderWay({"copying"}) + toCalculate <= WINDOW + OthersRoom
    BY <2>1, <2>5, Counts DEF Ranges, BoundsInv
  <2> QED
    BY <2>3, <2>4, <2>5 DEF StaticsInv, WindowInv
<1> QED
  BY <1>1, StaticsInvariance, PTL

\* The tree is not asked about data found incompressible unless an examination
\* overlapped another request's decision.
THEOREM OnCompressible == Spec => []DecidedOnCompressible
<1>1. StaticsInv => DecidedOnCompressible
  BY DEF StaticsInv, OverlapInv, DecidedOnCompressible, Where
<1> QED
  BY <1>1, StaticsInvariance, PTL

\* The lines of the requests reach the file whole.
THEOREM SharedLines == Spec => []LinesWhole
  BY SharedLog, WholeLines

\* The log of the requests implements AppendLog.
THEOREM SharedRefinement == Spec => ImplementsAppendLog
  BY SharedLog, Refinement
===============================================================================
