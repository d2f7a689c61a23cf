------------------------- MODULE ServerRequestsProofs -------------------------
(***************************************************************************)
(* Theorems about ServerRequests, for any number of threads and            *)
(* connections: what a stopped server has left behind, and that a request  *)
(* outlives the transmission that works on its locals.                     *)
(***************************************************************************)
EXTENDS ServerRequests, QueueLemmas, SequenceTheorems, TLAPS

Waiting == Pool!Waiting
Running == Pool!Running

-------------------------------------------------------------------------------
(* The inductive invariant                                                 *)

\* No task is in two places or twice in one.
PoolSound ==
  /\ IsInjective(pending)
  /\ \A v, w \in Workers : hand[v] = hand[w] /\ hand[v] # None => v = w
  /\ Waiting \intersect (Running \union finished) = {}
  /\ Running \intersect finished = {}

\* The tasks of a connection are where its progress says.
RequestOK(c) ==
  /\ conn[c] = "away" =>
       Request(c) \notin Waiting \union Running \union finished
  /\ conn[c] = "accepted" => Request(c) \in Waiting \union Running
  /\ conn[c] \in {"transmitting", "prepared"} => Request(c) \in Running
  /\ conn[c] \in {"rejected", "answered"} => Request(c) \in finished
  /\ Transmit(c) \in Waiting \union Running \union finished =>
       conn[c] \in {"transmitting", "prepared", "answered"}
  /\ conn[c] = "answered" => Transmit(c) \in finished

RequestInv == \A c \in Conns : RequestOK(c)

\* A worker that has left, or was never started, keeps no function object.
KeptInv ==
  /\ \A w \in leaving : hand[w] = None => kept[w] = None
  /\ phase \in {"idle", "discarding"} =>
       \A w \in Workers : hand[w] = None /\ kept[w] = None

\* The main thread's progress and the pool's; after the pool's shutdown has
\* begun nobody accepts, so its promise covers every request.
LifeInv ==
  /\ main = "created" <=> phase = "idle"
  /\ main = "serving" => phase = "active"
  /\ main \in {"monitor", "stopped"} <=> phase = "closed"
  /\ phase = "idle" => \A c \in Conns : conn[c] = "away"
  /\ phase = "discarding" => \A c \in Conns : conn[c] = "away"
  /\ phase = "closing" =>
       \A c \in Conns :
         conn[c] # "away" => Request(c) \in promised \union finished

\* What the end of the pool's shutdown leaves.
StopInv ==
  phase = "closed" =>
    /\ \A c \in Conns : conn[c] \in {"away", "rejected", "answered"}
    /\ Waiting = {}
    /\ \A w \in Workers : hand[w] = None /\ kept[w] = None

ServerInv ==
  /\ TypeOK
  /\ PoolSound
  /\ RequestInv
  /\ KeptInv
  /\ LifeInv
  /\ StopInv

-------------------------------------------------------------------------------
(* What the pool's steps do to the places where tasks are                  *)

\* The tasks of different connections, and of different kinds, are different.
LEMMA TaskLemma ==
  /\ \A c \in Conns : Request(c) \in Tasks /\ Transmit(c) \in Tasks
  /\ \A t \in Tasks : /\ t # None
                      /\ Conn(t) \in Conns
                      /\ t = Request(Conn(t)) \/ t = Transmit(Conn(t))
  /\ \A c, d \in Conns : /\ Request(c) = Request(d) => c = d
                         /\ Transmit(c) = Transmit(d) => c = d
                         /\ Request(c) # Transmit(d)
                         /\ Conn(Request(c)) = c /\ Conn(Transmit(c)) = c
  BY ServerAssumption DEF Tasks, Request, Transmit, Conn

LEMMA SamePlaces ==
  ASSUME UNCHANGED <<pending, hand, finished>>
  PROVE  /\ Waiting' = Waiting /\ Running' = Running
         /\ PoolSound => PoolSound'
  BY DEF Waiting, Running, Pool!Waiting, Pool!Running, Pool!Range, PoolSound

LEMMA SubmitLemma ==
  ASSUME TypeOK, PoolSound, NEW t \in Tasks, Pool!Submit(t)
  PROVE  /\ t \notin Waiting \union Running \union finished
         /\ Waiting' = Waiting \union {t} /\ Running' = Running
         /\ pending' \in Seq(Tasks)
         /\ PoolSound'
<1>1. /\ t \notin Waiting \union Running \union finished
      /\ pending' = Append(pending, t)
      /\ hand' = hand /\ finished' = finished
  BY DEF Pool!Submit, Pool!Submitted, Waiting, Running
<1>2. Waiting = Range(pending) /\ Waiting' = Range(pending')
  BY DEF Waiting, Pool!Waiting, Pool!Range, Range
<1>3. Running' = Running
  BY <1>1 DEF Running, Pool!Running, Pool!Range
<1>4. /\ pending' \in Seq(Tasks)
      /\ Waiting' = Waiting \union {t}
      /\ IsInjective(pending')
  BY <1>1, <1>2, PushLemma DEF TypeOK, PoolSound
<1> QED
  BY <1>1, <1>3, <1>4 DEF PoolSound

\* The tasks in the workers' hands, without None.
LEMMA RunningLemma ==
  ASSUME TypeOK
  PROVE  Running = {hand[w] : w \in Workers} \ {None}
  BY DEF TypeOK, Running, Pool!Running, Pool!Range

LEMMA StartLemma ==
  ASSUME TypeOK, PoolSound, NEW w \in Workers, Pool!Start(w)
  PROVE  /\ hand[w] = None /\ w \notin leaving
         /\ hand' = [hand EXCEPT ![w] = Head(pending)]
         /\ Head(pending) \in Tasks /\ Head(pending) \in Waiting
         /\ Waiting' = Waiting \ {Head(pending)}
         /\ Running' = Running \union {Head(pending)}
         /\ pending' \in Seq(Tasks)
         /\ hand' \in [Workers -> Tasks \union {None}]
         /\ PoolSound'
<1> DEFINE t == Head(pending)
<1>1. /\ pending # <<>> /\ pending' = Tail(pending)
      /\ hand[w] = None /\ w \notin leaving
      /\ hand' = [hand EXCEPT ![w] = t]
      /\ finished' = finished
  BY DEF Pool!Start
<1>2. Waiting = Range(pending) /\ Waiting' = Range(pending')
  BY DEF Waiting, Pool!Waiting, Pool!Range, Range
<1>3. /\ t \in Tasks /\ t \in Waiting
      /\ pending' \in Seq(Tasks)
      /\ Waiting' = Waiting \ {t}
      /\ IsInjective(pending')
  BY <1>1, <1>2, PopLemma DEF TypeOK, PoolSound
<1>4. hand' \in [Workers -> Tasks \union {None}] /\ t # None
  BY <1>1, <1>3, TaskLemma DEF TypeOK
<1>5. Running' = {hand'[v] : v \in Workers} \ {None}
  BY <1>4 DEF Running, Pool!Running, Pool!Range
<1>6. Running' = Running \union {t}
  BY <1>1, <1>4, <1>5, RunningLemma DEF TypeOK
<1>7. t \notin Running \union finished
  BY <1>3 DEF PoolSound
<1>8. ASSUME NEW u \in Workers, NEW v \in Workers,
             hand'[u] = hand'[v], hand'[u] # None
      PROVE  u = v
  BY <1>1, <1>7, <1>8, RunningLemma DEF TypeOK, PoolSound
<1> QED
  BY <1>1, <1>3, <1>4, <1>6, <1>7, <1>8 DEF PoolSound

LEMMA FinishLemma ==
  ASSUME TypeOK, PoolSound, NEW w \in Workers, Pool!Finish(w)
  PROVE  /\ hand[w] \in Tasks /\ hand[w] \in Running
         /\ hand' = [hand EXCEPT ![w] = None]
         /\ hand' \in [Workers -> Tasks \union {None}]
         /\ Waiting' = Waiting
         /\ Running' = Running \ {hand[w]}
         /\ finished' = finished \union {hand[w]}
         /\ PoolSound'
<1>1. /\ hand[w] # None /\ pending' = pending
      /\ hand' = [hand EXCEPT ![w] = None]
      /\ finished' = finished \union {hand[w]}
  BY DEF Pool!Finish
<1>2. Waiting' = Waiting
  BY <1>1 DEF Waiting, Pool!Waiting, Pool!Range
<1>3. hand' \in [Workers -> Tasks \union {None}]
  BY <1>1 DEF TypeOK
<1>4. Running' = {hand'[v] : v \in Workers} \ {None}
  BY <1>3 DEF Running, Pool!Running, Pool!Range
<1>5. \A v \in Workers : hand[v] = hand[w] => v = w
  BY <1>1 DEF PoolSound
<1>6. Running' = Running \ {hand[w]} /\ hand[w] \in Running
  BY <1>1, <1>4, <1>5, RunningLemma DEF TypeOK
<1>7. hand[w] \in Tasks
  BY <1>1 DEF TypeOK
<1>8. ASSUME NEW u \in Workers, NEW v \in Workers,
             hand'[u] = hand'[v], hand'[u] # None
      PROVE  u = v
  BY <1>1, <1>8 DEF TypeOK, PoolSound
<1> QED
  BY <1>1, <1>2, <1>3, <1>6, <1>7, <1>8 DEF PoolSound

-------------------------------------------------------------------------------
(* Every step preserves the invariant                                      *)

LEMMA InitEstablishes == Init => ServerInv
<1> SUFFICES ASSUME Init PROVE ServerInv
  OBVIOUS
<1>1. /\ pending = <<>> /\ hand = [w \in Workers |-> None]
      /\ leaving = {} /\ finished = {} /\ phase = "idle" /\ promised = {}
      /\ main = "created" /\ doneServing = TRUE /\ monitor = "none"
      /\ conn = [c \in Conns |-> "away"]
      /\ kept = [w \in Workers |-> None]
  BY DEF Init, Pool!Init
<1>2. TypeOK
  BY <1>1 DEF TypeOK
<1>3. Waiting = {} /\ Running = {}
  BY <1>1, <1>2, RunningLemma DEF Waiting, Pool!Waiting, Pool!Range
<1>4. IsInjective(pending)
  BY <1>1 DEF IsInjective
<1>5. PoolSound
  BY <1>1, <1>3, <1>4 DEF PoolSound
<1>6. RequestInv
  BY <1>1, <1>3 DEF RequestInv, RequestOK
<1> QED
  BY <1>1, <1>2, <1>5, <1>6 DEF ServerInv, KeptInv, LifeInv, StopInv

\* The steps that leave the tasks and the connections alone.
LEMMA SameRequests ==
  ASSUME ServerInv, UNCHANGED <<pending, hand, finished, conn>>
  PROVE  PoolSound' /\ RequestInv' /\ Waiting' = Waiting /\ Running' = Running
  BY SamePlaces DEF ServerInv, RequestInv, RequestOK

LEMMA InitPreserves ==
  ASSUME ServerInv, InitServer \/ InitFails
  PROVE  ServerInv'
<1>1. /\ UNCHANGED <<pending, hand, leaving, finished, promised, conn, kept>>
      /\ phase = "idle" /\ phase' = "active"
      /\ main' \in {"serving", "failed"}
      /\ doneServing' \in {doneServing, FALSE}
      /\ monitor' \in {monitor, "running"}
  BY DEF InitServer, InitFails, Pool!Activate
<1>2. TypeOK'
  BY <1>1 DEF ServerInv, TypeOK
<1> QED
  BY <1>1, <1>2, SameRequests DEF ServerInv, KeptInv, LifeInv, StopInv

\* After the flag is set, the pool's promise covers every request there is.
LEMMA BeginPreserves ==
  ASSUME ServerInv, ReadPipe \/ Destroy
  PROVE  ServerInv'
<1>1. /\ UNCHANGED <<pending, hand, leaving, finished, doneServing, monitor,
                     conn, kept>>
      /\ main' = "joining"
      /\ \/ phase = "idle" /\ phase' = "discarding" /\ promised' = {}
         \/ /\ phase = "active" /\ phase' = "closing"
            /\ promised' = Waiting \union Running
  BY DEF ReadPipe, Destroy, Pool!BeginShutdown, Waiting, Running
<1>2. Waiting \union Running \subseteq Tasks
  BY RunningLemma, RangeEquality
  DEF ServerInv, TypeOK, Waiting, Pool!Waiting, Pool!Range, Range
<1>3. TypeOK'
  BY <1>1, <1>2 DEF ServerInv, TypeOK
<1>4. ASSUME phase = "active", NEW c \in Conns, conn[c] # "away"
      PROVE  Request(c) \in Waiting \union Running \union finished
  BY <1>4 DEF ServerInv, TypeOK, RequestInv, RequestOK
<1>5. LifeInv'
  BY <1>1, <1>4 DEF ServerInv, LifeInv
<1> QED
  BY <1>1, <1>3, <1>5, SameRequests DEF ServerInv, KeptInv, StopInv

\* The end of the pool's shutdown: all that was promised has finished, so every
\* request has, so nothing has been submitted that is still waiting.
LEMMA PoolJoinedPreserves ==
  ASSUME ServerInv, PoolJoined
  PROVE  ServerInv'
<1>1. /\ UNCHANGED <<pending, hand, leaving, finished, promised, monitor, conn,
                     kept>>
      /\ phase' = "closed" /\ doneServing' = TRUE
      /\ main = "joining" /\ main' \in {"stopped", "monitor"}
      /\ \/ phase = "discarding"
         \/ /\ phase = "closing" /\ leaving = Workers
            /\ Running = {} /\ promised \subseteq finished
  BY DEF PoolJoined, Pool!EndShutdown, Running
<1>2. TypeOK'
  BY <1>1 DEF ServerInv, TypeOK
<1>3. \A w \in Workers : hand[w] = None /\ kept[w] = None
  <2>1. CASE phase = "discarding"
    BY <2>1 DEF ServerInv, KeptInv
  <2>2. CASE phase = "closing" /\ leaving = Workers /\ Running = {}
    <3>1. \A w \in Workers : hand[w] = None
      BY <2>2, RunningLemma DEF ServerInv
    <3> QED
      BY <2>2, <3>1 DEF ServerInv, KeptInv
  <2> QED
    BY <1>1, <2>1, <2>2
<1>4. Running = {}
  BY <1>3, RunningLemma DEF ServerInv
<1>5. ASSUME NEW c \in Conns
      PROVE  conn[c] \in {"away", "rejected", "answered"}
  <2>1. conn[c] # "away" => Request(c) \in finished
    BY <1>1 DEF ServerInv, LifeInv
  <2>2. conn[c] \notin {"accepted", "transmitting", "prepared"}
    BY <2>1 DEF ServerInv, RequestInv, RequestOK, PoolSound
  <2> QED
    BY <2>2 DEF ServerInv, TypeOK
<1>6. Waiting = {}
  <2> SUFFICES ASSUME NEW t \in Waiting PROVE FALSE
    OBVIOUS
  <2>1. t \in Tasks
    BY RangeEquality
    DEF ServerInv, TypeOK, Waiting, Pool!Waiting, Pool!Range, Range
  <2>2. PICK c \in Conns : t = Request(c) \/ t = Transmit(c)
    BY <2>1, TaskLemma
  <2>3. t \notin finished
    BY DEF ServerInv, PoolSound
  <2>4. conn[c] \in {"away", "rejected", "answered"}
    BY <1>5
  <2>5. t # Request(c)
    BY <2>3, <2>4 DEF ServerInv, RequestInv, RequestOK
  <2>6. t # Transmit(c)
    BY <2>3, <2>4 DEF ServerInv, RequestInv, RequestOK
  <2> QED
    BY <2>2, <2>5, <2>6
<1>7. StopInv'
  BY <1>1, <1>3, <1>5, <1>6, SameRequests DEF StopInv
<1>8. LifeInv'
  BY <1>1 DEF ServerInv, LifeInv
<1>9. KeptInv'
  BY <1>1, <1>3 DEF ServerInv, TypeOK, KeptInv
<1>10. PoolSound' /\ RequestInv'
  BY <1>1, SameRequests
<1> QED
  BY <1>2, <1>7, <1>8, <1>9, <1>10 DEF ServerInv

LEMMA QuietPreserves ==
  ASSUME ServerInv, AcceptFails \/ MonitorJoined \/ MonitorEnds
  PROVE  ServerInv'
<1>1. /\ UNCHANGED poolVars /\ UNCHANGED <<doneServing, conn, kept>>
      /\ \/ main = "serving" /\ main' = "crashed"
         \/ main = "monitor" /\ main' = "stopped"
         \/ main' = main
      /\ monitor' \in {monitor, "ended"}
  BY DEF AcceptFails, MonitorJoined, MonitorEnds
<1>2. TypeOK'
  BY <1>1 DEF ServerInv, TypeOK, poolVars
<1>3. LifeInv'
  BY <1>1 DEF ServerInv, LifeInv, poolVars
<1> QED
  BY <1>1, <1>2, <1>3, SameRequests
  DEF ServerInv, KeptInv, StopInv, poolVars

LEMMA AcceptPreserves ==
  ASSUME ServerInv, NEW c \in Conns, AcceptRequest(c)
  PROVE  ServerInv'
<1>1. /\ main = "serving" /\ phase = "active" /\ conn[c] = "away"
      /\ conn' = [conn EXCEPT ![c] = "accepted"]
      /\ UNCHANGED <<hand, leaving, finished, phase, promised>>
      /\ UNCHANGED <<serverVars, kept>>
  BY DEF AcceptRequest, Pool!Submit, ServerInv, LifeInv
<1>2. /\ Waiting' = Waiting \union {Request(c)} /\ Running' = Running
      /\ pending' \in Seq(Tasks)
      /\ PoolSound'
  BY SubmitLemma, TaskLemma DEF AcceptRequest, ServerInv
<1>3. TypeOK'
  BY <1>1, <1>2 DEF ServerInv, TypeOK, serverVars
<1>4. RequestInv'
  <2> SUFFICES ASSUME NEW d \in Conns PROVE RequestOK(d)'
    BY DEF RequestInv
  <2>1. d # c => conn'[d] = conn[d] /\ Request(d) # Request(c)
    BY <1>1, TaskLemma DEF ServerInv, TypeOK
  <2>2. conn'[c] = "accepted" /\ Transmit(d) # Request(c)
    BY <1>1, TaskLemma DEF ServerInv, TypeOK
  <2> QED
    BY <1>1, <1>2, <2>1, <2>2 DEF ServerInv, RequestInv, RequestOK
<1> QED
  BY <1>1, <1>2, <1>3, <1>4
  DEF ServerInv, KeptInv, LifeInv, StopInv, serverVars

LEMMA StartPreserves ==
  ASSUME ServerInv, NEW w \in Workers, Start(w)
  PROVE  ServerInv'
<1> DEFINE t == Head(pending)
<1>1. /\ phase \in {"active", "closing"}
      /\ kept' = [kept EXCEPT ![w] = Conn(t)]
      /\ UNCHANGED <<leaving, finished, phase, promised, conn>>
      /\ UNCHANGED serverVars
  BY DEF Start, Pool!Start
<1>2. /\ hand[w] = None /\ w \notin leaving
      /\ hand' = [hand EXCEPT ![w] = t]
      /\ t \in Tasks /\ t \in Waiting
      /\ Waiting' = Waiting \ {t} /\ Running' = Running \union {t}
      /\ pending' \in Seq(Tasks)
      /\ hand' \in [Workers -> Tasks \union {None}]
      /\ PoolSound'
  BY StartLemma DEF Start, ServerInv
<1>3. TypeOK'
  BY <1>1, <1>2, TaskLemma DEF ServerInv, TypeOK, serverVars
<1>4. RequestInv'
  BY <1>1, <1>2 DEF ServerInv, RequestInv, RequestOK
<1>5. KeptInv'
  BY <1>1, <1>2 DEF ServerInv, TypeOK, KeptInv
<1> QED
  BY <1>1, <1>2, <1>3, <1>4, <1>5
  DEF ServerInv, LifeInv, StopInv, serverVars

LEMMA LeavePreserves ==
  ASSUME ServerInv, NEW w \in Workers, Leave(w)
  PROVE  ServerInv'
<1>1. /\ phase = "closing" /\ leaving' = leaving \union {w}
      /\ kept' = [kept EXCEPT ![w] = IF hand[w] = None THEN None ELSE @]
      /\ UNCHANGED <<pending, hand, finished, phase, promised, conn>>
      /\ UNCHANGED serverVars
  BY DEF Leave, Pool!Leave
<1>2. TypeOK'
  BY <1>1 DEF ServerInv, TypeOK, serverVars
<1>3. KeptInv'
  BY <1>1 DEF ServerInv, TypeOK, KeptInv
<1> QED
  BY <1>1, <1>2, <1>3, SameRequests
  DEF ServerInv, LifeInv, StopInv, serverVars

\* A task that returns: the pool has finished it, whoever keeps it then.
LEMMA ReturnLemma ==
  ASSUME ServerInv, NEW w \in Workers, Return(w),
         NEW t \in Tasks, hand[w] = t,
         conn' \in [Conns -> {"away", "accepted", "transmitting", "prepared",
                              "rejected", "answered"}],
         \A c \in Conns : conn'[c] = "away" <=> conn[c] = "away"
  PROVE  /\ TypeOK' /\ PoolSound' /\ KeptInv' /\ LifeInv' /\ StopInv'
         /\ t \in Running
         /\ Waiting' = Waiting /\ Running' = Running \ {t}
         /\ finished' = finished \union {t}
<1>1. /\ UNCHANGED <<pending, leaving, phase, promised>>
      /\ kept' = [kept EXCEPT ![w] = IF w \in leaving THEN None ELSE @]
      /\ UNCHANGED serverVars
  BY DEF Return, Pool!Finish
<1>2. /\ t \in Running
      /\ hand' = [hand EXCEPT ![w] = None]
      /\ hand' \in [Workers -> Tasks \union {None}]
      /\ Waiting' = Waiting /\ Running' = Running \ {t}
      /\ finished' = finished \union {t}
      /\ PoolSound'
  BY FinishLemma DEF Return, ServerInv
<1>3. hand[w] # None
  BY TaskLemma
<1>4. phase \in {"active", "closing"}
  BY <1>3 DEF ServerInv, TypeOK, KeptInv, StopInv
<1>5. TypeOK'
  BY <1>1, <1>2 DEF ServerInv, TypeOK, serverVars
<1>6. KeptInv'
  BY <1>1, <1>2, <1>4 DEF ServerInv, TypeOK, KeptInv
<1>7. LifeInv'
  BY <1>1, <1>2, <1>4 DEF ServerInv, LifeInv, serverVars
<1>8. StopInv'
  BY <1>1, <1>4 DEF StopInv
<1> QED
  BY <1>2, <1>5, <1>6, <1>7, <1>8

LEMMA RejectPreserves ==
  ASSUME ServerInv, NEW w \in Workers, NEW c \in Conns, Reject(w, c)
  PROVE  ServerInv'
<1>1. /\ hand[w] = Request(c) /\ conn[c] = "accepted"
      /\ conn' = [conn EXCEPT ![c] = "rejected"]
      /\ Return(w)
  BY DEF Reject
<1>2. /\ TypeOK' /\ PoolSound' /\ KeptInv' /\ LifeInv' /\ StopInv'
      /\ Request(c) \in Running
      /\ Waiting' = Waiting /\ Running' = Running \ {Request(c)}
      /\ finished' = finished \union {Request(c)}
  BY <1>1, ReturnLemma, TaskLemma DEF ServerInv, TypeOK
<1>3. ASSUME NEW d \in Conns
      PROVE  RequestOK(d)'
  <2>1. d # c => conn'[d] = conn[d] /\ Request(d) # Request(c)
    BY <1>1, TaskLemma DEF ServerInv, TypeOK
  <2>2. conn'[c] = "rejected" /\ Transmit(d) # Request(c)
    BY <1>1, TaskLemma DEF ServerInv, TypeOK
  <2> QED
    BY <1>1, <1>2, <2>1, <2>2 DEF ServerInv, RequestInv, RequestOK
<1> QED
  BY <1>2, <1>3 DEF ServerInv, RequestInv

LEMMA SubmitTransmitPreserves ==
  ASSUME ServerInv, NEW w \in Workers, NEW c \in Conns, SubmitTransmit(w, c)
  PROVE  ServerInv'
<1>1. /\ hand[w] = Request(c) /\ conn[c] = "accepted"
      /\ conn' = [conn EXCEPT ![c] = "transmitting"]
      /\ UNCHANGED <<hand, leaving, finished, phase, promised>>
      /\ UNCHANGED <<serverVars, kept>>
  BY DEF SubmitTransmit, Pool!Submit
<1>2. /\ Waiting' = Waiting \union {Transmit(c)} /\ Running' = Running
      /\ pending' \in Seq(Tasks)
      /\ PoolSound'
  BY SubmitLemma, TaskLemma DEF SubmitTransmit, ServerInv
<1>3. hand[w] # None /\ Request(c) \in Running
  BY <1>1, TaskLemma, RunningLemma DEF ServerInv
<1>4. phase \in {"active", "closing"}
  BY <1>3 DEF ServerInv, TypeOK, KeptInv, StopInv
<1>5. TypeOK'
  BY <1>1, <1>2 DEF ServerInv, TypeOK, serverVars
<1>6. ASSUME NEW d \in Conns
      PROVE  RequestOK(d)'
  <2>1. d # c => conn'[d] = conn[d] /\ Transmit(d) # Transmit(c)
    BY <1>1, TaskLemma DEF ServerInv, TypeOK
  <2>2. conn'[c] = "transmitting" /\ Request(d) # Transmit(c)
    BY <1>1, TaskLemma DEF ServerInv, TypeOK
  <2> QED
    BY <1>1, <1>2, <1>3, <2>1, <2>2 DEF ServerInv, RequestInv, RequestOK
<1>7. KeptInv' /\ StopInv'
  BY <1>1, <1>4 DEF ServerInv, KeptInv, StopInv
<1>8. \A d \in Conns : conn'[d] = "away" <=> conn[d] = "away"
  BY <1>1 DEF ServerInv, TypeOK
<1>9. LifeInv'
  BY <1>1, <1>4, <1>8 DEF ServerInv, LifeInv, serverVars
<1> QED
  BY <1>2, <1>5, <1>6, <1>7, <1>9 DEF ServerInv, RequestInv

LEMMA PreparedPreserves ==
  ASSUME ServerInv, NEW w \in Workers, NEW c \in Conns, Prepared(w, c)
  PROVE  ServerInv'
<1>1. /\ hand[w] = Request(c) /\ conn[c] = "transmitting"
      /\ conn' = [conn EXCEPT ![c] = "prepared"]
      /\ UNCHANGED poolVars /\ UNCHANGED <<serverVars, kept>>
  BY DEF Prepared
<1>2. PoolSound' /\ Waiting' = Waiting /\ Running' = Running
  BY <1>1, SamePlaces DEF ServerInv, poolVars
<1>3. TypeOK'
  BY <1>1 DEF ServerInv, TypeOK, poolVars, serverVars
<1>4. hand[w] # None
  BY <1>1, TaskLemma
<1>5. phase \in {"active", "closing"}
  BY <1>4 DEF ServerInv, TypeOK, KeptInv, StopInv
<1>6. RequestInv'
  BY <1>1, <1>2 DEF ServerInv, TypeOK, RequestInv, RequestOK, poolVars
<1>7. KeptInv' /\ StopInv'
  BY <1>1, <1>5 DEF ServerInv, KeptInv, StopInv, poolVars
<1>8. \A d \in Conns : conn'[d] = "away" <=> conn[d] = "away"
  BY <1>1 DEF ServerInv, TypeOK
<1>9. LifeInv'
  BY <1>1, <1>5, <1>8 DEF ServerInv, LifeInv, serverVars, poolVars
<1> QED
  BY <1>2, <1>3, <1>6, <1>7, <1>9 DEF ServerInv

LEMMA RequestReturnsPreserves ==
  ASSUME ServerInv, NEW w \in Workers, NEW c \in Conns, RequestReturns(w, c)
  PROVE  ServerInv'
<1>1. /\ hand[w] = Request(c) /\ conn[c] = "prepared"
      /\ Transmit(c) \in finished
      /\ conn' = [conn EXCEPT ![c] = "answered"]
      /\ Return(w)
  BY DEF RequestReturns
<1>2. /\ TypeOK' /\ PoolSound' /\ KeptInv' /\ LifeInv' /\ StopInv'
      /\ Request(c) \in Running
      /\ Waiting' = Waiting /\ Running' = Running \ {Request(c)}
      /\ finished' = finished \union {Request(c)}
  BY <1>1, ReturnLemma, TaskLemma DEF ServerInv, TypeOK
<1>3. ASSUME NEW d \in Conns
      PROVE  RequestOK(d)'
  <2>1. d # c => conn'[d] = conn[d] /\ Request(d) # Request(c)
    BY <1>1, TaskLemma DEF ServerInv, TypeOK
  <2>2. conn'[c] = "answered" /\ Transmit(d) # Request(c)
    BY <1>1, TaskLemma DEF ServerInv, TypeOK
  <2> QED
    BY <1>1, <1>2, <2>1, <2>2 DEF ServerInv, RequestInv, RequestOK
<1> QED
  BY <1>2, <1>3 DEF ServerInv, RequestInv

LEMMA TransmitEndsPreserves ==
  ASSUME ServerInv, NEW w \in Workers, NEW c \in Conns,
         TransmitEnds(w, c) \/ TransmitFails(w, c)
  PROVE  ServerInv'
<1>1. hand[w] = Transmit(c) /\ UNCHANGED conn /\ Return(w)
  BY DEF TransmitEnds, TransmitFails
<1>2. /\ TypeOK' /\ PoolSound' /\ KeptInv' /\ LifeInv' /\ StopInv'
      /\ Transmit(c) \in Running
      /\ Waiting' = Waiting /\ Running' = Running \ {Transmit(c)}
      /\ finished' = finished \union {Transmit(c)}
  BY <1>1, ReturnLemma, TaskLemma DEF ServerInv, TypeOK
<1>3. \A d \in Conns : Request(d) # Transmit(c)
  BY TaskLemma
<1>4. RequestInv'
  BY <1>1, <1>2, <1>3 DEF ServerInv, RequestInv, RequestOK
<1> QED
  BY <1>2, <1>4 DEF ServerInv

LEMMA StepPreserves == ServerInv /\ [Next]_vars => ServerInv'
<1> SUFFICES ASSUME ServerInv, [Next]_vars PROVE ServerInv'
  OBVIOUS
<1>1. CASE UNCHANGED vars
  <2>1. UNCHANGED <<pending, hand, finished, conn>>
    BY <1>1 DEF vars, poolVars
  <2>2. TypeOK' /\ KeptInv' /\ LifeInv'
    BY <1>1 DEF ServerInv, TypeOK, KeptInv, LifeInv, vars, poolVars, serverVars
  <2>3. StopInv'
    BY <1>1, <2>1, SameRequests DEF ServerInv, StopInv, vars, poolVars
  <2> QED
    BY <2>1, <2>2, <2>3, SameRequests DEF ServerInv
<1>2. CASE Next
  BY <1>2, InitPreserves, BeginPreserves, PoolJoinedPreserves, QuietPreserves,
     AcceptPreserves, StartPreserves, LeavePreserves, RejectPreserves,
     SubmitTransmitPreserves, PreparedPreserves, RequestReturnsPreserves,
     TransmitEndsPreserves
  DEF Next, Worker, Serve
<1> QED
  BY <1>1, <1>2

LEMMA ServerInvariance == Spec => []ServerInv
  BY InitEstablishes, StepPreserves, PTL DEF Spec

-------------------------------------------------------------------------------
(* The theorems                                                            *)

\* Every variable of the server stays in its range, for any number of threads
\* and connections.
THEOREM ServerTyping == Spec => []TypeOK
<1>1. ServerInv => TypeOK
  BY DEF ServerInv
<1> QED
  BY <1>1, ServerInvariance, PTL

\* processRequest's locals, which transmit works on by reference, stay on a
\* worker's stack as long as the transmission waits or runs, also when the
\* server is shut down or the transmission fails: server.cpp:404-409.
THEOREM RequestOutlives == Spec => []RequestOutlivesTransmit
<1>1. ServerInv => RequestOutlivesTransmit
  <2> SUFFICES ASSUME ServerInv, NEW c \in Conns,
                      Transmit(c) \in Waiting \union Running
               PROVE  \E w \in Workers : hand[w] = Request(c)
    BY DEF RequestOutlivesTransmit, Waiting, Running
  <2>1. Transmit(c) \notin finished
    BY DEF ServerInv, PoolSound
  <2>2. Request(c) \in Running
    BY <2>1 DEF ServerInv, RequestInv, RequestOK
  <2> QED
    BY <2>2, RunningLemma DEF ServerInv
<1> QED
  BY <1>1, ServerInvariance, PTL

\* A server that has stopped has ended every request it accepted and keeps no
\* client's socket alive, whatever was under way when the shutdown began.
THEOREM StopLeaves == Spec => []StopLeavesNothing
<1>1. ServerInv => StopLeavesNothing
  <2> SUFFICES ASSUME ServerInv, main = "stopped", NEW c \in Conns
               PROVE  /\ conn[c] \in {"away", "rejected", "answered"}
                      /\ ~SocketHeld(c)
    BY DEF StopLeavesNothing
  <2>1. /\ conn[c] \in {"away", "rejected", "answered"}
        /\ Waiting = {}
        /\ \A w \in Workers : hand[w] = None /\ kept[w] = None
    BY DEF ServerInv, LifeInv, StopInv
  <2>2. Running = {}
    BY <2>1, RunningLemma DEF ServerInv
  <2>3. None \notin Conns
    BY ServerAssumption
  <2> QED
    BY <2>1, <2>2, <2>3 DEF SocketHeld, Waiting, Running
<1> QED
  BY <1>1, ServerInvariance, PTL
===============================================================================
