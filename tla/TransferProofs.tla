----------------------------- MODULE TransferProofs -----------------------------
(***************************************************************************)
(* Theorems about Transmission, the server of a transfer, and about        *)
(* Transfer, for any number of files, chunks and errors and every kind of  *)
(* request: server and client stay in step, a request that returns has     *)
(* transferred every file, and what else ends one or leaves it waiting.    *)
(***************************************************************************)
EXTENDS Transfer, QueueLemmas

-------------------------------------------------------------------------------
(* Transmission: the inductive invariant                                   *)

\* Where processRequest is, or goes on after the notification that is due.
Where == IF rpc = "notify" THEN after ELSE rpc

\* Files and chunks are counted up as they are counted down.
RequestInv ==
  /\ rpc = "notify" => after \in {"files", "chunks", "error2", "finish", "wait"}
  /\ file + files <= MaxFiles
  /\ chunk + chunks <= MaxChunks
  /\ Where \in {"chunks", "data"} => file > 0
  /\ Where = "data" => chunk > 0
  /\ Where \in {"clear", "error1", "error2"} => mode = "train"

\* transmit ends after requestDone, with nothing left to send, or when a send
\* failed; processRequest pushes nothing after requestDone.  It sets the flag
\* under the mutex, which transmit holds from its predicate until it sleeps.
TransmitInv ==
  /\ tpc = "none" <=> rpc \in {"receive", "rejected"}
  /\ rpc = "receive" => queue = <<>> /\ sent = <<>> /\ file = 0
  /\ requestDone => Where \in {"wait", "returned"}
  /\ buffer # None => tpc \in {"check", "send"}
  /\ tpc = "send" => buffer # None
  /\ tdone => requestDone /\ queue = <<>> /\ tpc \in {"send", "ended"}
  /\ tpc = "ended" => tdone \/ failed
  /\ failed => tpc = "ended"
  /\ rpc = "returned" => tpc = "ended"
  /\ mutex = "transmit" <=> tpc \in {"test", "block", "pop", "check"}
  /\ WakeUpIsDue

ThreadsInv == TypeOK /\ RequestInv /\ TransmitInv

-------------------------------------------------------------------------------
(* The shape of the stream                                                 *)

\* The message transmit is about to send, if there is one.
InHand == IF buffer = None THEN <<>> ELSE <<buffer>>

\* All that was queued and not thrown away, in order.
Made == sent \o InHand \o queue

\* What may come after a message.
Follows(m, n) ==
  /\ m.type = "header" =>
       \/ n = ChunkData(m.file, m.chunk)
       \/ mode = "train" /\ n = ErrorMessage
  /\ n.type = "chunk" => m.type = "header"
  /\ n.type = "header" =>
       \/ m.type = "file" /\ ~m.empty /\ n.file = m.file /\ n.chunk = 1
       \/ m.type = "chunk" /\ n.file = m.file /\ n.chunk = m.chunk + 1

LastFile(m) == m.type = "file" /\ m.last

Shaped(s) ==
  /\ s # <<>> => s[1].type \in {"file", "error"}
  /\ \A i \in 1 .. Len(s) - 1 : Follows(s[i], s[i + 1])
  /\ \A i, j \in 1 .. Len(s) : i < j /\ s[j].type = "file" => ~LastFile(s[i])

\* What the last message queued says about the next one.
DueInv ==
  LET m == Made[Len(Made)]
  IN  /\ Where = "data" =>
           Made # <<>> /\ m.type = "header" /\ m.file = file /\ m.chunk = chunk
      /\ Where = "chunks" /\ chunks > 0 =>
           /\ Made # <<>> /\ m.file = file
           /\ \/ m.type = "file" /\ ~m.empty /\ chunk = 0
              \/ m.type = "chunk" /\ m.chunk = chunk
      /\ Made # <<>> /\ m.type = "header" =>
           Where = "data" \/ (Where = "error1" /\ mode = "train")
      /\ (\E i \in 1 .. Len(Made) : LastFile(Made[i])) => files = 0

\* A message that is lost when a send fails leaves a gap in Made, behind which
\* nothing is sent.
StreamInv ==
  /\ Shaped(sent)
  /\ ~failed => Shaped(Made) /\ DueInv

-------------------------------------------------------------------------------
(* Messages                                                                *)

\* Each kind of message is one a client can be sent, and carries what it was
\* made of.
LEMMA FileMessage ==
  ASSUME NEW f \in Files, NEW l \in BOOLEAN, NEW e \in BOOLEAN
  PROVE  /\ FileInitialMessage(f, l, e) \in Message
         /\ FileInitialMessage(f, l, e).type = "file"
         /\ FileInitialMessage(f, l, e).file = f
         /\ FileInitialMessage(f, l, e).last = l
         /\ FileInitialMessage(f, l, e).empty = e
<1>1. FileInitialMessage(f, l, e) \in Message
  BY DEF Message
<1>2. /\ FileInitialMessage(f, l, e).type = "file"
      /\ FileInitialMessage(f, l, e).file = f
      /\ FileInitialMessage(f, l, e).last = l
      /\ FileInitialMessage(f, l, e).empty = e
  BY DEF FileInitialMessage
<1> QED
  BY <1>1, <1>2

LEMMA HeaderMessage ==
  ASSUME NEW f \in Files, NEW c \in Chunks, NEW l \in BOOLEAN
  PROVE  /\ ChunkHeader(f, c, l) \in Message
         /\ ChunkHeader(f, c, l).type = "header"
         /\ ChunkHeader(f, c, l).file = f
         /\ ChunkHeader(f, c, l).chunk = c
<1>1. ChunkHeader(f, c, l) \in Message
  BY DEF Message
<1>2. /\ ChunkHeader(f, c, l).type = "header"
      /\ ChunkHeader(f, c, l).file = f
      /\ ChunkHeader(f, c, l).chunk = c
  BY DEF ChunkHeader
<1> QED
  BY <1>1, <1>2

LEMMA ChunkMessage ==
  ASSUME NEW f \in Files, NEW c \in Chunks
  PROVE  /\ ChunkData(f, c) \in Message
         /\ ChunkData(f, c).type = "chunk"
         /\ ChunkData(f, c).file = f
         /\ ChunkData(f, c).chunk = c
<1>1. ChunkData(f, c) \in Message
  BY DEF Message
<1> QED
  BY <1>1 DEF ChunkData

LEMMA ErrorIsMessage == ErrorMessage \in Message /\ ErrorMessage.type = "error"
<1>1. ErrorMessage \in Message
  BY DEF Message
<1> QED
  BY <1>1 DEF ErrorMessage

\* A push of processRequest keeps the queue's type.
LEMMA PushType ==
  ASSUME TypeOK, NEW m \in Message, queue' = Append(queue, m)
  PROVE  queue' \in Seq(Message)
<1>1. queue \in Seq(Message)
  BY DEF TypeOK
<1> QED
  BY <1>1, AppendProperties

LEMMA OpenFileMessage ==
  ASSUME ThreadsInv, OpenFile
  PROVE  /\ file' \in Files /\ chunk' = 0 /\ chunks' \in 0 .. MaxChunks
         /\ FileInitialMessage(file', files' = 0, chunks' = 0) \in Message
         /\ queue' = Append(queue, FileInitialMessage(file', files' = 0, chunks' = 0))
<1>1. file' \in Files
  BY TransmissionAssumption DEF OpenFile, Files, ThreadsInv, TypeOK, RequestInv
<1>2. PICK n \in 0 .. MaxChunks : chunks' = n
  BY DEF OpenFile
<1>3. (files' = 0) \in BOOLEAN /\ (chunks' = 0) \in BOOLEAN
  OBVIOUS
<1>4. FileInitialMessage(file', files' = 0, chunks' = 0) \in Message
  BY <1>1, <1>3, FileMessage
<1> QED
  BY <1>1, <1>2, <1>4 DEF OpenFile, PushThen

LEMMA NextChunkMessage ==
  ASSUME ThreadsInv, NextChunk
  PROVE  /\ file \in Files /\ chunk' \in Chunks /\ chunks' \in 0 .. MaxChunks
         /\ chunk' + chunks' <= MaxChunks
         /\ ChunkHeader(file, chunk', chunks' = 0) \in Message
         /\ queue' = Append(queue, ChunkHeader(file, chunk', chunks' = 0))
<1>1. /\ chunks \in 0 .. MaxChunks /\ chunk \in 0 .. MaxChunks /\ file \in Files
      /\ chunks > 0 /\ chunk + chunks <= MaxChunks
      /\ chunk' = chunk + 1 /\ (chunks' = chunks - 1 \/ chunks' = 0)
  BY DEF NextChunk, Files, ThreadsInv, TypeOK, RequestInv, Where
<1>2. /\ chunk' \in Chunks /\ chunks' \in 0 .. MaxChunks
      /\ chunk' + chunks' <= MaxChunks
  BY <1>1, TransmissionAssumption DEF Chunks
<1>3. (chunks' = 0) \in BOOLEAN
  OBVIOUS
<1>4. ChunkHeader(file, chunk', chunks' = 0) \in Message
  BY <1>1, <1>2, <1>3, HeaderMessage
<1> QED
  BY <1>1, <1>2, <1>4 DEF NextChunk

-------------------------------------------------------------------------------
(* The two threads                                                         *)

LEMMA InitThreads == Init => ThreadsInv
<1> SUFFICES ASSUME Init
             PROVE  ThreadsInv
  OBVIOUS
<1>1. queue \in Seq(Message) /\ sent \in Seq(Message)
  BY EmptySeq DEF Init
<1>2. 0 \in 0 .. MaxFiles /\ 0 \in 0 .. MaxChunks /\ errors \in 0 .. MaxErrors
  BY TransmissionAssumption DEF Init
<1>4. TypeOK
  BY <1>1, <1>2 DEF Init, TypeOK, Ended
<1>3. RequestInv /\ TransmitInv
  BY TransmissionAssumption DEF Init, RequestInv, TransmitInv, WakeUpIsDue, Where
<1> QED
  BY <1>3, <1>4 DEF ThreadsInv

\* What processRequest does until it opens files, and at its end.
LEMMA RequestThreads ==
  ASSUME ThreadsInv,
         \/ ReceiveFails \/ Reject \/ Accept \/ OpenFileThrows \/ FilesDone
         \/ Notify \/ Clear \/ SetRequestDone \/ AwaitTransmit
  PROVE  ThreadsInv'
<1> USE TransmissionAssumption
    DEF ThreadsInv, TypeOK, RequestInv, TransmitInv, WakeUpIsDue, Where, Ended,
        fileVars, sharedVars, transmitVars
<1>1. CASE ReceiveFails
  BY <1>1 DEF ReceiveFails
<1>2. CASE Reject
  <2>1. queue' \in Seq(Message)
    BY <1>2, ErrorIsMessage, PushType DEF Reject
  <2> QED
    BY <1>2, <2>1 DEF Reject
<1>3. CASE Accept
  <2>1. PICK n \in 0 .. MaxFiles : files' = n
    BY <1>3 DEF Accept
  <2>2. file = 0 /\ file' = 0 /\ buffer = None /\ ~tdone /\ ~failed
    BY <1>3 DEF Accept
  <2> QED
    BY <1>3, <2>1, <2>2 DEF Accept
<1>4. CASE OpenFileThrows
  BY <1>4 DEF OpenFileThrows
<1>5. CASE FilesDone
  BY <1>5 DEF FilesDone
<1>6. CASE Notify
  BY <1>6 DEF Notify
<1>7. CASE Clear
  BY <1>7, EmptySeq DEF Clear
<1>8. CASE SetRequestDone
  BY <1>8 DEF SetRequestDone
<1>9. CASE AwaitTransmit
  BY <1>9 DEF AwaitTransmit
<1> QED
  BY <1>1, <1>2, <1>3, <1>4, <1>5, <1>6, <1>7, <1>8, <1>9

\* What processRequest does with the files and their chunks.
LEMMA FilesThreads ==
  ASSUME ThreadsInv,
         \/ OpenFile \/ OpenFileFails \/ ExploreFails \/ NextChunk \/ PushChunk
         \/ ChunkFails \/ ChunksDone \/ PushTrainingError
  PROVE  ThreadsInv'
<1> USE TransmissionAssumption
    DEF ThreadsInv, TypeOK, RequestInv, TransmitInv, WakeUpIsDue, Where, Ended,
        fileVars, sharedVars, transmitVars, Files, Chunks
<1>1. CASE OpenFile
  <2>1. queue' \in Seq(Message) /\ chunks' \in 0 .. MaxChunks
    BY <1>1, OpenFileMessage, PushType
  <2> QED
    BY <1>1, <2>1 DEF OpenFile, PushThen
<1>2. CASE OpenFileFails
  <2>1. queue' \in Seq(Message)
    BY <1>2, ErrorIsMessage, PushType DEF OpenFileFails, PushThen
  <2> QED
    BY <1>2, <2>1 DEF OpenFileFails, PushThen
<1>3. CASE ExploreFails
  <2>1. queue' \in Seq(Message)
    BY <1>3, ErrorIsMessage, PushType DEF ExploreFails, PushThen
  <2> QED
    BY <1>3, <2>1 DEF ExploreFails, PushThen
<1>4. CASE NextChunk
  <2>1. /\ queue' \in Seq(Message)
        /\ chunk' \in 1 .. MaxChunks /\ chunks' \in 0 .. MaxChunks
        /\ chunk' + chunks' <= MaxChunks
    BY <1>4, NextChunkMessage, PushType
  <2>2. /\ rpc = "chunks" /\ rpc' = "data"
        /\ UNCHANGED <<mode, after, files, file, errors, requestDone, mutex,
                       transmitVars, link>>
    BY <1>4 DEF NextChunk
  <2>3. TypeOK'
    BY <2>1, <2>2
  <2>4. RequestInv'
    <3>1. file > 0 /\ file + files <= MaxFiles
      BY <2>2
    <3>2. file' + files' <= MaxFiles /\ file' > 0
      BY ONLY <2>2, <3>1
    <3>3. chunk' + chunks' <= MaxChunks /\ chunk' > 0
      BY ONLY <2>1
    <3> QED
      BY ONLY <2>2, <3>2, <3>3 DEF RequestInv, Where
  <2>5. TransmitInv'
    BY <2>2
  <2> QED
    BY <2>3, <2>4, <2>5
<1>5. CASE PushChunk
  <2>1. ChunkData(file, chunk) \in Message
    BY <1>5, ChunkMessage DEF PushChunk
  <2>2. queue' \in Seq(Message)
    BY <1>5, <2>1, PushType DEF PushChunk, PushThen
  <2> QED
    BY <1>5, <2>2 DEF PushChunk, PushThen
<1>6. CASE ChunkFails \/ ChunksDone
  BY <1>6 DEF ChunkFails, ChunksDone
<1>7. CASE PushTrainingError
  <2>1. queue' \in Seq(Message)
    BY <1>7, ErrorIsMessage, PushType DEF PushTrainingError, PushThen
  <2> QED
    BY <1>7, <2>1 DEF PushTrainingError, PushThen
<1> QED
  BY <1>1, <1>2, <1>3, <1>4, <1>5, <1>6, <1>7

LEMMA TransmitThreads ==
  ASSUME ThreadsInv, Transmit \/ SpuriousWake \/ LinkDown
  PROVE  ThreadsInv'
<1> USE DEF ThreadsInv, TypeOK, RequestInv, TransmitInv, WakeUpIsDue, Where, Ended,
            fileVars, requestVars, sharedVars, transmitVars, At
<1>1. CASE Start \/ Lock \/ Test \/ Block \/ SpuriousWake
  BY <1>1 DEF Start, Lock, Test, Block, SpuriousWake
<1>2. CASE Pop
  <2>1. CASE queue # <<>> /\ buffer' = Head(queue) /\ queue' = Tail(queue)
    <3>1. Head(queue) \in Message /\ Tail(queue) \in Seq(Message)
      BY <2>1, HeadTailProperties
    <3> QED
      BY <1>2, <2>1, <3>1 DEF Pop
  <2>2. CASE queue = <<>> /\ UNCHANGED <<buffer, queue>>
    BY <1>2, <2>2 DEF Pop
  <2> QED
    BY <1>2, <2>1, <2>2 DEF Pop
<1>3. CASE Check
  BY <1>3 DEF Check
<1>4. CASE Send
  <2>1. sent' \in Seq(Message)
    BY <1>4, AppendProperties DEF Send
  <2> QED
    BY <1>4, <2>1 DEF Send
<1>5. CASE SendFails \/ LinkDown
  <2>1. CASE SendFails
    BY <2>1 DEF SendFails
  <2>2. CASE LinkDown
    BY <2>2 DEF LinkDown
  <2> QED
    BY <1>5, <2>1, <2>2
<1> QED
  BY <1>1, <1>2, <1>3, <1>4, <1>5 DEF Transmit

LEMMA NextThreads ==
  ASSUME ThreadsInv, [Next]_vars
  PROVE  ThreadsInv'
<1>1. CASE UNCHANGED vars
  <2>1. TypeOK'
    BY <1>1 DEF ThreadsInv, TypeOK, Ended, vars, requestVars, fileVars, sharedVars,
                transmitVars
  <2>2. RequestInv' /\ TransmitInv'
    BY <1>1 DEF ThreadsInv, RequestInv, TransmitInv, WakeUpIsDue, Where, vars,
                requestVars, fileVars, sharedVars, transmitVars
  <2> QED
    BY <2>1, <2>2 DEF ThreadsInv
<1> QED
  BY <1>1, RequestThreads, FilesThreads, TransmitThreads DEF Next, ProcessRequest

LEMMA Threads == Spec => []ThreadsInv
<1>1. ThreadsInv /\ [Next]_vars => ThreadsInv'
  BY NextThreads
<1> QED
  BY <1>1, InitThreads, PTL DEF Spec

\* Every variable of a request keeps its type: the counts of files and chunks stay
\* in their bounds, and every message is one that a client can be sent.
THEOREM TransmissionTyping == Spec => []TypeOK
<1>1. ThreadsInv => TypeOK
  BY DEF ThreadsInv
<1> QED
  BY <1>1, Threads, PTL

\* The last notification of a request is never lost: transmit sleeps on requestDone
\* only until that notification, which is made after it fell asleep.
THEOREM LastWakeUp == Spec => []WakeUpIsDue
<1>1. ThreadsInv => WakeUpIsDue
  BY DEF ThreadsInv, TransmitInv
<1> QED
  BY <1>1, Threads, PTL

-------------------------------------------------------------------------------
(* Refinement of MessageStream                                             *)

LEMMA InitRefines == Init => Stream!Init
BY DEF Init, Stream!Init, StreamState

\* A push is an offer.
LEMMA PushRefines ==
  ASSUME ThreadsInv, NEW m \in Message, queue' = Append(queue, m),
         UNCHANGED <<buffer, sent, failed>>, rpc \notin Ended, rpc' \notin Ended
  PROVE  Stream!Next
<1>1. StreamState \in {"open", "broken"} /\ StreamState' = StreamState
  BY DEF StreamState, Ended
<1> QED
  BY <1>1 DEF Stream!Next, Stream!Offer

LEMMA RequestRefines ==
  ASSUME ThreadsInv, ProcessRequest
  PROVE  [Stream!Next]_(Stream!vars)
<1> USE DEF Ended
<1>1. CASE OpenFile
  <2>1. /\ FileInitialMessage(file', files' = 0, chunks' = 0) \in Message
        /\ queue' = Append(queue, FileInitialMessage(file', files' = 0, chunks' = 0))
    BY <1>1, OpenFileMessage
  <2>2. UNCHANGED <<buffer, sent, failed>> /\ rpc \notin Ended /\ rpc' \notin Ended
    BY <1>1 DEF OpenFile, PushThen, transmitVars
  <2> QED
    BY <2>1, <2>2, PushRefines
<1>2. CASE OpenFileFails \/ ExploreFails \/ PushTrainingError
  <2>1. ErrorMessage \in Message /\ queue' = Append(queue, ErrorMessage)
    BY <1>2, ErrorIsMessage DEF OpenFileFails, ExploreFails, PushTrainingError, PushThen
  <2>2. UNCHANGED <<buffer, sent, failed>> /\ rpc \notin Ended /\ rpc' \notin Ended
    BY <1>2 DEF OpenFileFails, ExploreFails, PushTrainingError, PushThen, transmitVars
  <2> QED
    BY <2>1, <2>2, PushRefines
<1>3. CASE NextChunk
  <2>1. /\ ChunkHeader(file, chunk', chunks' = 0) \in Message
        /\ queue' = Append(queue, ChunkHeader(file, chunk', chunks' = 0))
    BY <1>3, NextChunkMessage
  <2>2. UNCHANGED <<buffer, sent, failed>> /\ rpc \notin Ended /\ rpc' \notin Ended
    BY <1>3 DEF NextChunk, transmitVars
  <2> QED
    BY <2>1, <2>2, PushRefines
<1>4. CASE PushChunk
  <2>1. ChunkData(file, chunk) \in Message /\ queue' = Append(queue, ChunkData(file, chunk))
    BY <1>4, ChunkMessage
    DEF PushChunk, PushThen, Files, Chunks, ThreadsInv, TypeOK, RequestInv, Where
  <2>2. UNCHANGED <<buffer, sent, failed>> /\ rpc \notin Ended /\ rpc' \notin Ended
    BY <1>4 DEF PushChunk, PushThen, transmitVars
  <2> QED
    BY <2>1, <2>2, PushRefines
<1>5. CASE Clear
  BY <1>5 DEF Clear, transmitVars, StreamState, Stream!Next, Stream!Discard
<1>6. CASE ReceiveFails \/ OpenFileThrows
  <2>1. UNCHANGED <<queue, buffer, sent, failed>> /\ rpc \in {"receive", "files"}
        /\ rpc' \in {"rejected", "threw"}
    BY <1>6 DEF ReceiveFails, OpenFileThrows, sharedVars, transmitVars
  <2>2. CASE failed
    BY <2>1, <2>2 DEF StreamState, Stream!vars
  <2>3. CASE ~failed
    BY <2>1, <2>3 DEF StreamState, Stream!Next, Stream!Abandon
  <2> QED
    BY <2>2, <2>3
<1>7. CASE Reject
  <2>1. ~failed
    BY <1>7 DEF Reject, ThreadsInv, TypeOK, TransmitInv
  <2> QED
    BY <1>7, <2>1, ErrorIsMessage
    DEF Reject, transmitVars, StreamState, Stream!Next, Stream!Abandon
<1>8. CASE AwaitTransmit
  <2>1. UNCHANGED <<queue, buffer, sent, failed>> /\ rpc = "wait" /\ rpc' = "returned"
        /\ tpc = "ended"
    BY <1>8 DEF AwaitTransmit, sharedVars, transmitVars
  <2>2. CASE failed
    BY <2>1, <2>2 DEF StreamState, Stream!vars
  <2>3. CASE ~failed
    <3>1. queue = <<>> /\ buffer = None
      BY <2>1, <2>3 DEF ThreadsInv, TransmitInv
    <3> QED
      BY <2>1, <2>3, <3>1 DEF StreamState, Stream!Next, Stream!Close
  <2> QED
    BY <2>2, <2>3
<1>9. CASE \/ Accept \/ FilesDone \/ ChunkFails \/ ChunksDone \/ Notify
           \/ SetRequestDone
  <2>1. UNCHANGED <<queue, buffer, sent, failed>> /\ rpc \notin Ended /\ rpc' \notin Ended
    BY <1>9 DEF Accept, FilesDone, ChunkFails, ChunksDone, Notify, SetRequestDone,
                sharedVars, transmitVars, ThreadsInv, RequestInv
  <2> QED
    BY <2>1 DEF StreamState, Stream!vars
<1> QED
  BY <1>1, <1>2, <1>3, <1>4, <1>5, <1>6, <1>7, <1>8, <1>9 DEF ProcessRequest

LEMMA TransmitRefines ==
  ASSUME ThreadsInv, Transmit \/ SpuriousWake \/ LinkDown \/ UNCHANGED vars
  PROVE  [Stream!Next]_(Stream!vars)
<1>1. CASE Pop
  <2>1. /\ tpc = "pop" /\ buffer = None /\ ~failed /\ rpc \notin Ended
        /\ UNCHANGED <<sent, failed, rpc>>
    BY <1>1 DEF Pop, At, Ended, ThreadsInv, TypeOK, TransmitInv, requestVars
  <2>2. StreamState = "open" /\ StreamState' = "open"
    BY <2>1 DEF StreamState, Ended
  <2>3. CASE queue # <<>> /\ buffer' = Head(queue) /\ queue' = Tail(queue)
    BY <2>1, <2>2, <2>3 DEF Stream!Next, Stream!Take
  <2>4. CASE queue = <<>> /\ UNCHANGED <<buffer, queue>>
    BY <2>1, <2>2, <2>4 DEF Stream!vars
  <2> QED
    BY <1>1, <2>3, <2>4 DEF Pop
<1>2. CASE Send \/ SendFails
  <2>1. /\ tpc = "send" /\ buffer # None /\ ~failed /\ rpc \notin Ended
        /\ UNCHANGED <<queue, rpc>>
    BY <1>2 DEF Send, SendFails, At, Ended, ThreadsInv, TypeOK, TransmitInv,
                requestVars, sharedVars
  <2>2. CASE Send
    BY <2>1, <2>2 DEF Send, StreamState, Ended, Stream!Next, Stream!Deliver
  <2>3. CASE SendFails
    BY <2>1, <2>3 DEF SendFails, StreamState, Ended, Stream!Next, Stream!Break
  <2> QED
    BY <1>2, <2>2, <2>3
<1>3. CASE \/ Start \/ Lock \/ Test \/ Block \/ Check \/ SpuriousWake \/ LinkDown
           \/ UNCHANGED vars
  <2>1. UNCHANGED <<queue, buffer, sent, failed, rpc>>
    BY <1>3 DEF Start, Lock, Test, Block, Check, SpuriousWake, LinkDown, vars,
                requestVars, sharedVars, transmitVars
  <2> QED
    BY <2>1 DEF StreamState, Stream!vars
<1> QED
  BY <1>1, <1>2, <1>3 DEF Transmit

\* A request's two threads implement an ordered stream: no message is lost or
\* repeated, and a request that returns has sent all of them, or a send failed.
THEOREM TransmissionRefinement == Spec => ImplementsMessageStream
<1>1. Init => Stream!Init
  BY InitRefines
<1>2. ThreadsInv /\ [Next]_vars => [Stream!Next]_(Stream!vars)
  BY RequestRefines, TransmitRefines DEF Next
<1> QED
  BY <1>1, <1>2, Threads, PTL DEF Spec, ImplementsMessageStream, Stream!Spec

-------------------------------------------------------------------------------
(* The shape of the stream                                                 *)

\* One message more.
LEMMA ShapedAppend ==
  ASSUME NEW s \in Seq(Message), NEW m \in Message, Shaped(s),
         s = <<>> => m.type \in {"file", "error"},
         s # <<>> => Follows(s[Len(s)], m),
         m.type = "file" => \A i \in 1 .. Len(s) : ~LastFile(s[i])
  PROVE  Shaped(Append(s, m))
<1> DEFINE t == Append(s, m)
           n == Len(s)
<1>1. /\ n \in Nat /\ Len(t) = n + 1 /\ t[n + 1] = m
      /\ \A i \in 1 .. n : t[i] = s[i]
      /\ n = 0 <=> s = <<>>
  BY AppendProperties, LenProperties, EmptySeq
<1> HIDE DEF t
<1>2. ASSUME NEW i \in 1 .. Len(t) - 1
      PROVE  Follows(t[i], t[i + 1])
  <2>1. CASE i = n
    <3>1. t[i] = s[Len(s)] /\ t[i + 1] = m /\ s # <<>>
      BY <1>1, <1>2, <2>1
    <3> QED
      BY <3>1
  <2>2. CASE i # n
    <3>1. /\ i \in 1 .. Len(s) - 1
          /\ t[i] = s[i] /\ t[i + 1] = s[i + 1]
      BY <1>1, <1>2, <2>2
    <3> QED
      BY <3>1 DEF Shaped
  <2> QED
    BY <2>1, <2>2
<1>3. ASSUME NEW i \in 1 .. Len(t), NEW j \in 1 .. Len(t), i < j, t[j].type = "file"
      PROVE  ~LastFile(t[i])
  <2>1. i \in 1 .. Len(s) /\ t[i] = s[i]
    BY <1>1, <1>3
  <2>2. CASE j = n + 1
    BY <1>1, <1>3, <2>1, <2>2
  <2>3. CASE j # n + 1
    <3>1. j \in 1 .. Len(s) /\ t[j] = s[j]
      BY <1>1, <1>3, <2>3
    <3> QED
      BY <1>3, <2>1, <3>1 DEF Shaped
  <2> QED
    BY <2>2, <2>3
<1>4. t[1].type \in {"file", "error"}
  <2>1. CASE n = 0
    BY <1>1, <2>1
  <2>2. CASE n > 0
    BY <1>1, <2>2 DEF Shaped
  <2> QED
    BY <1>1, <2>1, <2>2
<1>5. Shaped(t)
  BY <1>2, <1>3, <1>4 DEF Shaped
<1> QED
  BY <1>5 DEF t

\* What has the shape has it as far as it has come.
LEMMA ShapedPrefix ==
  ASSUME NEW s \in Seq(Message), NEW q \in Seq(Message), Shaped(s \o q)
  PROVE  Shaped(s)
<1> DEFINE t == s \o q
<1>1. /\ Len(s) \in Nat /\ Len(t) \in Nat /\ Len(s) <= Len(t)
      /\ \A i \in 1 .. Len(s) : t[i] = s[i]
  BY ConcatProperties, LenProperties
<1>2. Shaped(t)
  OBVIOUS
<1> HIDE DEF t
<1>3. ASSUME NEW i \in 1 .. Len(s) - 1
      PROVE  Follows(s[i], s[i + 1])
  <2>1. i \in 1 .. Len(t) - 1 /\ t[i] = s[i] /\ t[i + 1] = s[i + 1]
    BY <1>1, <1>3
  <2> QED
    BY <1>2, <2>1 DEF Shaped
<1>4. ASSUME NEW i \in 1 .. Len(s), NEW j \in 1 .. Len(s), i < j, s[j].type = "file"
      PROVE  ~LastFile(s[i])
  <2>1. i \in 1 .. Len(t) /\ j \in 1 .. Len(t) /\ t[i] = s[i] /\ t[j] = s[j]
    BY <1>1, <1>4
  <2> QED
    BY <1>2, <1>4, <2>1 DEF Shaped
<1>5. s # <<>> => s[1].type \in {"file", "error"}
  <2> SUFFICES ASSUME s # <<>>
               PROVE  s[1].type \in {"file", "error"}
    OBVIOUS
  <2>1. Len(s) > 0 /\ t[1] = s[1] /\ t # <<>>
    BY <1>1, EmptySeq
  <2> QED
    BY <1>2, <2>1 DEF Shaped
<1> QED
  BY <1>3, <1>4, <1>5 DEF Shaped

LEMMA MadeType ==
  ASSUME TypeOK
  PROVE  /\ sent \in Seq(Message) /\ queue \in Seq(Message) /\ InHand \in Seq(Message)
         /\ sent \o InHand \in Seq(Message)
         /\ Made \in Seq(Message)
<1>1. sent \in Seq(Message) /\ queue \in Seq(Message)
  BY DEF TypeOK
<1>2. InHand \in Seq(Message)
  BY DEF TypeOK, InHand
<1> QED
  BY <1>1, <1>2, ConcatProperties DEF Made

\* A push makes one message more.
LEMMA PushMade ==
  ASSUME TypeOK, NEW m \in Message,
         queue' = Append(queue, m), UNCHANGED <<buffer, sent>>
  PROVE  Made' = Append(Made, m)
<1>1. InHand' = InHand
  BY DEF InHand
<1>2. Made' = sent \o InHand \o Append(queue, m)
  BY <1>1 DEF Made
<1>3. sent \in Seq(Message) /\ InHand \in Seq(Message) /\ queue \in Seq(Message)
  BY MadeType
<1>4. sent \o InHand \o Append(queue, m) = Append(sent \o InHand \o queue, m)
  BY <1>3, AppendToPushed
<1> QED
  BY <1>2, <1>4 DEF Made

\* transmit changes nothing about the messages that were made, as long as no send
\* fails.
LEMMA TransmitMade ==
  ASSUME ThreadsInv, Transmit \/ SpuriousWake \/ LinkDown, ~SendFails
  PROVE  Made' = Made
<1>1. /\ sent \in Seq(Message) /\ queue \in Seq(Message)
      /\ buffer \in Message \union {None} /\ None \notin Message
  BY MessageAssumption DEF ThreadsInv, TypeOK
<1>2. CASE Start \/ Lock \/ Test \/ Block \/ Check \/ SpuriousWake \/ LinkDown
  BY <1>2 DEF Start, Lock, Test, Block, Check, SpuriousWake, LinkDown, Made, InHand,
              sharedVars, transmitVars
<1>3. CASE Pop
  <2>1. buffer = None /\ sent' = sent
    BY <1>3 DEF Pop, At, ThreadsInv, TransmitInv
  <2>2. CASE queue # <<>> /\ buffer' = Head(queue) /\ queue' = Tail(queue)
    <3>1. Head(queue) \in Message
      BY <1>1, <2>2, HeadTailProperties
    <3>2. Made = sent \o <<>> \o queue /\ Made' = sent \o <<Head(queue)>> \o Tail(queue)
      BY <1>1, <2>1, <2>2, <3>1 DEF Made, InHand
    <3> QED
      BY <1>1, <2>2, <3>2, HeadOfPushed
  <2>3. CASE queue = <<>> /\ UNCHANGED <<buffer, queue>>
    BY <2>1, <2>3 DEF Made, InHand
  <2> QED
    BY <1>3, <2>2, <2>3 DEF Pop
<1>4. CASE Send
  <2>1. buffer # None /\ buffer' = None /\ sent' = Append(sent, buffer) /\ queue' = queue
    BY <1>4 DEF Send, At, ThreadsInv, TransmitInv, sharedVars
  <2>2. Made = sent \o <<buffer>> \o queue /\ Made' = Append(sent, buffer) \o <<>> \o queue
    BY <2>1 DEF Made, InHand
  <2> QED
    BY <1>1, <2>1, <2>2, WrittenOfPushed
<1> QED
  BY <1>2, <1>3, <1>4 DEF Transmit

LEMMA InitStream == Init => StreamInv
<1> SUFFICES ASSUME Init
             PROVE  StreamInv
  OBVIOUS
<1>1. sent = <<>> /\ Made = <<>> /\ rpc = "receive"
  BY DEF Init, Made, InHand
<1>2. Shaped(<<>>)
  BY DEF Shaped
<1>3. DueInv
  BY <1>1 DEF DueInv, Where
<1> QED
  BY <1>1, <1>2, <1>3 DEF StreamInv

\* A message that may follow, and is no file after the last one, keeps the shape.
LEMMA PushStream ==
  ASSUME ThreadsInv, StreamInv, ~failed, NEW m \in Message,
         queue' = Append(queue, m), UNCHANGED <<mode, buffer, sent, failed>>,
         Made = <<>> => m.type \in {"file", "error"},
         Made # <<>> => Follows(Made[Len(Made)], m),
         m.type = "file" => \A i \in 1 .. Len(Made) : ~LastFile(Made[i])
  PROVE  /\ Shaped(sent)' /\ Shaped(Made)'
         /\ Made' # <<>> /\ Made'[Len(Made')] = m
         /\ (\E i \in 1 .. Len(Made') : LastFile(Made'[i])) =>
              LastFile(m) \/ (\E i \in 1 .. Len(Made) : LastFile(Made[i]))
<1>1. Made \in Seq(Message) /\ Made' = Append(Made, m)
  BY MadeType, PushMade DEF ThreadsInv
<1>2. Shaped(sent) /\ Shaped(Made)
  BY DEF StreamInv
<1>3. Shaped(Append(Made, m))
  BY <1>1, <1>2, ShapedAppend
<1>4. Shaped(sent)' /\ Shaped(Made)'
  BY <1>1, <1>2, <1>3 DEF Shaped, Follows, LastFile
<1>5. /\ Made' # <<>> /\ Made'[Len(Made')] = m
      /\ Len(Made) \in Nat /\ Len(Made') = Len(Made) + 1
      /\ \A i \in 1 .. Len(Made) : Made'[i] = Made[i]
  BY <1>1, AppendProperties, LenProperties
<1>6. ASSUME NEW i \in 1 .. Len(Made'), LastFile(Made'[i])
      PROVE  LastFile(m) \/ (\E k \in 1 .. Len(Made) : LastFile(Made[k]))
  <2>1. i \in 1 .. Len(Made) \/ i = Len(Made')
    BY <1>5
  <2> QED
    BY <1>5, <1>6, <2>1
<1> QED
  BY <1>4, <1>5, <1>6

\* The file messages and the errors, which may come after anything that is
\* complete; OpenFile is the only action that announces a last file, and only when
\* there is no other.
LEMMA FilesStream ==
  ASSUME ThreadsInv, StreamInv, ~failed,
         Reject \/ OpenFile \/ OpenFileFails \/ ExploreFails \/ PushTrainingError
  PROVE  StreamInv'
<1>1. ErrorMessage \in Message /\ ErrorMessage.type = "error"
  BY ErrorIsMessage
<1>2. DueInv
  BY DEF StreamInv
<1>3. CASE OpenFile
  <2> DEFINE m == FileInitialMessage(file', files' = 0, chunks' = 0)
  <2>1. /\ m \in Message /\ queue' = Append(queue, m)
        /\ m.type = "file" /\ m.file = file'
        /\ m.last = (files' = 0) /\ m.empty = (chunks' = 0) /\ chunk' = 0
    BY <1>3, OpenFileMessage, FileMessage
  <2>2. /\ UNCHANGED <<mode, buffer, sent, failed>>
        /\ Where = "files" /\ files > 0 /\ Where' = "chunks"
    BY <1>3 DEF OpenFile, PushThen, transmitVars, Where
  <2> HIDE DEF m
  <2>3. \A i \in 1 .. Len(Made) : ~LastFile(Made[i])
    BY <1>2, <2>2 DEF DueInv
  <2>4. Made # <<>> => Follows(Made[Len(Made)], m)
    BY <1>2, <2>1, <2>2 DEF DueInv, Follows
  <2>5. /\ Shaped(sent)' /\ Shaped(Made)'
        /\ Made' # <<>> /\ Made'[Len(Made')] = m
        /\ (\E i \in 1 .. Len(Made') : LastFile(Made'[i])) => LastFile(m)
    BY <2>1, <2>2, <2>3, <2>4, PushStream
  <2>6. LastFile(m) => files' = 0
    BY <2>1 DEF LastFile
  <2>7. chunks' > 0 => ~m.empty
    <3>1. chunks' \in 0 .. MaxChunks
      BY <1>3, OpenFileMessage
    <3>2. chunks' > 0 => ~(chunks' = 0)
      BY <3>1
    <3> QED
      BY <2>1, <3>2
  <2>8. DueInv'
    BY <2>1, <2>2, <2>5, <2>6, <2>7 DEF DueInv
  <2> QED
    BY <2>5, <2>8 DEF StreamInv
<1>4. CASE Reject \/ OpenFileFails \/ ExploreFails \/ PushTrainingError
  <2>1. /\ queue' = Append(queue, ErrorMessage) /\ UNCHANGED <<mode, buffer, sent, failed>>
        /\ Where \in {"receive", "files", "error1", "error2"}
        /\ Where' \in {"rejected", "files", "error2", "finish"}
        /\ files = 0 => files' = 0
    BY <1>4
    DEF Reject, OpenFileFails, ExploreFails, PushTrainingError, PushThen, fileVars,
        transmitVars, Where, ThreadsInv, TypeOK
  <2>2. Made # <<>> => Follows(Made[Len(Made)], ErrorMessage)
    BY <1>1, <1>2, <2>1 DEF DueInv, Follows
  <2>3. /\ Shaped(sent)' /\ Shaped(Made)'
        /\ Made' # <<>> /\ Made'[Len(Made')] = ErrorMessage
        /\ (\E i \in 1 .. Len(Made') : LastFile(Made'[i])) =>
             \E i \in 1 .. Len(Made) : LastFile(Made[i])
    BY <1>1, <2>1, <2>2, PushStream DEF LastFile
  <2>4. DueInv'
    BY <1>1, <1>2, <2>1, <2>3 DEF DueInv
  <2> QED
    BY <2>3, <2>4 DEF StreamInv
<1> QED
  BY <1>3, <1>4

\* The chunks, each a header and its data.
LEMMA ChunksStream ==
  ASSUME ThreadsInv, StreamInv, ~failed, NextChunk \/ PushChunk
  PROVE  StreamInv'
<1>1. DueInv
  BY DEF StreamInv
<1>2. CASE NextChunk
  <2> DEFINE m == ChunkHeader(file, chunk', chunks' = 0)
  <2>1. /\ m \in Message /\ queue' = Append(queue, m)
        /\ m.type = "header" /\ m.file = file /\ m.chunk = chunk'
    BY <1>2, NextChunkMessage, HeaderMessage
  <2>2. /\ UNCHANGED <<mode, buffer, sent, failed, files, file>> /\ chunk' = chunk + 1
        /\ Where = "chunks" /\ chunks > 0 /\ Where' = "data"
    BY <1>2 DEF NextChunk, transmitVars, Where
  <2> HIDE DEF m
  <2>3. Made # <<>> /\ Follows(Made[Len(Made)], m)
    BY <1>1, <2>1, <2>2 DEF DueInv, Follows
  <2>4. /\ Shaped(sent)' /\ Shaped(Made)'
        /\ Made' # <<>> /\ Made'[Len(Made')] = m
        /\ (\E i \in 1 .. Len(Made') : LastFile(Made'[i])) =>
             \E i \in 1 .. Len(Made) : LastFile(Made[i])
    BY <2>1, <2>2, <2>3, PushStream DEF LastFile
  <2>5. DueInv'
    BY <1>1, <2>1, <2>2, <2>4 DEF DueInv
  <2> QED
    BY <2>4, <2>5 DEF StreamInv
<1>3. CASE PushChunk
  <2> DEFINE m == ChunkData(file, chunk)
  <2>1. /\ m \in Message /\ queue' = Append(queue, m)
        /\ m.type = "chunk" /\ m.file = file /\ m.chunk = chunk
    BY <1>3, ChunkMessage
    DEF PushChunk, PushThen, Files, Chunks, ThreadsInv, TypeOK, RequestInv, Where
  <2>2. /\ UNCHANGED <<mode, buffer, sent, failed, files, file, chunk>>
        /\ Where = "data" /\ Where' = "chunks"
    BY <1>3 DEF PushChunk, PushThen, fileVars, transmitVars, Where
  <2>3. Made # <<>> /\ Follows(Made[Len(Made)], m)
    BY <1>1, <2>1, <2>2 DEF DueInv, Follows
  <2> HIDE DEF m
  <2>4. /\ Shaped(sent)' /\ Shaped(Made)'
        /\ Made' # <<>> /\ Made'[Len(Made')] = m
        /\ (\E i \in 1 .. Len(Made') : LastFile(Made'[i])) =>
             \E i \in 1 .. Len(Made) : LastFile(Made[i])
    BY <2>1, <2>2, <2>3, PushStream DEF LastFile
  <2>5. DueInv'
    BY <1>1, <2>1, <2>2, <2>4 DEF DueInv
  <2> QED
    BY <2>4, <2>5 DEF StreamInv
<1> QED
  BY <1>2, <1>3

\* A step that makes no message, and leaves what is due.
LEMMA OtherStream ==
  ASSUME ThreadsInv, StreamInv, ~failed,
         \/ ReceiveFails \/ Accept \/ OpenFileThrows \/ FilesDone \/ ChunkFails
         \/ ChunksDone \/ Notify \/ SetRequestDone \/ AwaitTransmit
  PROVE  StreamInv'
<1>1. DueInv /\ Shaped(sent) /\ Shaped(Made)
  BY DEF StreamInv
<1>2. UNCHANGED <<mode, queue, buffer, sent, failed, file, chunk>>
  BY DEF ReceiveFails, Accept, OpenFileThrows, FilesDone, ChunkFails, ChunksDone,
         Notify, SetRequestDone, AwaitTransmit, fileVars, sharedVars, transmitVars
<1>3. Made' = Made
  BY <1>2 DEF Made, InHand
<1>4. Shaped(sent)' /\ Shaped(Made)'
  BY <1>1, <1>2, <1>3 DEF Shaped, Follows, LastFile
<1>5. CASE Accept
  <2>1. Where' = "files" /\ sent = <<>> /\ queue = <<>> /\ buffer = None
    BY <1>5 DEF Accept, Where, ThreadsInv, TransmitInv
  <2>2. Made = <<>>
    BY <2>1 DEF Made, InHand
  <2>3. DueInv'
    BY <1>3, <2>1, <2>2 DEF DueInv
  <2> QED
    BY <1>4, <2>3 DEF StreamInv
<1>6. CASE ChunkFails \/ ChunksDone
  <2>1. files' = files /\ Where = "chunks" /\ Where' = "files"
    BY <1>6 DEF ChunkFails, ChunksDone, Where, fileVars
  <2>2. DueInv'
    BY <1>1, <1>3, <2>1 DEF DueInv
  <2> QED
    BY <1>4, <2>2 DEF StreamInv
<1>7. CASE Notify
  <2>1. UNCHANGED <<mode, files, chunks, file, chunk>> /\ Where' = Where
    BY <1>7 DEF Notify, Where, fileVars, ThreadsInv, RequestInv
  <2>2. DueInv'
    BY <1>1, <1>3, <2>1 DEF DueInv
  <2> QED
    BY <1>4, <2>2 DEF StreamInv
<1>8. CASE ReceiveFails \/ OpenFileThrows \/ FilesDone \/ SetRequestDone \/ AwaitTransmit
  <2>1. /\ files' = files /\ Where \notin {"data", "error1"}
        /\ Where' \in {"rejected", "threw", "clear", "finish", "wait", "returned"}
    BY <1>8 DEF ReceiveFails, OpenFileThrows, FilesDone, SetRequestDone, AwaitTransmit,
                Where, fileVars
  <2>2. DueInv'
    BY <1>1, <1>3, <2>1 DEF DueInv
  <2> QED
    BY <1>4, <2>2 DEF StreamInv
<1> QED
  BY <1>5, <1>6, <1>7, <1>8

\* Clear throws the messages away that transmit has not taken: what is left ends
\* anywhere, maybe with a header, and an error follows.
LEMMA ClearStream ==
  ASSUME ThreadsInv, StreamInv, ~failed, Clear
  PROVE  StreamInv'
<1>1. DueInv /\ Shaped(sent) /\ Shaped(Made)
  BY DEF StreamInv
<1>2. /\ sent \o InHand \in Seq(Message) /\ queue \in Seq(Message)
      /\ Made = (sent \o InHand) \o queue
  BY MadeType DEF ThreadsInv, Made
<1>3. UNCHANGED <<mode, buffer, sent, failed, files>> /\ queue' = <<>>
  BY DEF Clear, fileVars, transmitVars
<1>4. Made' = sent \o InHand
  <2>1. InHand' = InHand
    BY <1>3 DEF InHand
  <2> QED
    BY <1>2, <1>3, <2>1, ConcatEmptySeq DEF Made
<1>5. Shaped(sent \o InHand)
  BY <1>1, <1>2, ShapedPrefix
<1>6. Shaped(sent)' /\ Shaped(Made)'
  BY <1>1, <1>3, <1>4, <1>5 DEF Shaped, Follows, LastFile
<1>7. Where = "clear" /\ Where' = "error1" /\ mode' = "train"
  BY <1>3 DEF Clear, Where, ThreadsInv, RequestInv
<1>8. (\E i \in 1 .. Len(Made') : LastFile(Made'[i])) => files' = 0
  <2>1. /\ Len(Made') \in Nat /\ Len(Made) \in Nat /\ Len(Made') <= Len(Made)
        /\ \A i \in 1 .. Len(Made') : Made'[i] = Made[i]
    BY <1>2, <1>4, ConcatProperties, LenProperties
  <2> QED
    BY <1>1, <1>3, <2>1 DEF DueInv
<1>9. DueInv'
  BY <1>7, <1>8 DEF DueInv
<1> QED
  BY <1>6, <1>9 DEF StreamInv

\* What transmit has sent is the beginning of what was made.
LEMMA TransmitStream ==
  ASSUME ThreadsInv, StreamInv, ~failed, Transmit \/ SpuriousWake \/ LinkDown
  PROVE  StreamInv'
<1>1. DueInv /\ Shaped(sent) /\ Shaped(Made)
  BY DEF StreamInv
<1>2. UNCHANGED <<mode, rpc, after, files, file, chunks, chunk>>
  BY DEF Transmit, Start, Lock, Test, Block, Pop, Check, Send, SendFails, SpuriousWake,
         LinkDown, requestVars, fileVars
<1>3. CASE SendFails
  <2>1. sent' = sent /\ failed'
    BY <1>3 DEF SendFails
  <2>2. Shaped(sent)'
    BY <1>1, <1>2, <2>1 DEF Shaped, Follows, LastFile
  <2> QED
    BY <2>1, <2>2 DEF StreamInv
<1>4. CASE ~SendFails
  <2>1. Made' = Made
    BY <1>4, TransmitMade
  <2>2. ThreadsInv'
    BY TransmitThreads
  <2>3. sent' \in Seq(Message) /\ InHand' \in Seq(Message) /\ queue' \in Seq(Message)
    <3>1. sent' \in Seq(Message) /\ queue' \in Seq(Message)
      BY <2>2 DEF ThreadsInv, TypeOK
    <3>2. buffer' = None \/ buffer' \in Message
      BY <2>2 DEF ThreadsInv, TypeOK
    <3>3. InHand' \in Seq(Message)
      BY <3>2 DEF InHand
    <3> QED
      BY <3>1, <3>3
  <2>4. Made = sent' \o (InHand' \o queue')
    <3>1. Made = sent' \o InHand' \o queue'
      BY <2>1 DEF Made
    <3> QED
      BY <2>3, <3>1, ConcatAssociative
  <2>5. Shaped(sent')
    <3>1. InHand' \o queue' \in Seq(Message)
      BY <2>3, ConcatProperties
    <3> QED
      BY <1>1, <2>3, <2>4, <3>1, ShapedPrefix
  <2>6. Shaped(sent)' /\ Shaped(Made)'
    BY <1>1, <1>2, <2>1, <2>5 DEF Shaped, Follows, LastFile
  <2>7. DueInv'
    BY <1>1, <1>2, <2>1 DEF DueInv, Where
  <2> QED
    BY <2>6, <2>7 DEF StreamInv
<1> QED
  BY <1>3, <1>4

\* Once a send has failed nothing is sent.
LEMMA FailedStream ==
  ASSUME ThreadsInv, StreamInv, failed, Next
  PROVE  StreamInv'
<1>1. tpc = "ended"
  BY DEF ThreadsInv, TransmitInv
<1>2. UNCHANGED <<mode, sent, failed>>
  <2>1. CASE ProcessRequest
    BY <2>1
    DEF ProcessRequest, ReceiveFails, Reject, Accept, OpenFile, OpenFileFails,
        ExploreFails, OpenFileThrows, FilesDone, NextChunk, PushChunk, ChunkFails,
        ChunksDone, Notify, Clear, PushTrainingError, SetRequestDone, AwaitTransmit,
        transmitVars
  <2>2. CASE Transmit \/ SpuriousWake \/ LinkDown
    BY <1>1, <2>2
    DEF Transmit, Start, Lock, Test, Block, Pop, Check, Send, SendFails, SpuriousWake,
        LinkDown, At, requestVars, transmitVars
  <2> QED
    BY <2>1, <2>2 DEF Next
<1>3. Shaped(sent)'
  BY <1>2 DEF StreamInv, Shaped, Follows, LastFile
<1> QED
  BY <1>2, <1>3 DEF StreamInv

LEMMA NextStream ==
  ASSUME ThreadsInv, StreamInv, [Next]_vars
  PROVE  StreamInv'
<1>1. CASE UNCHANGED vars
  <2>1. Made' = Made
    BY <1>1 DEF vars, requestVars, sharedVars, transmitVars, Made, InHand
  <2>2. UNCHANGED <<mode, rpc, after, files, file, chunks, chunk, sent, failed>>
    BY <1>1 DEF vars, requestVars, fileVars, transmitVars
  <2>3. Shaped(sent)' /\ (~failed => Shaped(Made)')
    BY <2>1, <2>2 DEF StreamInv, Shaped, Follows, LastFile
  <2>4. ~failed => DueInv'
    BY <2>1, <2>2 DEF StreamInv, DueInv, Where
  <2> QED
    BY <2>2, <2>3, <2>4 DEF StreamInv
<1>2. CASE Next /\ ~failed
  BY <1>2, FilesStream, ChunksStream, OtherStream, ClearStream, TransmitStream
  DEF Next, ProcessRequest
<1> QED
  BY <1>1, <1>2, FailedStream

LEMMA Streams == Spec => []StreamInv
<1>1. ThreadsInv /\ StreamInv /\ [Next]_vars => StreamInv'
  BY NextStream
<1> QED
  BY <1>1, InitStream, Threads, PTL DEF Spec

\* What a client receives has the shape its parser expects: a header comes with its
\* chunk, the chunks of a file count up from one, and no file comes after the one
\* announced as the last, whatever fails on the way and whenever a training request
\* throws its messages away.
THEOREM WellFormedStream == Spec => []StreamWellFormed
<1>1. TypeOK /\ StreamInv => StreamWellFormed
  <2> SUFFICES ASSUME TypeOK, StreamInv
               PROVE  StreamWellFormed
    OBVIOUS
  <2>1. DOMAIN sent = 1 .. Len(sent)
    BY DEF TypeOK
  <2> QED
    BY <2>1 DEF StreamInv, Shaped, Follows, LastFile, StreamWellFormed
<1>2. ThreadsInv => TypeOK
  BY DEF ThreadsInv
<1> QED
  BY <1>1, <1>2, Streams, Threads, PTL

-------------------------------------------------------------------------------
(* Transfer: the inductive invariant                                       *)

HasError(s)   == \E i \in 1 .. Len(s) : s[i].type = "error"
HasFile(s, f) == \E i \in 1 .. Len(s) : s[i].type = "file" /\ s[i].file = f
HasLast(s)    == \E i \in 1 .. Len(s) : LastFile(s[i])

\* The header of the last chunk of the last file.
Closing(s, i) ==
  /\ i \in 1 .. Len(s)
  /\ s[i].type = "header" /\ s[i].last
  /\ \E k \in 1 .. i - 1 : LastFile(s[k])

\* Every file that was begun is among the messages or there is an error, the last
\* one is announced as such, and nothing comes after its last chunk.
FilesMade ==
  /\ \A f \in 1 .. file : HasFile(Made, f) \/ HasError(Made)
  /\ files = 0 /\ file > 0 => HasLast(Made) \/ HasError(Made)
  /\ Made # <<>> => file > 0 \/ HasError(Made)
  /\ \A i : Closing(Made, i) =>
       \/ i = Len(Made) /\ Where = "data" /\ chunks = 0
       \/ /\ i = Len(Made) - 1
          /\ Where # "data" /\ (Where = "chunks" => chunks = 0)

\* A training request ends with two errors.
ErrorsMade ==
  LET n == Len(Made)
  IN  /\ Where = "error2" => n > 0 /\ Made[n].type = "error"
      /\ Where \in {"finish", "wait", "returned"} =>
           n > 1 /\ Made[n].type = "error" /\ Made[n - 1].type = "error"

ServerInv ==
  /\ Where \in {"clear", "error1", "error2", "finish", "wait", "returned"} => files = 0
  /\ failed => link = "down"
  /\ ~failed => IF mode = "train" THEN ErrorsMade ELSE FilesMade
  /\ failed /\ mode # "train" => ~\E i \in 1 .. Len(sent) - 1 : Closing(sent, i)

\* Where the client is, or goes on after the notification that is due.
ClientWhere == IF pos = "notify" THEN cafter ELSE pos

\* The client's caller: until a request ends it has no outcome, and without one it
\* closes its socket only before it has requested anything.
CallerInv ==
  /\ got \in 0 .. Len(sent)
  /\ ClientWhere \in {"new", "ready", "file", "header", "chunk", "close", "flag", "join",
                      "ended"}
  /\ pos = "notify" => cafter \in {"file", "header", "close", "join"}
  /\ outcome \in {"none", "returned", "threw"}
  /\ pos \in {"new", "ready"} => rpc = "receive"
  /\ ClientWhere \in {"new", "ready", "file", "header", "chunk"} => outcome = "none"
  /\ ClientWhere \in {"new", "ready"} => got = 0
  /\ ClientWhere \in {"close", "flag", "join", "ended"} /\ outcome = "none" =>
       rpc \in {"receive", "rejected"}
  /\ socket = "closed" => ClientWhere \in {"flag", "join", "ended"}

\* The client's parser: a chunk is due after a header only, and the initial message
\* it holds is that of the last file it received.
ParserInv ==
  /\ ClientWhere = "chunk" =>
       got > 0 /\ sent[got].type = "header" /\ cheader = sent[got]
  /\ ClientWhere \in {"file", "header"} /\ got > 0 => sent[got].type # "header"
  /\ ClientWhere \in {"file", "header", "chunk"} /\ (ClientWhere # "file" \/ got > 0) =>
       \E k \in 1 .. got :
         /\ sent[k] = fileMessage /\ sent[k].type = "file"
         /\ \A j \in k + 1 .. got : sent[j].type # "file"
  /\ ClientWhere = "file" /\ got > 0 => ~fileMessage.last
  /\ outcome = "none" =>
       \A i \in 1 .. got : sent[i].type = "error" =>
         mode = "train" /\ i > 1 /\ sent[i - 1].type = "header"
  /\ outcome = "returned" /\ mode # "train" =>
       /\ got > 1 /\ Closing(sent, got - 1)
       /\ \A i \in 1 .. got : sent[i].type # "error"

\* An entry that may be written.
Writable ==
  {e \in C!Entry : e.data = None \/ e.data.type = "chunk" \/ mode = "train"}

WriterInv ==
  /\ entries \in Seq(Writable) /\ entry \in Writable \union {None}
  /\ dpc = "write" => entry # None

KilledInv == process = "killed" => outcome = "threw" \/ mode = "train"

ClientInv == CallerInv /\ ParserInv /\ WriterInv /\ KilledInv

-------------------------------------------------------------------------------
(* The server                                                              *)

\* In a transfer the server does what Transmission says of a request.
LEMMA TransferSteps ==
  ASSUME [TransferNext]_transferVars
  PROVE  [Next]_vars
BY DEF TransferNext, ServerStep, ClientStep, Break, ServerCloses, SendKills, transferVars,
       Next

\* The server of a transfer is a request as Transmission describes it, so what is
\* proved there of processRequest and transmit holds here.
THEOREM TransferIsRequest == TransferSpec => Spec
<1>1. TransferInit => Init
  BY DEF TransferInit
<1>2. [TransferNext]_transferVars => [Next]_vars
  BY TransferSteps
<1> QED
  BY <1>1, <1>2, PTL DEF TransferSpec, Spec

\* What is said of a sequence of messages that is said of a longer one.
LEMMA Longer ==
  ASSUME NEW s, NEW t, Len(s) \in Nat, Len(t) \in Nat, Len(s) <= Len(t),
         \A i \in 1 .. Len(s) : t[i] = s[i]
  PROVE  /\ HasError(s) => HasError(t)
         /\ \A f : HasFile(s, f) => HasFile(t, f)
         /\ HasLast(s) => HasLast(t)
         /\ \A i \in 1 .. Len(s) : Closing(s, i) <=> Closing(t, i)
<1>1. 1 .. Len(s) \subseteq 1 .. Len(t)
  OBVIOUS
<1>2. HasError(s) => HasError(t)
  BY <1>1 DEF HasError
<1>3. \A f : HasFile(s, f) => HasFile(t, f)
  BY <1>1 DEF HasFile
<1>4. HasLast(s) => HasLast(t)
  BY <1>1 DEF HasLast
<1>5. ASSUME NEW i \in 1 .. Len(s)
      PROVE  Closing(s, i) <=> Closing(t, i)
  <2>1. \A k \in 1 .. i - 1 : t[k] = s[k]
    OBVIOUS
  <2>2. t[i] = s[i] /\ i \in 1 .. Len(t)
    BY <1>1
  <2> QED
    BY <2>1, <2>2 DEF Closing
<1> QED
  BY <1>2, <1>3, <1>4, <1>5

\* A push, once more.
LEMMA PushLonger ==
  ASSUME TypeOK, NEW m \in Message, queue' = Append(queue, m), UNCHANGED <<buffer, sent>>
  PROVE  /\ Len(Made) \in Nat /\ Len(Made') = Len(Made) + 1
         /\ Made'[Len(Made) + 1] = m
         /\ \A i \in 1 .. Len(Made) : Made'[i] = Made[i]
         /\ HasError(Made) => HasError(Made)'
         /\ \A f : HasFile(Made, f) => HasFile(Made', f)
         /\ \A i \in 1 .. Len(Made) : Closing(Made', i) <=> Closing(Made, i)
         /\ m.type = "error" => HasError(Made)'
         /\ \A f : m.type = "file" /\ m.file = f => HasFile(Made', f)
         /\ LastFile(m) => HasLast(Made)'
         /\ HasLast(Made) => HasLast(Made)'
<1>1. Made \in Seq(Message) /\ Made' = Append(Made, m)
  BY MadeType, PushMade
<1>2. /\ Len(Made) \in Nat /\ Len(Made') = Len(Made) + 1
      /\ Made'[Len(Made) + 1] = m
      /\ \A i \in 1 .. Len(Made) : Made'[i] = Made[i]
  BY <1>1, AppendProperties, LenProperties
<1>3. /\ HasError(Made) => HasError(Made')
      /\ \A f : HasFile(Made, f) => HasFile(Made', f)
      /\ HasLast(Made) => HasLast(Made')
      /\ \A i \in 1 .. Len(Made) : Closing(Made, i) <=> Closing(Made', i)
  BY <1>2, Longer
<1>4. Len(Made) + 1 \in 1 .. Len(Made')
  BY <1>2
<1>5. /\ m.type = "error" => HasError(Made')
      /\ \A f : m.type = "file" /\ m.file = f => HasFile(Made', f)
      /\ LastFile(m) => HasLast(Made')
  BY <1>2, <1>4 DEF HasError, HasFile, HasLast
<1>6. (HasError(Made)' <=> HasError(Made')) /\ (HasLast(Made)' <=> HasLast(Made'))
  BY DEF HasError, HasLast, LastFile
<1> QED
  BY <1>2, <1>3, <1>5, <1>6

\* When no message was made, none has gone through transmit's hand.
LEMMA NothingMade ==
  ASSUME ThreadsInv, rpc = "receive"
  PROVE  Made = <<>> /\ Len(Made) = 0
<1>1. sent = <<>> /\ queue = <<>> /\ buffer = None
  BY DEF ThreadsInv, TransmitInv
<1> QED
  BY <1>1 DEF Made, InHand

LEMMA InitServer == Init => ServerInv
<1> SUFFICES ASSUME Init
             PROVE  ServerInv
  OBVIOUS
<1>1. Made = <<>> /\ Len(Made) = 0 /\ Where = "receive" /\ file = 0 /\ ~failed
  BY DEF Init, Made, InHand, Where
<1>2. \A i : ~Closing(Made, i)
  BY <1>1 DEF Closing
<1>3. FilesMade
  BY <1>1, <1>2 DEF FilesMade
<1>4. ErrorsMade
  BY <1>1 DEF ErrorsMade
<1> QED
  BY <1>1, <1>3, <1>4 DEF ServerInv

\* processRequest leaves its loop over the files when none is left, and a send fails
\* on a broken connection only.
LEMMA ControlServer ==
  ASSUME ThreadsInv, ServerInv, [Next]_vars
  PROVE  /\ Where' \in {"clear", "error1", "error2", "finish", "wait", "returned"} => files' = 0
         /\ failed' => link' = "down"
         /\ mode' = mode
<1> DEFINE Over == {"clear", "error1", "error2", "finish", "wait", "returned"}
<1>1. /\ Where \in Over => files = 0
      /\ failed => link = "down"
  BY DEF ServerInv
<1>2. CASE ProcessRequest
  <2>1. UNCHANGED <<link, failed, mode>>
    BY <1>2
    DEF ProcessRequest, ReceiveFails, Reject, Accept, OpenFile, OpenFileFails,
        ExploreFails, OpenFileThrows, FilesDone, NextChunk, PushChunk, ChunkFails,
        ChunksDone, Notify, Clear, PushTrainingError, SetRequestDone, AwaitTransmit,
        transmitVars
  <2>2. CASE ReceiveFails \/ Reject \/ Accept \/ OpenFileThrows
    BY <1>1, <2>1, <2>2 DEF ReceiveFails, Reject, Accept, OpenFileThrows, Where
  <2>3. CASE OpenFile \/ OpenFileFails \/ ExploreFails
    BY <1>1, <2>1, <2>3 DEF OpenFile, OpenFileFails, ExploreFails, PushThen, Where
  <2>4. CASE NextChunk \/ PushChunk \/ ChunkFails \/ ChunksDone
    BY <1>1, <2>1, <2>4
    DEF NextChunk, PushChunk, ChunkFails, ChunksDone, PushThen, Where
  <2>5. CASE Notify
    BY <1>1, <2>1, <2>5 DEF Notify, Where, fileVars, ThreadsInv, RequestInv
  <2>6. CASE FilesDone \/ Clear \/ PushTrainingError \/ SetRequestDone \/ AwaitTransmit
    BY <1>1, <2>1, <2>6
    DEF FilesDone, Clear, PushTrainingError, SetRequestDone, AwaitTransmit, PushThen,
        Where, fileVars
  <2> QED
    BY <1>1, <1>2, <2>1, <2>2, <2>3, <2>4, <2>5, <2>6 DEF ProcessRequest
<1>3. CASE Transmit \/ SpuriousWake \/ LinkDown \/ UNCHANGED vars
  <2>1. UNCHANGED <<rpc, after, files, mode>>
    BY <1>3
    DEF Transmit, Start, Lock, Test, Block, Pop, Check, Send, SendFails, SpuriousWake,
        LinkDown, vars, requestVars, fileVars
  <2>2. failed' => link' = "down"
    BY <1>1, <1>3
    DEF Transmit, Start, Lock, Test, Block, Pop, Check, Send, SendFails, SpuriousWake,
        LinkDown, vars, transmitVars
  <2> QED
    BY <1>1, <2>1, <2>2 DEF Where
<1> QED
  BY <1>2, <1>3 DEF Next

\* A training request.
LEMMA TrainingServer ==
  ASSUME ThreadsInv, ServerInv, [Next]_vars, mode = "train", ~failed, ~SendFails
  PROVE  ErrorsMade'
<1>1. ErrorsMade
  BY DEF ServerInv
<1>2. CASE PushTrainingError
  <2>1. /\ ErrorMessage \in Message /\ ErrorMessage.type = "error"
        /\ queue' = Append(queue, ErrorMessage) /\ UNCHANGED <<buffer, sent>>
    BY <1>2, ErrorIsMessage DEF PushTrainingError, PushThen, transmitVars
  <2>2. /\ Len(Made) \in Nat /\ Len(Made') = Len(Made) + 1
        /\ Made'[Len(Made) + 1] = ErrorMessage
        /\ \A i \in 1 .. Len(Made) : Made'[i] = Made[i]
    BY <2>1, PushLonger DEF ThreadsInv
  <2>3. CASE rpc = "error1"
    <3>1. Where' = "error2"
      BY <1>2, <2>3 DEF PushTrainingError, PushThen, Where
    <3> QED
      BY <2>1, <2>2, <3>1 DEF ErrorsMade
  <2>4. CASE rpc = "error2"
    <3>1. Where = "error2" /\ Where' = "finish"
      BY <1>2, <2>4 DEF PushTrainingError, PushThen, Where
    <3>2. Len(Made) > 0 /\ Made[Len(Made)].type = "error"
      BY <1>1, <3>1 DEF ErrorsMade
    <3>3. Made'[Len(Made') - 1] = Made[Len(Made)]
      BY <2>2, <3>2
    <3> QED
      BY <2>1, <2>2, <3>1, <3>2, <3>3 DEF ErrorsMade
  <2> QED
    BY <1>2, <2>3, <2>4 DEF PushTrainingError
<1>3. CASE SetRequestDone \/ AwaitTransmit \/ Notify
  <2>1. Made' = Made
    BY <1>3 DEF SetRequestDone, AwaitTransmit, Notify, sharedVars, transmitVars, Made, InHand
  <2>2. Where' = Where \/ Where \in {"finish", "wait"}
    BY <1>3 DEF SetRequestDone, AwaitTransmit, Notify, Where, ThreadsInv, RequestInv
  <2>3. Where \in {"finish", "wait"} => Where' \in {"finish", "wait", "returned"}
    BY <1>3 DEF SetRequestDone, AwaitTransmit, Notify, Where, ThreadsInv, RequestInv
  <2> QED
    BY <1>1, <2>1, <2>2, <2>3 DEF ErrorsMade
<1>4. CASE \/ ReceiveFails \/ Reject \/ Accept \/ OpenFileThrows \/ FilesDone
           \/ OpenFile \/ OpenFileFails \/ ExploreFails
           \/ NextChunk \/ PushChunk \/ ChunkFails \/ ChunksDone \/ Clear
  <2>1. Where' \notin {"error2", "finish", "wait", "returned"}
    BY <1>4
    DEF ReceiveFails, Reject, Accept, OpenFileThrows, FilesDone, OpenFile, OpenFileFails,
        ExploreFails, NextChunk, PushChunk, ChunkFails, ChunksDone, Clear, PushThen, Where
  <2> QED
    BY <2>1 DEF ErrorsMade
<1>5. CASE Transmit \/ SpuriousWake \/ LinkDown
  <2>1. Made' = Made
    BY <1>5, TransmitMade
  <2>2. UNCHANGED <<rpc, after>>
    BY <1>5
    DEF Transmit, Start, Lock, Test, Block, Pop, Check, Send, SendFails, SpuriousWake,
        LinkDown, requestVars
  <2> QED
    BY <1>1, <2>1, <2>2 DEF ErrorsMade, Where
<1>6. CASE UNCHANGED vars
  BY <1>1, <1>6
  DEF vars, requestVars, sharedVars, transmitVars, ErrorsMade, Where, Made, InHand
<1> QED
  BY <1>2, <1>3, <1>4, <1>5, <1>6 DEF Next, ProcessRequest

\* Where a step may lead that makes no message.
LEMMA FilesKept ==
  ASSUME FilesMade, Made' = Made, file' = file,
         files' = 0 => files = 0,
         Where' = "data" => Where = "data" /\ chunks' = chunks,
         Where = "data" => Where' = "data",
         Where' = "chunks" => Where = "chunks" /\ chunks' = chunks
  PROVE  FilesMade'
<1>1. \A i : Closing(Made', i) => Closing(Made, i)
  OBVIOUS
<1>2. /\ HasError(Made)' <=> HasError(Made)
      /\ HasLast(Made)' <=> HasLast(Made)
      /\ \A f : HasFile(Made, f)' <=> HasFile(Made, f)
      /\ \A i : Closing(Made, i)' <=> Closing(Made, i)
  BY DEF HasError, HasLast, HasFile, Closing, LastFile
<1> QED
  BY <1>2 DEF FilesMade

\* Any other request opens files, and pushes their initial messages or errors.
LEMMA OpenFilesServer ==
  ASSUME ThreadsInv, StreamInv, FilesMade, mode # "train", ~failed,
         Reject \/ OpenFile \/ OpenFileFails \/ ExploreFails \/ PushTrainingError
  PROVE  FilesMade'
<1>1. DueInv
  BY DEF StreamInv
<1>2. HasLast(Made) => files = 0
  BY <1>1 DEF DueInv, HasLast
<1>3. \A i : Closing(Made, i) => HasLast(Made)
  <2> SUFFICES ASSUME NEW i, Closing(Made, i)
               PROVE  HasLast(Made)
    OBVIOUS
  <2>1. PICK k \in 1 .. i - 1 : LastFile(Made[k])
    BY DEF Closing
  <2>2. i \in 1 .. Len(Made) /\ Len(Made) \in Nat
    BY MadeType, LenProperties DEF Closing, ThreadsInv
  <2> QED
    BY <2>1, <2>2 DEF HasLast
<1>4. ~HasLast(Made)
  <2>1. CASE Reject
    BY <2>1, NothingMade DEF Reject, HasLast
  <2>2. CASE OpenFile \/ OpenFileFails \/ ExploreFails
    BY <1>2, <2>2 DEF OpenFile, OpenFileFails, ExploreFails, ThreadsInv, TypeOK
  <2>3. CASE PushTrainingError
    BY <2>3 DEF PushTrainingError, ThreadsInv, RequestInv, Where
  <2> QED
    BY <2>1, <2>2, <2>3
<1>5. CASE OpenFile
  <2> DEFINE m == FileInitialMessage(file', files' = 0, chunks' = 0)
  <2>1. /\ m \in Message /\ queue' = Append(queue, m) /\ UNCHANGED <<buffer, sent>>
        /\ m.type = "file" /\ m.file = file' /\ m.last = (files' = 0)
        /\ file' = file + 1
    BY <1>5, OpenFileMessage, FileMessage DEF OpenFile, transmitVars
  <2> HIDE DEF m
  <2>2. /\ Len(Made) \in Nat /\ Len(Made') = Len(Made) + 1
        /\ Made'[Len(Made) + 1] = m
        /\ HasError(Made) => HasError(Made)'
        /\ \A f : HasFile(Made, f) => HasFile(Made', f)
        /\ \A i \in 1 .. Len(Made) : Closing(Made', i) <=> Closing(Made, i)
        /\ HasFile(Made', m.file)
        /\ LastFile(m) => HasLast(Made)'
    BY <2>1, PushLonger DEF ThreadsInv
  <2>3. file \in Nat /\ file' \in Nat /\ file' > 0
    BY <2>1 DEF ThreadsInv, TypeOK
  <2>4. \A f \in 1 .. file' : HasFile(Made', f) \/ HasError(Made)'
    <3> SUFFICES ASSUME NEW f \in 1 .. file'
                 PROVE  HasFile(Made', f) \/ HasError(Made)'
      OBVIOUS
    <3>1. f \in 1 .. file \/ f = m.file
      BY <2>1, <2>3
    <3> QED
      BY <2>2, <3>1 DEF FilesMade
  <2>5. files' = 0 => HasLast(Made)'
    BY <2>1, <2>2 DEF LastFile
  <2>6. \A i : ~Closing(Made', i)
    <3> SUFFICES ASSUME NEW i, Closing(Made', i)
                 PROVE  FALSE
      OBVIOUS
    <3>1. i \in 1 .. Len(Made) \/ i = Len(Made) + 1
      BY <2>2 DEF Closing
    <3>2. i # Len(Made) + 1
      BY <2>1, <2>2 DEF Closing
    <3> QED
      BY <1>3, <1>4, <2>2, <3>1, <3>2
  <2>7. \A f : HasFile(Made', f) <=> HasFile(Made, f)'
    BY DEF HasFile
  <2>8. \A i : Closing(Made', i) <=> Closing(Made, i)'
    BY DEF Closing, LastFile
  <2> QED
    BY <2>3, <2>4, <2>5, <2>6, <2>7, <2>8 DEF FilesMade
<1>6. CASE Reject \/ OpenFileFails \/ ExploreFails \/ PushTrainingError
  <2>1. /\ ErrorMessage \in Message /\ ErrorMessage.type = "error"
        /\ queue' = Append(queue, ErrorMessage) /\ UNCHANGED <<buffer, sent>>
    BY <1>6, ErrorIsMessage
    DEF Reject, OpenFileFails, ExploreFails, PushTrainingError, PushThen, transmitVars
  <2>2. /\ Len(Made) \in Nat /\ Len(Made') = Len(Made) + 1
        /\ Made'[Len(Made) + 1] = ErrorMessage
        /\ \A i \in 1 .. Len(Made) : Closing(Made', i) <=> Closing(Made, i)
        /\ HasError(Made)'
    BY <2>1, PushLonger DEF ThreadsInv
  <2>3. \A i : ~Closing(Made', i)
    <3> SUFFICES ASSUME NEW i, Closing(Made', i)
                 PROVE  FALSE
      OBVIOUS
    <3>1. i \in 1 .. Len(Made) \/ i = Len(Made) + 1
      BY <2>2 DEF Closing
    <3>2. i # Len(Made) + 1
      BY <2>1, <2>2 DEF Closing
    <3> QED
      BY <1>3, <1>4, <2>2, <3>1, <3>2
  <2>4. \A i : Closing(Made', i) <=> Closing(Made, i)'
    BY DEF Closing, LastFile
  <2> QED
    BY <2>2, <2>3, <2>4 DEF FilesMade
<1> QED
  BY <1>5, <1>6

\* Its chunks.
LEMMA ChunksServer ==
  ASSUME ThreadsInv, StreamInv, FilesMade, ~failed, NextChunk \/ PushChunk
  PROVE  FilesMade'
<1>1. CASE NextChunk
  <2> DEFINE m == ChunkHeader(file, chunk', chunks' = 0)
  <2>1. /\ m \in Message /\ queue' = Append(queue, m) /\ m.last = (chunks' = 0)
    BY <1>1, NextChunkMessage DEF ChunkHeader
  <2>2. /\ UNCHANGED <<buffer, sent, file, files>>
        /\ Where = "chunks" /\ chunks > 0 /\ Where' = "data"
    BY <1>1 DEF NextChunk, transmitVars, Where
  <2> HIDE DEF m
  <2>3. /\ Len(Made) \in Nat /\ Len(Made') = Len(Made) + 1
        /\ Made'[Len(Made) + 1] = m
        /\ HasError(Made) => HasError(Made)'
        /\ HasLast(Made) => HasLast(Made)'
        /\ \A f : HasFile(Made, f) => HasFile(Made', f)
        /\ \A i \in 1 .. Len(Made) : Closing(Made', i) <=> Closing(Made, i)
    BY <2>1, <2>2, PushLonger DEF ThreadsInv
  <2>4. chunks \in Nat
    BY DEF ThreadsInv, TypeOK
  <2>5. \A i : Closing(Made', i) => i = Len(Made') /\ chunks' = 0
    <3> SUFFICES ASSUME NEW i, Closing(Made', i)
                 PROVE  i = Len(Made') /\ chunks' = 0
      OBVIOUS
    <3>1. i \in 1 .. Len(Made) \/ i = Len(Made) + 1
      BY <2>3 DEF Closing
    <3>2. CASE i \in 1 .. Len(Made)
      <4>1. Closing(Made, i)
        BY <2>3, <3>2
      <4> QED
        BY <2>2, <2>4, <4>1 DEF FilesMade
    <3>3. CASE i = Len(Made) + 1
      BY <2>1, <2>3, <3>3 DEF Closing
    <3> QED
      BY <3>1, <3>2, <3>3
  <2>6. /\ \A f : HasFile(Made', f) <=> HasFile(Made, f)'
        /\ \A i : Closing(Made', i) <=> Closing(Made, i)'
    BY DEF HasFile, Closing, LastFile
  <2>7. Made # <<>>
    BY <2>2 DEF StreamInv, DueInv
  <2> QED
    BY <2>2, <2>3, <2>5, <2>6, <2>7 DEF FilesMade
<1>2. CASE PushChunk
  <2> DEFINE m == ChunkData(file, chunk)
  <2>1. /\ m \in Message /\ queue' = Append(queue, m) /\ m.type = "chunk"
    BY <1>2, ChunkMessage
    DEF PushChunk, PushThen, Files, Chunks, ThreadsInv, TypeOK, RequestInv, Where
  <2>2. /\ UNCHANGED <<buffer, sent, file, files, chunks>>
        /\ Where = "data" /\ Where' = "chunks"
    BY <1>2 DEF PushChunk, PushThen, fileVars, transmitVars, Where
  <2> HIDE DEF m
  <2>3. /\ Len(Made) \in Nat /\ Len(Made') = Len(Made) + 1
        /\ Made'[Len(Made) + 1] = m
        /\ HasError(Made) => HasError(Made)'
        /\ HasLast(Made) => HasLast(Made)'
        /\ \A f : HasFile(Made, f) => HasFile(Made', f)
        /\ \A i \in 1 .. Len(Made) : Closing(Made', i) <=> Closing(Made, i)
    BY <2>1, <2>2, PushLonger DEF ThreadsInv
  <2>4. \A i : Closing(Made', i) => i = Len(Made') - 1 /\ chunks' = 0
    <3> SUFFICES ASSUME NEW i, Closing(Made', i)
                 PROVE  i = Len(Made') - 1 /\ chunks' = 0
      OBVIOUS
    <3>1. i \in 1 .. Len(Made) \/ i = Len(Made) + 1
      BY <2>3 DEF Closing
    <3>2. i # Len(Made) + 1
      BY <2>1, <2>3 DEF Closing
    <3>3. Closing(Made, i)
      BY <2>3, <3>1, <3>2
    <3> QED
      BY <2>2, <2>3, <3>3 DEF FilesMade
  <2>5. /\ \A f : HasFile(Made', f) <=> HasFile(Made, f)'
        /\ \A i : Closing(Made', i) <=> Closing(Made, i)'
    BY DEF HasFile, Closing, LastFile
  <2>6. Made # <<>>
    BY <2>2 DEF StreamInv, DueInv
  <2> QED
    BY <2>2, <2>3, <2>4, <2>5, <2>6 DEF FilesMade
<1> QED
  BY <1>1, <1>2

\* The steps that make no message.
LEMMA OtherServer ==
  ASSUME ThreadsInv, StreamInv, FilesMade, mode # "train", ~failed, ~SendFails,
         \/ ReceiveFails \/ Accept \/ OpenFileThrows \/ FilesDone \/ ChunkFails
         \/ ChunksDone \/ Notify \/ Clear \/ SetRequestDone \/ AwaitTransmit
         \/ Transmit \/ SpuriousWake \/ LinkDown \/ UNCHANGED vars
  PROVE  FilesMade'
<1>1. CASE Accept
  <2>1. Made = <<>> /\ file = 0 /\ file' = file /\ UNCHANGED <<sent, buffer, queue>>
    BY <1>1, NothingMade DEF Accept, sharedVars, ThreadsInv, TransmitInv
  <2>2. Made' = Made /\ Len(Made) = 0
    BY <2>1 DEF Made, InHand
  <2>3. \A i : ~Closing(Made, i)'
    BY <2>2 DEF Closing
  <2> QED
    BY <2>1, <2>2, <2>3 DEF FilesMade
<1>2. CASE Clear
  BY <1>2 DEF Clear, ThreadsInv, RequestInv, Where
<1>3. CASE Notify
  <2>1. Made' = Made /\ UNCHANGED <<file, files, chunks>>
    BY <1>3 DEF Notify, Made, InHand, sharedVars, fileVars
  <2>2. Where' = Where
    BY <1>3 DEF Notify, Where, ThreadsInv, RequestInv
  <2> QED
    BY <2>1, <2>2, FilesKept
<1>4. CASE ReceiveFails \/ OpenFileThrows \/ FilesDone \/ SetRequestDone \/ AwaitTransmit
  <2>1. Made' = Made /\ UNCHANGED <<file, files>>
    BY <1>4 DEF ReceiveFails, OpenFileThrows, FilesDone, SetRequestDone, AwaitTransmit,
                Made, InHand, sharedVars, fileVars, transmitVars
  <2>2. Where # "data" /\ Where' \notin {"data", "chunks"}
    BY <1>4 DEF ReceiveFails, OpenFileThrows, FilesDone, SetRequestDone, AwaitTransmit, Where
  <2> QED
    BY <2>1, <2>2, FilesKept
<1>5. CASE ChunkFails \/ ChunksDone
  <2>1. Made' = Made /\ UNCHANGED <<file, files>>
    BY <1>5 DEF ChunkFails, ChunksDone, Made, InHand, sharedVars, fileVars, transmitVars
  <2>2. Where = "chunks" /\ Where' = "files"
    BY <1>5 DEF ChunkFails, ChunksDone, Where
  <2> QED
    BY <2>1, <2>2, FilesKept
<1>6. CASE Transmit \/ SpuriousWake \/ LinkDown \/ UNCHANGED vars
  <2>1. UNCHANGED <<rpc, after, file, files, chunks>>
    BY <1>6
    DEF Transmit, Start, Lock, Test, Block, Pop, Check, Send, SendFails, SpuriousWake,
        LinkDown, vars, requestVars, fileVars
  <2>2. CASE UNCHANGED vars
    <3>1. Made' = Made
      BY <2>2 DEF vars, sharedVars, transmitVars, Made, InHand
    <3> QED
      BY <2>1, <3>1, FilesKept DEF Where
  <2>3. CASE Transmit \/ SpuriousWake \/ LinkDown
    BY <2>1, <2>3, TransmitMade, FilesKept DEF Where
  <2> QED
    BY <1>6, <2>2, <2>3
<1> QED
  BY <1>1, <1>2, <1>3, <1>4, <1>5, <1>6

\* When a send fails, the message that is lost is not the last chunk of the last
\* file, or comes after nothing that ends the transfer.
LEMMA FailingServer ==
  ASSUME ThreadsInv, StreamInv, FilesMade, ~failed, SendFails
  PROVE  ~\E i \in 1 .. Len(sent) - 1 : Closing(sent, i)
<1>1. buffer # None /\ buffer \in Message
  BY DEF SendFails, At, ThreadsInv, TypeOK, TransmitInv
<1>2. /\ sent \in Seq(Message) /\ queue \in Seq(Message) /\ <<buffer>> \in Seq(Message)
      /\ Made = sent \o <<buffer>> \o queue
  BY <1>1 DEF ThreadsInv, TypeOK, Made, InHand
<1>3. sent \o <<buffer>> \in Seq(Message) /\ Len(sent \o <<buffer>>) = Len(sent) + 1
  BY <1>2, ConcatProperties
<1>4. /\ Len(sent) \in Nat /\ Len(Made) \in Nat /\ Len(sent) + 1 <= Len(Made)
      /\ \A i \in 1 .. Len(sent) : Made[i] = sent[i]
  BY <1>2, <1>3, ConcatProperties, LenProperties
<1>5. \A i \in 1 .. Len(sent) : Closing(sent, i) <=> Closing(Made, i)
  BY <1>4, Longer
<1> SUFFICES ASSUME NEW i \in 1 .. Len(sent) - 1, Closing(sent, i)
             PROVE  FALSE
  OBVIOUS
<1>6. Closing(Made, i)
  BY <1>4, <1>5
<1> QED
  BY <1>4, <1>6 DEF FilesMade

LEMMA NextServer ==
  ASSUME ThreadsInv, StreamInv, ServerInv, [Next]_vars
  PROVE  ServerInv'
<1>1. /\ Where' \in {"clear", "error1", "error2", "finish", "wait", "returned"} => files' = 0
      /\ failed' => link' = "down"
      /\ mode' = mode
  BY ControlServer
<1>2. CASE failed
  <2>1. failed' /\ sent' = sent
    <3>1. tpc = "ended"
      BY <1>2 DEF ThreadsInv, TransmitInv
    <3>2. CASE ProcessRequest
      BY <1>2, <3>2
      DEF ProcessRequest, ReceiveFails, Reject, Accept, OpenFile, OpenFileFails,
          ExploreFails, OpenFileThrows, FilesDone, NextChunk, PushChunk, ChunkFails,
          ChunksDone, Notify, Clear, PushTrainingError, SetRequestDone, AwaitTransmit,
          transmitVars
    <3>3. CASE Transmit \/ SpuriousWake \/ LinkDown \/ UNCHANGED vars
      BY <1>2, <3>1, <3>3
      DEF Transmit, Start, Lock, Test, Block, Pop, Check, Send, SendFails, SpuriousWake,
          LinkDown, At, vars, requestVars, transmitVars
    <3> QED
      BY <3>2, <3>3 DEF Next
  <2>2. mode # "train" => ~\E i \in 1 .. Len(sent) - 1 : Closing(sent, i)'
    BY <1>2, <2>1 DEF ServerInv, Closing, LastFile
  <2> QED
    BY <1>1, <2>1, <2>2 DEF ServerInv
<1>3. CASE ~failed /\ SendFails
  <2>1. failed' /\ sent' = sent
    BY <1>3 DEF SendFails
  <2>2. mode # "train" => ~\E i \in 1 .. Len(sent) - 1 : Closing(sent, i)
    BY <1>3, FailingServer DEF ServerInv
  <2>3. mode # "train" => ~\E i \in 1 .. Len(sent) - 1 : Closing(sent, i)'
    BY <2>1, <2>2 DEF Closing, LastFile
  <2> QED
    BY <1>1, <2>1, <2>3 DEF ServerInv
<1>4. CASE ~failed /\ ~SendFails
  <2>1. ~failed'
    <3>1. CASE ProcessRequest
      BY <1>4, <3>1
      DEF ProcessRequest, ReceiveFails, Reject, Accept, OpenFile, OpenFileFails,
          ExploreFails, OpenFileThrows, FilesDone, NextChunk, PushChunk, ChunkFails,
          ChunksDone, Notify, Clear, PushTrainingError, SetRequestDone, AwaitTransmit,
          transmitVars
    <3>2. CASE Transmit \/ SpuriousWake \/ LinkDown \/ UNCHANGED vars
      BY <1>4, <3>2
      DEF Transmit, Start, Lock, Test, Block, Pop, Check, Send, SpuriousWake, LinkDown,
          vars, transmitVars
    <3> QED
      BY <3>1, <3>2 DEF Next
  <2>2. mode = "train" => ErrorsMade'
    BY <1>4, TrainingServer
  <2>3. mode # "train" => FilesMade'
    <3>1. mode # "train" => FilesMade
      BY <1>4 DEF ServerInv
    <3> QED
      BY <1>4, <3>1, OpenFilesServer, ChunksServer, OtherServer DEF Next, ProcessRequest
  <2> QED
    BY <1>1, <2>1, <2>2, <2>3 DEF ServerInv
<1> QED
  BY <1>2, <1>3, <1>4

LEMMA Server == TransferSpec => [](ThreadsInv /\ StreamInv /\ ServerInv)
<1>1. ThreadsInv /\ StreamInv /\ ServerInv /\ [Next]_vars => ServerInv'
  BY NextServer
<1>2. Spec => []ServerInv
  BY <1>1, InitServer, Threads, Streams, PTL DEF Spec
<1> QED
  BY <1>2, TransferIsRequest, Threads, Streams, PTL

-------------------------------------------------------------------------------
(* The client                                                              *)

\* What the client has received stays as it is when the server sends more.
LEMMA SentGrows ==
  ASSUME TypeOK, [Next]_vars
  PROVE  /\ Len(sent) \in Nat /\ Len(sent') \in Nat /\ Len(sent) <= Len(sent')
         /\ \A i \in 1 .. Len(sent) : sent'[i] = sent[i]
<1>1. sent \in Seq(Message) /\ Len(sent) \in Nat
  BY LenProperties DEF TypeOK
<1>2. CASE Send
  <2>1. sent' = Append(sent, buffer)
    BY <1>2 DEF Send
  <2> QED
    BY <1>1, <2>1
<1>3. CASE ~Send
  <2>1. sent' = sent
    BY <1>3
    DEF Next, ProcessRequest, ReceiveFails, Reject, Accept, OpenFile, OpenFileFails,
        ExploreFails, OpenFileThrows, FilesDone, NextChunk, PushChunk, ChunkFails,
        ChunksDone, Notify, Clear, PushTrainingError, SetRequestDone, AwaitTransmit,
        Transmit, Start, Lock, Test, Block, Pop, Check, SendFails, SpuriousWake, LinkDown,
        vars, transmitVars
  <2> QED
    BY <1>1, <2>1
<1> QED
  BY <1>2, <1>3

LEMMA InitClient == TransferInit => ClientInv
<1> SUFFICES ASSUME TransferInit
             PROVE  ClientInv
  OBVIOUS
<1>1. /\ sent = <<>> /\ rpc = "receive" /\ got = 0 /\ pos = "new" /\ outcome = "none"
      /\ socket = "unused" /\ entries = <<>> /\ entry = None /\ dpc = "none"
      /\ process = "up"
  BY DEF TransferInit, Init, C!InitClient
<1>2. CallerInv
  BY <1>1 DEF CallerInv, ClientWhere
<1>3. ParserInv
  BY <1>1 DEF ParserInv, ClientWhere
<1>4. WriterInv
  BY <1>1 DEF WriterInv
<1> QED
  BY <1>1, <1>2, <1>3, <1>4 DEF ClientInv, KilledInv

\* The server and the connection leave the client alone.
LEMMA ServerKeepsClient ==
  ASSUME ThreadsInv, ServerInv, ClientInv,
         ServerStep \/ Break \/ ServerCloses \/ SendKills \/ UNCHANGED transferVars
  PROVE  CallerInv' /\ ParserInv' /\ WriterInv'
<1>1. /\ [Next]_vars
      /\ UNCHANGED <<got, pos, cafter, outcome, fileMessage, cheader, socket, entries, dpc,
                     entry>>
  BY DEF ServerStep, Break, ServerCloses, SendKills, transferVars, clientVars, Next
<1>2. mode' = mode
  BY <1>1, ControlServer
<1>3. /\ Len(sent) \in Nat /\ Len(sent') \in Nat /\ Len(sent) <= Len(sent')
      /\ \A i \in 1 .. Len(sent) : sent'[i] = sent[i]
  BY <1>1, SentGrows DEF ThreadsInv
<1>4. ClientWhere' = ClientWhere
  BY <1>1 DEF ClientWhere
<1>5. /\ pos \in {"new", "ready"} /\ rpc = "receive" => rpc' = "receive"
      /\ pos # "file" /\ rpc \in {"receive", "rejected"} => rpc' \in {"receive", "rejected"}
  <2>1. CASE rpc' = rpc
    BY <2>1
  <2>2. CASE rpc' # rpc
    <3>1. ServerStep /\ ProcessRequest
      BY <2>2
      DEF ServerStep, Break, ServerCloses, SendKills, transferVars, vars, Transmit, Start,
          Lock, Test, Block, Pop, Check, Send, SendFails, SpuriousWake, LinkDown,
          requestVars
    <3>2. rpc # "rejected"
      BY <3>1
      DEF ProcessRequest, ReceiveFails, Reject, Accept, OpenFile, OpenFileFails,
          ExploreFails, OpenFileThrows, FilesDone, NextChunk, PushChunk, ChunkFails,
          ChunksDone, Notify, Clear, PushTrainingError, SetRequestDone, AwaitTransmit
    <3> QED
      BY <3>1, <3>2 DEF ServerStep
  <2> QED
    BY <2>1, <2>2
<1>6. CallerInv'
  <2>1. got \in 0 .. Len(sent')
    BY <1>3 DEF ClientInv, CallerInv
  <2>2. ClientWhere \in {"close", "flag", "join", "ended"} => pos # "file"
    BY DEF ClientWhere
  <2> QED
    BY <1>1, <1>4, <1>5, <2>1, <2>2 DEF ClientInv, CallerInv
<1>7. ParserInv'
  <2>1. got \in 0 .. Len(sent) /\ \A i \in 1 .. got : sent'[i] = sent[i]
    BY <1>3 DEF ClientInv, CallerInv
  <2>2. got > 0 => sent'[got] = sent[got]
    BY <2>1
  <2>3. ASSUME got > 1, Closing(sent, got - 1)
        PROVE  Closing(sent', got - 1)
    BY <1>3, <2>1, <2>3, Longer
  <2>4. Closing(sent', got - 1) => Closing(sent, got - 1)'
    BY <1>1 DEF Closing, LastFile
  <2> QED
    BY <1>1, <1>2, <1>4, <2>1, <2>2, <2>3, <2>4 DEF ClientInv, ParserInv
<1>8. WriterInv'
  BY <1>1, <1>2 DEF ClientInv, WriterInv, Writable
<1> QED
  BY <1>6, <1>7, <1>8

\* The messages the client takes from the stream.
LEMMA Received ==
  ASSUME ThreadsInv, ClientInv, NEW label, C!Receive(label)
  PROVE  /\ pos = label /\ got \in Nat /\ got' = got + 1 /\ got + 1 \in 1 .. Len(sent)
         /\ C!Incoming = sent[got + 1] /\ sent[got + 1] \in Message
<1>1. Len(sent) \in Nat /\ sent \in Seq(Message)
  BY LenProperties DEF ThreadsInv, TypeOK
<1>2. got \in Nat /\ pos = label /\ got < Len(sent) /\ got' = got + 1
  BY <1>1 DEF ClientInv, CallerInv, C!Receive
<1>3. got + 1 \in 1 .. Len(sent)
  BY <1>1, <1>2
<1> QED
  BY <1>1, <1>2, <1>3, ElementOfSeq DEF C!Incoming

LEMMA ClientControl ==
  ASSUME ThreadsInv, ClientInv, ClientStep
  PROVE  CallerInv' /\ (outcome # "none" => outcome' = outcome)
<1> USE DEF ClientInv, CallerInv, ClientWhere
<1>1. sent' = sent /\ rpc' = rpc
  BY DEF ClientStep, vars, requestVars, transmitVars
<1>2. CASE C!Connect \/ C!ConnectFails \/ C!SendRequest \/ C!SendRequestFails \/ C!Destroy
  BY <1>1, <1>2
  DEF C!Connect, C!ConnectFails, C!SendRequest, C!SendRequestFails, C!Destroy, C!Throw,
      C!parserVars
<1>3. CASE C!ReceiveFile \/ C!ReceiveHeader
  <2>1. got' \in 0 .. Len(sent)
    BY <1>3, Received DEF C!ReceiveFile, C!ReceiveHeader
  <2> QED
    BY <1>1, <1>3, <2>1 DEF C!ReceiveFile, C!ReceiveHeader, C!Receive, C!PushThen
<1>4. CASE C!ReceiveInvalid \/ C!ReceiveFails
  <2>1. got' \in 0 .. Len(sent)
    BY <1>4, Received DEF C!ReceiveInvalid, C!ReceiveFails
  <2> QED
    BY <1>1, <1>4, <2>1 DEF C!ReceiveInvalid, C!ReceiveFails, C!Receive, C!Throw
<1>5. CASE C!ReceiveChunk
  <2>1. got' \in 0 .. Len(sent)
    BY <1>5, Received DEF C!ReceiveChunk
  <2> QED
    BY <1>1, <1>5, <2>1 DEF C!ReceiveChunk, C!Receive, C!PushThen
<1>6. CASE C!Notify \/ C!CloseSocket \/ C!SetDoneReceiving \/ C!Join
  BY <1>1, <1>6 DEF C!Notify, C!CloseSocket, C!SetDoneReceiving, C!Join, C!parserVars
<1>7. CASE C!Decompress \/ C!SpuriousWake
  <2>1. UNCHANGED <<got, pos, cafter, outcome, socket>>
    BY <1>7
    DEF C!Decompress, C!LockQueue, C!TestQueue, C!Block, C!Pop, C!Check, C!Handled,
        C!OpenFile, C!WriteChunk, C!SpuriousWake, C!callerVars, C!parserVars
  <2> QED
    BY <1>1, <2>1
<1> QED
  BY <1>2, <1>3, <1>4, <1>5, <1>6, <1>7 DEF ClientStep, C!ClientNext, C!Caller

LEMMA ParserSteps ==
  ASSUME ThreadsInv, StreamInv, ClientInv, ClientStep
  PROVE  ParserInv'
<1>1. sent' = sent /\ mode' = mode
  BY DEF ClientStep, vars, requestVars, transmitVars
<1>2. ParserInv /\ CallerInv /\ Shaped(sent)
  BY DEF ClientInv, StreamInv
<1>3. CASE C!ReceiveFile
  <2>1. /\ pos = "file" /\ got \in Nat /\ got' = got + 1 /\ fileMessage' = sent[got + 1]
        /\ sent[got + 1].type = "file" /\ outcome' = outcome
        /\ ClientWhere = "file" /\ ClientWhere' = "header"
    BY <1>3, Received DEF C!ReceiveFile, C!PushThen, ClientWhere
  <2>2. outcome = "none"
    BY <1>2, <2>1 DEF CallerInv
  <2>3. \A i \in 1 .. got' : i \in 1 .. got \/ i = got + 1
    BY <2>1
  <2> QED
    BY <1>1, <1>2, <2>1, <2>2, <2>3 DEF ParserInv
<1>4. CASE C!ReceiveHeader
  <2>1. /\ pos = "header" /\ got \in Nat /\ got' = got + 1 /\ cheader' = sent[got + 1]
        /\ sent[got + 1].type = "header" /\ UNCHANGED <<outcome, fileMessage>>
        /\ ClientWhere = "header" /\ ClientWhere' = "chunk"
    BY <1>4, Received DEF C!ReceiveHeader, ClientWhere
  <2>2. outcome = "none"
    BY <1>2, <2>1 DEF CallerInv
  <2>3. \A i \in 1 .. got' : i \in 1 .. got \/ i = got + 1
    BY <2>1
  <2>4. PICK k \in 1 .. got : /\ sent[k] = fileMessage /\ sent[k].type = "file"
                              /\ \A j \in k + 1 .. got : sent[j].type # "file"
    BY <1>2, <2>1 DEF ParserInv
  <2>5. k \in 1 .. got' /\ \A j \in k + 1 .. got' : sent[j].type # "file"
    BY <2>1, <2>4
  <2> QED
    BY <1>1, <1>2, <2>1, <2>2, <2>3, <2>4, <2>5 DEF ParserInv
<1>5. CASE C!ReceiveChunk
  <2>1. /\ pos = "chunk" /\ got \in Nat /\ got' = got + 1 /\ got + 1 \in 1 .. Len(sent)
        /\ ClientWhere = "chunk" /\ fileMessage' = fileMessage
    BY <1>5, Received DEF C!ReceiveChunk, ClientWhere
  <2>2. /\ outcome = "none"
        /\ got > 0 /\ sent[got].type = "header" /\ cheader = sent[got]
    BY <1>2, <2>1 DEF CallerInv, ParserInv
  <2>3. PICK k \in 1 .. got : /\ sent[k] = fileMessage /\ sent[k].type = "file"
                              /\ \A j \in k + 1 .. got : sent[j].type # "file"
    BY <1>2, <2>1 DEF ParserInv
  <2>4. /\ sent[got + 1].type \in {"chunk", "error"}
        /\ sent[got + 1].type = "error" => mode = "train"
    <3>1. got \in 1 .. Len(sent) - 1
      BY <2>1, <2>2
    <3>2. Follows(sent[got], sent[got + 1])
      BY <1>2, <3>1 DEF Shaped
    <3> QED
      BY <2>2, <3>2, ErrorIsMessage DEF Follows, ChunkData
  <2>5. /\ \A i \in 1 .. got' : i \in 1 .. got \/ i = got + 1
        /\ \A i \in 1 .. got' : sent[i].type = "error" =>
             mode = "train" /\ i > 1 /\ sent[i - 1].type = "header"
    <3>1. \A i \in 1 .. got' : i \in 1 .. got \/ i = got + 1
      BY <2>1
    <3>2. sent[(got + 1) - 1] = sent[got] /\ got + 1 > 1
      BY <2>1, <2>2
    <3> QED
      BY <1>2, <2>2, <2>4, <3>1, <3>2 DEF ParserInv
  <2>6. k \in 1 .. got' /\ \A j \in k + 1 .. got' : sent[j].type # "file"
    BY <2>1, <2>3, <2>4
  <2>7. CASE sent[got].last /\ fileMessage.last
    <3>1. ClientWhere' = "close" /\ outcome' = "returned"
      BY <1>5, <2>2, <2>7 DEF C!ReceiveChunk, C!PushThen, ClientWhere
    <3>2. Closing(sent, got)
      <4>1. k \in 1 .. got - 1 /\ LastFile(sent[k])
        BY <2>1, <2>2, <2>3, <2>7 DEF LastFile
      <4>2. got \in 1 .. Len(sent)
        BY <2>1, <2>2
      <4> QED
        BY <2>2, <2>7, <4>1, <4>2 DEF Closing
    <3>3. got' > 1 /\ got' - 1 = got
      BY <2>1, <2>2
    <3>4. Closing(sent, got - 1)'
      BY <1>1, <3>2, <3>3 DEF Closing, LastFile
    <3> QED
      BY <1>1, <2>5, <3>1, <3>3, <3>4 DEF ParserInv
  <2>8. CASE ~(sent[got].last /\ fileMessage.last)
    <3>1. /\ outcome' = outcome
          /\ ClientWhere' = IF sent[got].last THEN "file" ELSE "header"
      BY <1>5, <2>2, <2>8 DEF C!ReceiveChunk, C!PushThen, ClientWhere
    <3>2. sent[got'].type # "header"
      BY <2>1, <2>4
    <3>3. ClientWhere' = "file" => ~fileMessage.last
      BY <2>8, <3>1
    <3> QED
      BY <1>1, <2>1, <2>2, <2>3, <2>5, <2>6, <3>1, <3>2, <3>3 DEF ParserInv
  <2> QED
    BY <2>7, <2>8
<1>6. CASE C!ReceiveInvalid \/ C!ReceiveFails \/ C!SendRequestFails \/ C!ConnectFails
  <2>1. ClientWhere' = "close" /\ outcome' = "threw"
    BY <1>6 DEF C!ReceiveInvalid, C!ReceiveFails, C!SendRequestFails, C!ConnectFails,
                C!Throw, ClientWhere
  <2> QED
    BY <2>1 DEF ParserInv
<1>7. CASE C!Notify
  <2>1. ClientWhere' = ClientWhere /\ UNCHANGED <<got, outcome, fileMessage, cheader>>
    BY <1>2, <1>7 DEF C!Notify, C!parserVars, ClientWhere, CallerInv
  <2> QED
    BY <1>1, <1>2, <2>1 DEF ParserInv, Closing, LastFile
<1>8. CASE \/ C!Connect \/ C!SendRequest \/ C!Destroy \/ C!CloseSocket
           \/ C!SetDoneReceiving \/ C!Join
  <2>1. /\ UNCHANGED <<got, outcome, fileMessage, cheader>>
        /\ \/ ClientWhere' \notin {"file", "header", "chunk"}
           \/ ClientWhere' = "file" /\ got = 0
    BY <1>2, <1>8 DEF C!Connect, C!SendRequest, C!Destroy, C!CloseSocket,
                      C!SetDoneReceiving, C!Join, C!parserVars, ClientWhere, CallerInv
  <2> QED
    BY <1>1, <1>2, <2>1 DEF ParserInv, Closing, LastFile
<1>9. CASE C!Decompress \/ C!SpuriousWake
  <2>1. UNCHANGED <<got, pos, cafter, outcome, fileMessage, cheader>>
    BY <1>9
    DEF C!Decompress, C!LockQueue, C!TestQueue, C!Block, C!Pop, C!Check, C!Handled,
        C!OpenFile, C!WriteChunk, C!SpuriousWake, C!callerVars, C!parserVars
  <2> QED
    BY <1>1, <1>2, <2>1 DEF ParserInv, ClientWhere, Closing, LastFile
<1> QED
  BY <1>3, <1>4, <1>5, <1>6, <1>7, <1>8, <1>9 DEF ClientStep, C!ClientNext, C!Caller

\* What requestFile queues may be written, and decompress changes none of it.
LEMMA WriterSteps ==
  ASSUME ThreadsInv, StreamInv, ClientInv, ClientStep
  PROVE  WriterInv'
<1>1. mode' = mode
  BY DEF ClientStep, vars, requestVars
<1>2. Writable' = Writable
  BY <1>1 DEF Writable
<1>3. entries \in Seq(Writable) /\ entry \in Writable \union {None} /\ (dpc = "write" => entry # None)
  BY DEF ClientInv, WriterInv
<1>4. CASE C!ReceiveFile
  <2>1. /\ sent[got + 1] \in C!OfType("file") /\ C!Incoming = sent[got + 1]
        /\ UNCHANGED <<entry, dpc>>
        /\ entries' = Append(entries, C!FileEntry(C!Incoming))
    BY <1>4, Received DEF C!ReceiveFile, C!PushThen, C!OfType, C!writerVars
  <2>2. C!FileEntry(sent[got + 1]) \in Writable
    BY <2>1 DEF Writable, C!Entry, C!FileEntry
  <2>3. entries' \in Seq(Writable)
    BY <1>3, <2>1, <2>2, AppendProperties
  <2> QED
    BY <1>2, <1>3, <2>1, <2>3 DEF WriterInv
<1>5. CASE C!ReceiveChunk
  <2>1. /\ sent[got + 1] \in Message /\ C!Incoming = sent[got + 1]
        /\ got \in Nat /\ got + 1 \in 1 .. Len(sent) /\ ClientWhere = "chunk"
        /\ UNCHANGED <<entry, dpc>>
        /\ entries' = Append(entries, C!ChunkEntry(cheader, C!Incoming))
    BY <1>5, Received DEF C!ReceiveChunk, C!PushThen, C!writerVars, ClientWhere
  <2>2. got > 0 /\ sent[got].type = "header" /\ cheader = sent[got]
    BY <2>1 DEF ClientInv, ParserInv
  <2>3. got \in 1 .. Len(sent) - 1 /\ sent[got] \in Message
    <3>1. got \in 1 .. Len(sent) - 1 /\ got \in 1 .. Len(sent) /\ sent \in Seq(Message)
      BY <2>1, <2>2, LenProperties DEF ThreadsInv, TypeOK
    <3> QED
      BY <3>1, ElementOfSeq
  <2>4. sent[got + 1].type = "chunk" \/ mode = "train"
    <3>1. Follows(sent[got], sent[got + 1])
      BY <2>3 DEF StreamInv, Shaped
    <3> QED
      BY <2>2, <3>1 DEF Follows, ChunkData
  <2>5. cheader \in C!OfType("header")
    BY <2>2, <2>3 DEF C!OfType
  <2>6. C!ChunkEntry(cheader, sent[got + 1]) \in C!Entry
    BY <2>1, <2>5 DEF C!Entry
  <2>7. C!ChunkEntry(cheader, sent[got + 1]) \in Writable
    BY <2>4, <2>6 DEF Writable, C!ChunkEntry
  <2>8. entries' \in Seq(Writable)
    BY <1>3, <2>1, <2>7, AppendProperties
  <2> QED
    BY <1>2, <1>3, <2>1, <2>8 DEF WriterInv
<1>6. CASE \/ C!Connect \/ C!ConnectFails \/ C!Destroy \/ C!SendRequest
           \/ C!SendRequestFails \/ C!ReceiveHeader \/ C!ReceiveInvalid \/ C!ReceiveFails
           \/ C!Notify \/ C!CloseSocket \/ C!SetDoneReceiving \/ C!Join
  <2>1. UNCHANGED <<entries, entry>> /\ (dpc' = "write" => dpc = "write")
    BY <1>6
    DEF C!Connect, C!ConnectFails, C!Destroy, C!SendRequest, C!SendRequestFails,
        C!ReceiveHeader, C!ReceiveInvalid, C!ReceiveFails, C!Throw, C!Notify,
        C!CloseSocket, C!SetDoneReceiving, C!Join, C!sharedVars, C!writerVars
  <2> QED
    BY <1>2, <1>3, <2>1 DEF WriterInv
<1>7. CASE C!LockQueue \/ C!TestQueue \/ C!Block \/ C!Check \/ C!SpuriousWake
  <2>1. UNCHANGED <<entries, entry>> /\ (dpc' = "write" => entry # None)
    BY <1>7 DEF C!LockQueue, C!TestQueue, C!Block, C!Check, C!SpuriousWake, C!sharedVars
  <2> QED
    BY <1>2, <1>3, <2>1 DEF WriterInv
<1>8. CASE C!Pop
  <2>1. dpc' = "check"
    BY <1>8 DEF C!Pop
  <2>2. CASE entries # <<>> /\ entry' = Head(entries) /\ entries' = Tail(entries)
    <3>1. Head(entries) \in Writable /\ Tail(entries) \in Seq(Writable)
      BY <1>3, <2>2, HeadTailProperties
    <3> QED
      BY <1>2, <2>1, <2>2, <3>1 DEF WriterInv
  <2>3. CASE UNCHANGED <<entry, entries>>
    BY <1>2, <1>3, <2>1, <2>3 DEF WriterInv
  <2> QED
    BY <1>8, <2>2, <2>3 DEF C!Pop
<1>9. CASE C!OpenFile \/ C!WriteChunk
  <2>1. entries' = entries /\ entry' = None /\ dpc' # "write"
    BY <1>9 DEF C!OpenFile, C!WriteChunk, C!Handled, C!sharedVars
  <2> QED
    BY <1>2, <1>3, <2>1 DEF WriterInv
<1> QED
  BY <1>4, <1>5, <1>6, <1>7, <1>8, <1>9 DEF ClientStep, C!ClientNext, C!Caller, C!Decompress

-------------------------------------------------------------------------------
(* What a transfer achieves                                                *)

\* A request that returned has all there was.
LEMMA ReturnedComplete ==
  ASSUME ThreadsInv, StreamInv, ServerInv, ClientInv, outcome = "returned", mode # "train"
  PROVE  /\ AllRead /\ queue = <<>> /\ buffer = None /\ files = 0
         /\ \A f \in 1 .. file : HasFile(sent, f)
<1>1. /\ got > 1 /\ Closing(sent, got - 1) /\ got \in 0 .. Len(sent)
      /\ \A i \in 1 .. got : sent[i].type # "error"
  BY DEF ClientInv, CallerInv, ParserInv
<1>2. /\ sent \in Seq(Message) /\ InHand \in Seq(Message) /\ queue \in Seq(Message)
      /\ sent \o InHand \in Seq(Message)
      /\ Len(sent) \in Nat /\ Len(InHand) \in Nat /\ Len(queue) \in Nat
  BY MadeType, LenProperties DEF ThreadsInv
<1>3. ~failed
  <2>1. got - 1 \in 1 .. Len(sent) - 1
    BY <1>1, <1>2
  <2> QED
    BY <1>1, <2>1 DEF ServerInv
<1>4. FilesMade /\ DueInv
  BY <1>3 DEF ServerInv, StreamInv
<1>5. /\ Len(Made) = Len(sent) + Len(InHand) + Len(queue)
      /\ \A i \in 1 .. Len(sent) : Made[i] = sent[i]
  <2>1. /\ Len(sent \o InHand) = Len(sent) + Len(InHand)
        /\ \A i \in 1 .. Len(sent) : (sent \o InHand)[i] = sent[i]
    BY <1>2, ConcatProperties
  <2>2. /\ Len(Made) = Len(sent \o InHand) + Len(queue)
        /\ \A i \in 1 .. Len(sent \o InHand) : Made[i] = (sent \o InHand)[i]
    BY <1>2, ConcatProperties DEF Made
  <2> QED
    BY <1>2, <2>1, <2>2
<1>6. Len(Made) \in Nat /\ Len(sent) <= Len(Made)
  BY <1>2, <1>5
<1>7. Closing(Made, got - 1)
  <2>1. got - 1 \in 1 .. Len(sent)
    BY <1>1, <1>2
  <2> QED
    BY <1>1, <1>2, <1>5, <1>6, <2>1, Longer
<1>8. got - 1 = Len(Made) \/ got - 1 = Len(Made) - 1
  BY <1>4, <1>7 DEF FilesMade
<1>9. got = Len(sent) /\ Len(InHand) = 0 /\ Len(queue) = 0 /\ Len(Made) = Len(sent)
  BY <1>1, <1>2, <1>5, <1>8
<1>10. queue = <<>> /\ buffer = None
  <2>1. InHand = <<>>
    BY <1>2, <1>9, EmptySeq
  <2> QED
    BY <1>2, <1>9, <2>1, EmptySeq DEF InHand
<1>11. files = 0
  <2>1. PICK k \in 1 .. (got - 1) - 1 : LastFile(Made[k])
    BY <1>7 DEF Closing
  <2>2. k \in 1 .. Len(Made)
    BY <1>1, <1>2, <1>9, <2>1
  <2> QED
    BY <1>4, <2>1, <2>2 DEF DueInv
<1>12. \A f \in 1 .. file : HasFile(sent, f)
  <2>1. ~HasError(Made)
    BY <1>1, <1>5, <1>9 DEF HasError
  <2>2. \A f \in 1 .. file : HasFile(Made, f)
    BY <1>4, <2>1 DEF FilesMade
  <2> QED
    BY <1>5, <1>9, <2>2 DEF HasFile
<1> QED
  BY <1>9, <1>10, <1>11, <1>12 DEF AllRead

\* A server that is done has nothing to send any more, if the connection works.
LEMMA DoneServer ==
  ASSUME ThreadsInv, ServerInv, ServerDone, link = "up", rpc # "rejected"
  PROVE  /\ ~failed /\ Where = "returned" /\ files = 0
         /\ Made = sent
<1>1. tpc = "ended" /\ rpc \in {"threw", "returned"}
  BY DEF ServerDone, Ended, ThreadsInv, TransmitInv
<1>2. ~failed
  BY DEF ServerInv
<1>3. tdone /\ requestDone /\ queue = <<>> /\ buffer = None
  BY <1>1, <1>2 DEF ThreadsInv, TransmitInv
<1>4. Where = "returned"
  BY <1>1, <1>3 DEF ThreadsInv, TransmitInv, Where
<1>5. sent \in Seq(Message)
  BY DEF ThreadsInv, TypeOK
<1>6. Made = sent
  BY <1>3, <1>5, ConcatEmptySeq DEF Made, InHand
<1> QED
  BY <1>2, <1>4, <1>6 DEF ServerInv

\* What may leave the client waiting.
LEMMA Waiting ==
  ASSUME ThreadsInv, StreamInv, ServerInv, ClientInv
  PROVE  LeftWaiting
<1> SUFFICES ASSUME ServerDone, link = "up", AllRead, Awaiting, rpc # "rejected"
             PROVE  mode # "train" /\ (sent = <<>> \/ pos = "header")
  BY DEF LeftWaiting
<1>1. ~failed /\ Where = "returned" /\ files = 0 /\ Made = sent
  BY DoneServer
<1>2. /\ ClientWhere = pos /\ pos \in {"file", "header", "chunk"} /\ outcome = "none"
      /\ got = Len(sent)
  BY DEF Awaiting, AllRead, ClientWhere, ClientInv, CallerInv
<1>3. Len(sent) \in Nat /\ (Len(sent) = 0 <=> sent = <<>>)
  BY EmptySeq, LenProperties DEF ThreadsInv, TypeOK
<1>4. \A i \in 1 .. got : sent[i].type = "error" =>
        mode = "train" /\ i > 1 /\ sent[i - 1].type = "header"
  BY <1>2 DEF ClientInv, ParserInv
<1>5. mode # "train"
  <2> SUFFICES ASSUME mode = "train"
               PROVE  FALSE
    OBVIOUS
  <2>1. /\ got > 1 /\ sent[got].type = "error" /\ sent[got - 1].type = "error"
    BY <1>1, <1>2 DEF ServerInv, ErrorsMade
  <2>2. got \in 1 .. got
    BY <1>2, <1>3, <2>1
  <2> QED
    BY <1>4, <2>1, <2>2
<1>6. ASSUME sent # <<>>
      PROVE  pos = "header"
  <2>1. got > 0
    BY <1>2, <1>3, <1>6
  <2>2. pos # "chunk"
    <3>1. sent[got].type # "header"
      BY <1>1, <1>2, <1>6 DEF StreamInv, DueInv
    <3> QED
      BY <1>2, <3>1 DEF ClientInv, ParserInv
  <2>3. pos # "file"
    <3> SUFFICES ASSUME pos = "file"
                 PROVE  FALSE
      OBVIOUS
    <3>1. PICK k \in 1 .. got : /\ sent[k] = fileMessage /\ sent[k].type = "file"
                                /\ \A j \in k + 1 .. got : sent[j].type # "file"
      BY <1>2, <2>1 DEF ClientInv, ParserInv
    <3>2. ~sent[k].last
      BY <1>2, <2>1, <3>1 DEF ClientInv, ParserInv
    <3>3. HasLast(sent)
      <4>1. ~HasError(sent)
        BY <1>2, <1>4, <1>5 DEF HasError
      <4>2. FilesMade
        BY <1>1, <1>5 DEF ServerInv
      <4>3. file \in Nat
        BY DEF ThreadsInv, TypeOK
      <4> QED
        BY <1>1, <1>6, <4>1, <4>2, <4>3 DEF FilesMade
    <3>4. PICK i \in 1 .. Len(sent) : LastFile(sent[i])
      BY <3>3 DEF HasLast
    <3>5. ~(i < k)
      BY <1>2, <3>1, <3>4 DEF StreamInv, Shaped
    <3>6. i # k
      BY <3>2, <3>4 DEF LastFile
    <3>7. i \notin k + 1 .. got
      BY <3>1, <3>4 DEF LastFile
    <3> QED
      BY <1>2, <1>3, <3>1, <3>4, <3>5, <3>6, <3>7
  <2> QED
    BY <1>2, <2>2, <2>3
<1> QED
  BY <1>5, <1>6

\* A chunk's data is where a chunk is due.
LEMMA Step ==
  ASSUME ThreadsInv, StreamInv, ClientInv
  PROVE  InStep
<1> SUFFICES ASSUME pos \in {"file", "header"}, got # Len(sent)
             PROVE  sent[got + 1].type # "chunk"
  BY DEF InStep, AllRead
<1>1. /\ got \in Nat /\ Len(sent) \in Nat /\ got < Len(sent) /\ sent # <<>>
      /\ ClientWhere = pos
  BY EmptySeq, LenProperties DEF ThreadsInv, TypeOK, ClientInv, CallerInv, ClientWhere
<1>2. Shaped(sent)
  BY DEF StreamInv
<1>3. CASE got = 0
  BY <1>1, <1>2, <1>3 DEF Shaped
<1>4. CASE got > 0
  <2>1. sent[got].type # "header" /\ got \in 1 .. Len(sent) - 1
    BY <1>1, <1>4 DEF ClientInv, ParserInv
  <2> QED
    BY <1>2, <2>1 DEF Shaped, Follows
<1> QED
  BY <1>1, <1>3, <1>4

LEMMA KilledSteps ==
  ASSUME ThreadsInv, StreamInv, ServerInv, ClientInv, [TransferNext]_transferVars
  PROVE  KilledInv'
<1>1. mode' = mode
  BY TransferSteps, ControlServer
<1>2. CASE SendKills
  <2>1. tpc = "send" /\ socket = "closed" /\ outcome' = outcome
    BY <1>2 DEF SendKills, At, clientVars
  <2>2. buffer # None /\ rpc \notin {"receive", "rejected"}
    BY <2>1 DEF ThreadsInv, TransmitInv
  <2>3. outcome # "none"
    BY <2>1, <2>2 DEF ClientInv, CallerInv
  <2>4. outcome = "returned" => mode = "train"
    BY <2>2, ReturnedComplete
  <2> QED
    BY <1>1, <2>1, <2>3, <2>4 DEF ClientInv, CallerInv, KilledInv
<1>3. CASE process' = process /\ (outcome # "none" => outcome' = outcome)
  BY <1>1, <1>3 DEF ClientInv, KilledInv
<1>4. CASE ClientStep
  BY <1>3, <1>4, ClientControl DEF ClientStep, connectionVars
<1>5. CASE ServerStep \/ Break \/ ServerCloses \/ UNCHANGED transferVars
  BY <1>3, <1>5
  DEF ServerStep, Break, ServerCloses, transferVars, clientVars, connectionVars
<1> QED
  BY <1>2, <1>4, <1>5 DEF TransferNext

LEMMA NextClient ==
  ASSUME ThreadsInv, StreamInv, ServerInv, ClientInv, [TransferNext]_transferVars
  PROVE  ClientInv'
<1>1. CASE ClientStep
  BY <1>1, ClientControl, ParserSteps, WriterSteps, KilledSteps DEF ClientInv
<1>2. CASE ServerStep \/ Break \/ ServerCloses \/ SendKills \/ UNCHANGED transferVars
  BY <1>2, ServerKeepsClient, KilledSteps DEF ClientInv
<1> QED
  BY <1>1, <1>2 DEF TransferNext

LEMMA Clients == TransferSpec => []ClientInv
<1>1. /\ ThreadsInv /\ StreamInv /\ ServerInv /\ ClientInv
      /\ [TransferNext]_transferVars
      => ClientInv'
  BY NextClient
<1> QED
  BY <1>1, InitClient, Server, PTL DEF TransferSpec

\* Whatever errors come in between, the client never takes a chunk's data for a
\* message.
THEOREM StaysInStep == TransferSpec => []InStep
<1>1. ThreadsInv /\ StreamInv /\ ServerInv /\ ClientInv => InStep
  BY Step
<1> QED
  BY <1>1, Server, Clients, PTL

\* When requestFile of a mode that transfers files returns, nothing is left to send,
\* no other file is there, and every file the server began has been received.
THEOREM TransferCompletes == TransferSpec => []CompleteTransfer
<1>1. ThreadsInv /\ StreamInv /\ ServerInv /\ ClientInv => CompleteTransfer
  BY ReturnedComplete DEF CompleteTransfer, HasFile
<1> QED
  BY <1>1, Server, Clients, PTL

\* A server that is done leaves the client waiting on a working connection only if
\* it rejected the request, found no file or cut one short; never in training.
THEOREM SeldomWaiting == TransferSpec => []LeftWaiting
<1>1. ThreadsInv /\ StreamInv /\ ServerInv /\ ClientInv => LeftWaiting
  BY Waiting
<1> QED
  BY <1>1, Server, Clients, PTL

\* A client that closes its connection after a normal transfer does not kill the
\* server by SIGPIPE: nothing is left to be sent then.
THEOREM KilledAfterErrors == TransferSpec => []KilledOnlyAfterErrors
<1>1. ClientInv => KilledOnlyAfterErrors
  BY DEF ClientInv, KilledInv, KilledOnlyAfterErrors
<1> QED
  BY <1>1, Clients, PTL

\* Outside of training, what decompress writes as a chunk is a chunk's data.
THEOREM ChunksWritten == TransferSpec => []WritesOnlyChunks
<1>1. ClientInv => WritesOnlyChunks
  BY DEF ClientInv, WriterInv, Writable, WritesOnlyChunks
<1> QED
  BY <1>1, Clients, PTL
===============================================================================
