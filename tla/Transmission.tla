----------------------------- MODULE Transmission -----------------------------
(***************************************************************************)
(* One request on the server (server.cpp): processRequest, which prepares  *)
(* the messages of the requested files, and transmit, a second task of the *)
(* thread pool, which sends them.  They share the request's locals: the    *)
(* transmission queue (a SynchronousQueue, each method one step), the flag *)
(* requestDone, a mutex and a condition variable.                          *)
(*                                                                         *)
(* processRequest pushes and notifies without the mutex, and sets          *)
(* requestDone under it.  transmit holds the mutex from the evaluation of  *)
(* its predicate until it sleeps, and around pop and the exit test.        *)
(*                                                                         *)
(* What a file, a chunk or an error text contains is left out: a message   *)
(* is its kind, its place and its last-flag.                               *)
(***************************************************************************)
EXTENDS Naturals, Sequences

CONSTANTS
  MaxFiles,     \* bound: files under the requested path
  MaxChunks,    \* bound: chunks of a file
  MaxErrors,    \* bound: entries of the directory that cannot be examined
  Modes,        \* the kinds of request: see below
  None          \* no message

\* "plain": every mode in which the file processor throws only what
\* processRequest catches; "train": TRAIN; "snappy": PRE_COMPRESS with SNAPPY,
\* for which PreCompressingFileProcessor has no compression script.
ASSUME TransmissionAssumption ==
  /\ MaxFiles \in Nat /\ MaxChunks \in Nat /\ MaxErrors \in Nat
  /\ Modes \subseteq {"plain", "train", "snappy"}

Files  == 1 .. MaxFiles
Chunks == 1 .. MaxChunks

\* Of the file's size only whether it is zero matters.
FileInitialMessage(f, last, empty) ==
  [type |-> "file", file |-> f, last |-> last, empty |-> empty]
ChunkHeader(f, c, last) ==
  [type |-> "header", file |-> f, chunk |-> c, last |-> last]
ChunkData(f, c) == [type |-> "chunk", file |-> f, chunk |-> c]
ErrorMessage    == [type |-> "error"]

Message ==
  {FileInitialMessage(f, l, e) : f \in Files, l \in BOOLEAN, e \in BOOLEAN}
    \union {ChunkHeader(f, c, l) : f \in Files, c \in Chunks, l \in BOOLEAN}
    \union {ChunkData(f, c) : f \in Files, c \in Chunks}
    \union {ErrorMessage}

ASSUME MessageAssumption == None \notin Message

VARIABLES
  mode,         \* fileRequest.mode()
  rpc,          \* where processRequest is
  after,        \* where it goes after the notification it is about to make
  files,        \* files the directory explorer has still to give
  file,         \* the current file
  chunks,       \* chunks the current file has still to give
  chunk,        \* the current chunk (chunkposition + 1)
  errors,       \* bound: stat errors that may still happen
  queue,        \* transmissionQueue
  requestDone,
  mutex,        \* "free", or "transmit" while transmit holds it
  tpc,          \* where transmit is
  buffer,       \* the message transmit dequeued, or None
  tdone,        \* transmit's local done
  link,         \* the connection: "up" or "down"
  failed,       \* history: a send threw NetworkError
  sent          \* history: the messages the socket accepted

fileVars     == <<files, file, chunks, chunk, errors>>
requestVars  == <<mode, rpc, after, fileVars>>
sharedVars   == <<queue, requestDone, mutex>>
transmitVars == <<tpc, buffer, tdone, failed, sent>>
vars == <<requestVars, sharedVars, transmitVars, link>>

Init ==
  /\ mode \in Modes
  /\ rpc = "receive" /\ after = "receive"
  /\ files = 0 /\ file = 0 /\ chunks = 0 /\ chunk = 0
  /\ errors = MaxErrors
  /\ queue = <<>> /\ requestDone = FALSE /\ mutex = "free"
  /\ tpc = "none" /\ buffer = None /\ tdone = FALSE
  /\ link = "up" /\ failed = FALSE /\ sent = <<>>

-------------------------------------------------------------------------------
(* processRequest                                                          *)

\* The request cannot be received.
ReceiveFails ==
  /\ rpc = "receive"
  /\ rpc' = "rejected"
  /\ UNCHANGED <<mode, after, fileVars, sharedVars, transmitVars, link>>

\* The request cannot be parsed, its compressor or level is not valid, or its
\* path cannot be prepared: the error is queued, nobody is there to send it.
Reject ==
  /\ rpc = "receive"
  /\ queue' = Append(queue, ErrorMessage)
  /\ rpc' = "rejected"
  /\ UNCHANGED <<mode, after, fileVars, requestDone, mutex, transmitVars,
                 link>>

\* The request is accepted and transmit is submitted to the pool.  The path
\* may be a directory without files.
Accept ==
  /\ rpc = "receive"
  /\ \E n \in 0 .. MaxFiles : files' = n
  /\ rpc' = "files"
  /\ tpc' = "submitted"
  /\ UNCHANGED <<mode, after, file, chunks, chunk, errors, sharedVars, buffer,
                 tdone, failed, sent, link>>

\* push(m), then notify_one(), then on to label.
PushThen(m, label) ==
  /\ queue' = Append(queue, m)
  /\ rpc' = "notify"
  /\ after' = label

\* Mutant of OpenFile: the last file is announced one file too early.
OpenFile_EarlyLast ==
  /\ rpc = "files" /\ files > 0 /\ mode # "snappy"
  /\ files' = files - 1
  /\ file' = file + 1
  /\ \E n \in 0 .. MaxChunks : chunks' = n
  /\ chunk' = 0
  /\ PushThen(FileInitialMessage(file', files' <= 1, chunks' = 0), "chunks")
  /\ UNCHANGED <<mode, errors, requestDone, mutex, transmitVars, link>>

\* openNextFile and the file's initial message; lastfile is whether the
\* explorer has no other file.  The file may be empty.
OpenFile ==
  /\ rpc = "files" /\ files > 0 /\ mode # "snappy"
  /\ files' = files - 1
  /\ file' = file + 1
  /\ \E n \in 0 .. MaxChunks : chunks' = n
  /\ chunk' = 0
  /\ PushThen(FileInitialMessage(file', files' = 0, chunks' = 0), "chunks")
  /\ UNCHANGED <<mode, errors, requestDone, mutex, transmitVars, link>>

\* openNextFile throws IOError or CompressionError: the file is skipped.
OpenFileFails ==
  /\ rpc = "files" /\ files > 0 /\ mode # "snappy"
  /\ files' = files - 1
  /\ file' = file + 1
  /\ PushThen(ErrorMessage, "files")
  /\ UNCHANGED <<mode, chunks, chunk, errors, requestDone, mutex, transmitVars,
                 link>>

\* The explorer cannot examine the entry after the file it should give: the
\* exception leaves getNextFileName before it returns, and the same file is
\* given again by the next call.
ExploreFails ==
  /\ rpc = "files" /\ files > 0 /\ errors > 0
  /\ errors' = errors - 1
  /\ PushThen(ErrorMessage, "files")
  /\ UNCHANGED <<mode, files, file, chunks, chunk, requestDone, mutex,
                 transmitVars, link>>

\* compressorScripts.at(SNAPPY) throws std::out_of_range, which processRequest
\* does not catch: its locals, the queue and the condition variable among them,
\* are destroyed, and the pool's packaged_task keeps the exception.
OpenFileThrows ==
  /\ rpc = "files" /\ files > 0 /\ mode = "snappy"
  /\ rpc' = "threw"
  /\ UNCHANGED <<mode, after, fileVars, sharedVars, transmitVars, link>>

\* Mutant of FilesDone: the queue is cleared in every mode.
FilesDone_AlwaysClears ==
  /\ rpc = "files" /\ files = 0
  /\ rpc' = "clear"
  /\ UNCHANGED <<mode, after, fileVars, sharedVars, transmitVars, link>>

FilesDone ==
  /\ rpc = "files" /\ files = 0
  /\ rpc' = IF mode = "train" THEN "clear" ELSE "finish"
  /\ UNCHANGED <<mode, after, fileVars, sharedVars, transmitVars, link>>

\* Mutant of NextChunk: the header is not queued.
NextChunk_NoHeader ==
  /\ rpc = "chunks" /\ chunks > 0
  /\ chunks' \in {chunks - 1, 0}
  /\ chunk' = chunk + 1
  /\ rpc' = "data"
  /\ UNCHANGED <<mode, after, files, file, errors, sharedVars, transmitVars,
                 link>>

\* getNextChunk and the chunk's header; lastchunk is whether hasNextChunk is
\* false by then, which a read that comes up short also makes it.
NextChunk ==
  /\ rpc = "chunks" /\ chunks > 0
  /\ chunks' \in {chunks - 1, 0}
  /\ chunk' = chunk + 1
  /\ queue' = Append(queue, ChunkHeader(file, chunk', chunks' = 0))
  /\ rpc' = "data"
  /\ UNCHANGED <<mode, after, files, file, errors, requestDone, mutex,
                 transmitVars, link>>

PushChunk ==
  /\ rpc = "data"
  /\ PushThen(ChunkData(file, chunk), "chunks")
  /\ UNCHANGED <<mode, fileVars, requestDone, mutex, transmitVars, link>>

\* getNextChunk throws IOError: the loop is left, nothing is sent about it.
ChunkFails ==
  /\ rpc = "chunks" /\ chunks > 0
  /\ chunks' = 0
  /\ rpc' = "files"
  /\ UNCHANGED <<mode, after, files, file, chunk, errors, sharedVars,
                 transmitVars, link>>

ChunksDone ==
  /\ rpc = "chunks" /\ chunks = 0
  /\ rpc' = "files"
  /\ UNCHANGED <<mode, after, fileVars, sharedVars, transmitVars, link>>

\* notify_one(): the only thread that may sleep is transmit.
Notify ==
  /\ rpc = "notify"
  /\ rpc' = after
  /\ tpc' = IF tpc = "asleep" THEN "woken" ELSE tpc
  /\ UNCHANGED <<mode, after, fileVars, sharedVars, buffer, tdone, failed, sent,
                 link>>

\* TRAIN: what transmit has not taken yet is thrown away, and two error
\* messages end the request on the client's side.
Clear ==
  /\ rpc = "clear"
  /\ queue' = <<>>
  /\ rpc' = "error1"
  /\ UNCHANGED <<mode, after, fileVars, requestDone, mutex, transmitVars,
                 link>>

\* Mutant of PushTrainingError: one error message only.
PushTrainingError_One ==
  /\ rpc = "error1"
  /\ PushThen(ErrorMessage, "finish")
  /\ UNCHANGED <<mode, fileVars, requestDone, mutex, transmitVars, link>>

PushTrainingError ==
  /\ \/ rpc = "error1" /\ PushThen(ErrorMessage, "error2")
     \/ rpc = "error2" /\ PushThen(ErrorMessage, "finish")
  /\ UNCHANGED <<mode, fileVars, requestDone, mutex, transmitVars, link>>

\* Mutant of SetRequestDone: without the notification after it.
SetRequestDone_NoNotify ==
  /\ rpc = "finish"
  /\ mutex = "free"
  /\ requestDone' = TRUE
  /\ rpc' = "wait"
  /\ UNCHANGED <<mode, after, fileVars, queue, mutex, transmitVars, link>>

\* Mutant of SetRequestDone: the flag is set without the mutex.
SetRequestDone_NoMutex ==
  /\ rpc = "finish"
  /\ requestDone' = TRUE
  /\ rpc' = "notify"
  /\ after' = "wait"
  /\ UNCHANGED <<mode, fileVars, queue, mutex, transmitVars, link>>

SetRequestDone ==
  /\ rpc = "finish"
  /\ mutex = "free"
  /\ requestDone' = TRUE
  /\ rpc' = "notify"
  /\ after' = "wait"
  /\ UNCHANGED <<mode, fileVars, queue, mutex, transmitVars, link>>

\* transmissionThread.wait()
AwaitTransmit ==
  /\ rpc = "wait"
  /\ tpc = "ended"
  /\ rpc' = "returned"
  /\ UNCHANGED <<mode, after, fileVars, sharedVars, transmitVars, link>>

-------------------------------------------------------------------------------
(* transmit, a task of the pool                                            *)

\* The locals it works on exist, and it is at this point.
At(label) == rpc # "threw" /\ tpc = label

\* A thread of the pool takes the task.
Start ==
  /\ At("submitted")
  /\ tpc' = "lock"
  /\ UNCHANGED <<requestVars, sharedVars, buffer, tdone, failed, sent, link>>

Lock ==
  /\ At("lock") \/ At("woken")
  /\ mutex' = "transmit"
  /\ tpc' = "test"
  /\ UNCHANGED <<requestVars, queue, requestDone, buffer, tdone, failed, sent,
                 link>>

\* conditionChecker: the queue is not empty, or requestDone.
Test ==
  /\ At("test")
  /\ tpc' = IF queue # <<>> \/ requestDone THEN "pop" ELSE "block"
  /\ UNCHANGED <<requestVars, sharedVars, buffer, tdone, failed, sent, link>>

Block ==
  /\ At("block")
  /\ mutex' = "free"
  /\ tpc' = "asleep"
  /\ UNCHANGED <<requestVars, queue, requestDone, buffer, tdone, failed, sent,
                 link>>

SpuriousWake ==
  /\ At("asleep")
  /\ tpc' = "woken"
  /\ UNCHANGED <<requestVars, sharedVars, buffer, tdone, failed, sent, link>>

\* dequeued is buffer # None.
Pop ==
  /\ At("pop")
  /\ tpc' = "check"
  /\ \/ queue # <<>> /\ buffer' = Head(queue) /\ queue' = Tail(queue)
     \/ queue = <<>> /\ UNCHANGED <<buffer, queue>>
  /\ UNCHANGED <<requestVars, requestDone, mutex, tdone, failed, sent, link>>

\* Mutant of Check: done without looking at the queue.
Check_IgnoresQueue ==
  /\ At("check")
  /\ tdone' = requestDone
  /\ mutex' = "free"
  /\ tpc' = IF buffer # None THEN "send" ELSE IF tdone' THEN "ended" ELSE "lock"
  /\ UNCHANGED <<requestVars, queue, requestDone, buffer, failed, sent, link>>

\* Mutant of Check: something is sent whether a message was dequeued or not.
Check_SendsAnyway ==
  /\ At("check")
  /\ tdone' = (queue = <<>> /\ requestDone)
  /\ mutex' = "free"
  /\ tpc' = "send"
  /\ UNCHANGED <<requestVars, queue, requestDone, buffer, failed, sent, link>>

\* done = queue empty and requestDone.
Check ==
  /\ At("check")
  /\ tdone' = (queue = <<>> /\ requestDone)
  /\ mutex' = "free"
  /\ tpc' = IF buffer # None THEN "send" ELSE IF tdone' THEN "ended" ELSE "lock"
  /\ UNCHANGED <<requestVars, queue, requestDone, buffer, failed, sent, link>>

Send ==
  /\ At("send")
  /\ link = "up"
  /\ sent' = Append(sent, buffer)
  /\ buffer' = None
  /\ tpc' = IF tdone THEN "ended" ELSE "lock"
  /\ UNCHANGED <<requestVars, sharedVars, tdone, failed, link>>

\* send throws NetworkError: the loop is left, the queue stays as it is and
\* processRequest goes on filling it.
SendFails ==
  /\ At("send")
  /\ link = "down"
  /\ failed' = TRUE
  /\ buffer' = None
  /\ tpc' = "ended"
  /\ UNCHANGED <<requestVars, sharedVars, tdone, sent, link>>

\* The connection breaks.
LinkDown ==
  /\ link = "up"
  /\ link' = "down"
  /\ UNCHANGED <<requestVars, sharedVars, transmitVars>>

-------------------------------------------------------------------------------

ProcessRequest ==
  \/ ReceiveFails \/ Reject \/ Accept
  \/ OpenFile \/ OpenFileFails \/ ExploreFails \/ OpenFileThrows \/ FilesDone
  \/ NextChunk \/ PushChunk \/ ChunkFails \/ ChunksDone \/ Notify
  \/ Clear \/ PushTrainingError \/ SetRequestDone \/ AwaitTransmit

Transmit ==
  \/ Start \/ Lock \/ Test \/ Block \/ Pop \/ Check \/ Send \/ SendFails

Next == ProcessRequest \/ Transmit \/ SpuriousWake \/ LinkDown

Spec == Init /\ [][Next]_vars

\* Both threads keep running and get the mutex when it is free again and
\* again, and the pool starts the transmit task (ServerRequests shows when it
\* does).  No fairness for a failure, a wake-up nobody caused, or the choice
\* between a file and an error.
FairSpec ==
  /\ Spec
  /\ WF_vars(ProcessRequest) /\ SF_vars(SetRequestDone)
  /\ WF_vars(Transmit)

-------------------------------------------------------------------------------
(* Properties                                                              *)

Ended == {"rejected", "threw", "returned"}

\* Every variable stays in its range.
TypeOK ==
  /\ mode \in Modes
  /\ {rpc, after} \subseteq
       {"receive", "files", "chunks", "data", "notify", "clear", "error1",
        "error2", "finish", "wait"} \union Ended
  /\ files \in 0 .. MaxFiles /\ file \in 0 .. MaxFiles
  /\ chunks \in 0 .. MaxChunks /\ chunk \in 0 .. MaxChunks
  /\ errors \in 0 .. MaxErrors
  /\ queue \in Seq(Message) /\ sent \in Seq(Message)
  /\ requestDone \in BOOLEAN /\ tdone \in BOOLEAN /\ failed \in BOOLEAN
  /\ mutex \in {"free", "transmit"}
  /\ tpc \in {"none", "submitted", "lock", "test", "block", "asleep", "woken",
              "pop", "check", "send", "ended"}
  /\ buffer \in Message \union {None}
  /\ link \in {"up", "down"}

\* The notification of a push may fall between transmit's predicate and its
\* sleep and be lost, that of requestDone may not: once the flag is set transmit
\* does not go to sleep any more, and if it sleeps already the notification is
\* still to come.  So whatever was pushed past a sleeping transmit is sent.
WakeUpIsDue ==
  /\ tpc = "block" => ~requestDone
  /\ tpc = "asleep" => ~requestDone \/ rpc = "notify"

\* The stream has the shape Client::requestFile parses, whatever fails on the
\* way: a header is followed by its own chunk (or, in training, by the error
\* that ends the request), the chunks of a file count up from one after its
\* initial message, and no file follows the one announced as the last.
StreamWellFormed ==
  /\ \A i \in 1 .. Len(sent) - 1 :
       LET m == sent[i]
           n == sent[i + 1]
       IN  /\ m.type = "header" =>
                \/ n = ChunkData(m.file, m.chunk)
                \/ mode = "train" /\ n = ErrorMessage
           /\ n.type = "chunk" => m.type = "header"
           /\ n.type = "header" =>
                \/ m.type = "file" /\ ~m.empty /\ n.file = m.file /\ n.chunk = 1
                \/ m.type = "chunk" /\ n.file = m.file /\ n.chunk = m.chunk + 1
  /\ \A i, j \in DOMAIN sent :
       i < j /\ sent[i].type = "file" /\ sent[j].type = "file" => ~sent[i].last

\* An accepted request ends: the wake-up that a push without the mutex may
\* lose only delays transmit, because requestDone is set under the mutex and
\* notified after it, and transmit ends by sending everything or by failing.
RequestEnds == rpc = "files" ~> rpc \in {"returned", "threw"}

StreamState ==
  IF failed THEN "broken"
  ELSE IF rpc \in {"rejected", "threw"} THEN "abandoned"
  ELSE IF rpc = "returned" THEN "closed"
  ELSE "open"

\* What a client may count on.
Stream == INSTANCE MessageStream WITH
  backlog   <- queue,
  sending   <- buffer,
  delivered <- sent,
  state     <- StreamState

\* The request's two threads implement an ordered stream that loses and
\* repeats nothing and is closed only when everything has been sent.
ImplementsMessageStream == Stream!Spec
===============================================================================
