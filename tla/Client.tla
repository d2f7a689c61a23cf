-------------------------------- MODULE Client --------------------------------
(***************************************************************************)
(* The client (client.cpp): init, requestFile and shutdown, called by one  *)
(* thread, and decompress, which writes what requestFile receives.  They   *)
(* share a queue of entries: a file's initial message, or a chunk with its *)
(* header.                                                                 *)
(*                                                                         *)
(* requestFile parses the stream by position: it waits for an initial      *)
(* message, then for headers and chunks in turns until a header says that  *)
(* its chunk is the last one, then for the next file unless the initial    *)
(* message said that this was the last one.  protobuf cannot take one      *)
(* message for another: what does not parse as the message due ends the    *)
(* request with an exception.  A chunk is whatever comes after a header.   *)
(*                                                                         *)
(* The server is the variable `stream', what it has sent so far, and       *)
(* `peer': an arbitrary server here, Transmission in Transfer.             *)
(***************************************************************************)
EXTENDS Naturals, Sequences

CONSTANTS Message,      \* records with a type ("file", "header", "chunk" or
                        \* "error") and, for a file or a header, last
          MaxMessages,  \* bound: messages an arbitrary server sends
          None

ASSUME ClientAssumption ==
  /\ MaxMessages \in Nat
  /\ None \notin Message

VARIABLES
  stream,       \* the messages the server has sent
  peer,         \* "open", "closed" (by the server) or "lost" (broken)
  got,          \* how many of them the client has received
  pos,          \* where the calling thread is
  after,        \* where it goes after the notification it is about to make
  outcome,      \* "none", "returned" or "threw"
  fileMessage,  \* the current file's initial message, or None
  header,       \* the header of the chunk that is due, or None
  socket,       \* "unused", "open" or "closed"
  queue,        \* decompressionQueue
  doneReceiving,
  mutex,        \* "free", or "decompress" while that thread holds it
  dpc,          \* where decompress is
  entry,        \* the entry it dequeued, or None
  ddone,        \* its local done
  out,          \* the output stream: "closed", "open" or "failed"
  handled       \* history: the entries decompress has dealt with

serverVars  == <<stream, peer>>
parserVars  == <<got, outcome, fileMessage, header>>
callerVars  == <<parserVars, pos, after, socket>>
sharedVars  == <<queue, doneReceiving, mutex>>
outputVars  == <<out, handled>>
writerVars  == <<dpc, entry, ddone, outputVars>>
vars == <<serverVars, callerVars, sharedVars, writerVars>>

\* DecompressionQueueEntry: one of the two parts is set.
FileEntry(m)     == [file |-> m, header |-> None, data |-> None]
ChunkEntry(h, m) == [file |-> None, header |-> h, data |-> m]
OfType(type)     == {m \in Message : m.type = type}
Entry == {FileEntry(m) : m \in OfType("file")}
           \union {ChunkEntry(h, m) : h \in OfType("header"), m \in Message}

ASSUME EntryAssumption == None \notin Entry

\* The client of a constructed object, before anything happens.
InitClient ==
  /\ got = 0 /\ pos = "new" /\ after = "new" /\ outcome = "none"
  /\ fileMessage = None /\ header = None /\ socket = "unused"
  /\ queue = <<>> /\ doneReceiving = TRUE /\ mutex = "free"
  /\ dpc = "none" /\ entry = None /\ ddone = FALSE
  /\ out = "closed" /\ handled = <<>>

Init == stream = <<>> /\ peer = "open" /\ InitClient

-------------------------------------------------------------------------------
(* init and requestFile                                                    *)

\* init(): the thread is started, then the socket connected.
Connect ==
  /\ pos = "new"
  /\ doneReceiving' = FALSE
  /\ dpc' = "lock"
  /\ pos' = "ready"
  /\ socket' = "open"
  /\ UNCHANGED <<serverVars, parserVars, after, queue, mutex, entry, ddone,
                 outputVars>>

\* connect() throws through init(): ~Client shuts the client down.
ConnectFails ==
  /\ pos = "new"
  /\ doneReceiving' = FALSE
  /\ dpc' = "lock"
  /\ pos' = "close"
  /\ outcome' = "threw"
  /\ UNCHANGED <<serverVars, got, fileMessage, header, after, socket, queue,
                 mutex, entry, ddone, outputVars>>

\* requestFile sends its request.
SendRequest ==
  /\ pos = "ready"
  /\ pos' = "file"
  /\ UNCHANGED <<serverVars, parserVars, after, socket, sharedVars, writerVars>>

\* An exception: shutdown() first, then it leaves requestFile.
Throw ==
  /\ pos' = "close"
  /\ outcome' = "threw"
  /\ UNCHANGED <<serverVars, fileMessage, header, after, socket, sharedVars,
                 writerVars>>

SendRequestFails ==
  /\ pos = "ready"
  /\ Throw
  /\ UNCHANGED got

\* The message receiveMessage gives next.
Incoming == stream[got + 1]
Receive(label) ==
  /\ pos = label
  /\ got < Len(stream)
  /\ got' = got + 1

\* push(e), then notify_one(), then on to label.
PushThen(e, label) ==
  /\ queue' = Append(queue, e)
  /\ pos' = "notify"
  /\ after' = label

ReceiveFile ==
  /\ Receive("file")
  /\ Incoming.type = "file"
  /\ fileMessage' = Incoming
  /\ PushThen(FileEntry(Incoming), "header")
  /\ UNCHANGED <<serverVars, outcome, header, socket, doneReceiving, mutex,
                 writerVars>>

\* Mutant of ReceiveHeader: the header is stored as the file's message.
ReceiveHeader_Misplaced ==
  /\ Receive("header")
  /\ Incoming.type = "header"
  /\ header' = Incoming
  /\ fileMessage' = Incoming
  /\ pos' = "chunk"
  /\ UNCHANGED <<serverVars, outcome, after, socket, sharedVars, writerVars>>

ReceiveHeader ==
  /\ Receive("header")
  /\ Incoming.type = "header"
  /\ header' = Incoming
  /\ pos' = "chunk"
  /\ UNCHANGED <<serverVars, outcome, fileMessage, after, socket, sharedVars,
                 writerVars>>

\* What does not parse as the message that is due: an ErrorMessage, or
\* anything else.
ReceiveInvalid ==
  /\ \/ Receive("file") /\ Incoming.type # "file"
     \/ Receive("header") /\ Incoming.type # "header"
  /\ Throw

\* Mutant of ReceiveChunk: the last chunk of any file ends the request.
ReceiveChunk_AnyFileLast ==
  /\ Receive("chunk")
  /\ PushThen(ChunkEntry(header, Incoming), IF header.last THEN "close"
                                            ELSE "header")
  /\ outcome' = IF header.last THEN "returned" ELSE outcome
  /\ header' = None
  /\ UNCHANGED <<serverVars, fileMessage, socket, doneReceiving, mutex,
                 writerVars>>

\* The chunk, whatever it is; lastChunk and lastFile say what is due next.
ReceiveChunk ==
  /\ Receive("chunk")
  /\ LET done == header.last /\ fileMessage.last
     IN  /\ PushThen(ChunkEntry(header, Incoming),
                     IF done THEN "close" ELSE IF header.last THEN "file"
                     ELSE "header")
         /\ outcome' = IF done THEN "returned" ELSE outcome
  /\ header' = None
  /\ UNCHANGED <<serverVars, fileMessage, socket, doneReceiving, mutex,
                 writerVars>>

\* receive() throws: everything the server sent has been read and it has
\* closed the connection, or the connection is lost, with what it carried.
ReceiveFails ==
  /\ pos \in {"file", "header", "chunk"}
  /\ peer = "lost" \/ (peer = "closed" /\ got = Len(stream))
  /\ Throw
  /\ UNCHANGED got

\* notify_one() of requestFile and notify_all() of shutdown: the only thread
\* that may sleep is decompress.
Notify ==
  /\ pos = "notify"
  /\ pos' = after
  /\ dpc' = IF dpc = "asleep" THEN "woken" ELSE dpc
  /\ UNCHANGED <<serverVars, parserVars, after, socket, sharedVars, entry,
                 ddone, outputVars>>

-------------------------------------------------------------------------------
(* shutdown, at the end of requestFile, before an exception leaves it, or  *)
(* from ~Client                                                            *)

\* ~Client of a client that never requested anything.
Destroy ==
  /\ pos = "ready"
  /\ pos' = "close"
  /\ UNCHANGED <<serverVars, parserVars, after, socket, sharedVars, writerVars>>

CloseSocket ==
  /\ pos = "close"
  /\ socket' = "closed"
  /\ pos' = "flag"
  /\ UNCHANGED <<serverVars, parserVars, after, sharedVars, writerVars>>

\* Mutant of SetDoneReceiving: nobody is notified of it.
SetDoneReceiving_NoNotify ==
  /\ pos = "flag"
  /\ mutex = "free"
  /\ doneReceiving' = TRUE
  /\ pos' = "join"
  /\ UNCHANGED <<serverVars, parserVars, after, socket, queue, mutex,
                 writerVars>>

SetDoneReceiving ==
  /\ pos = "flag"
  /\ mutex = "free"
  /\ doneReceiving' = TRUE
  /\ pos' = "notify"
  /\ after' = "join"
  /\ UNCHANGED <<serverVars, parserVars, socket, queue, mutex, writerVars>>

Join ==
  /\ pos = "join"
  /\ dpc = "ended"
  /\ pos' = "ended"
  /\ UNCHANGED <<serverVars, parserVars, after, socket, sharedVars, writerVars>>

-------------------------------------------------------------------------------
(* decompress                                                              *)

LockQueue ==
  /\ dpc \in {"lock", "woken"}
  /\ mutex' = "decompress"
  /\ dpc' = "test"
  /\ UNCHANGED <<serverVars, callerVars, queue, doneReceiving, entry, ddone,
                 outputVars>>

TestQueue ==
  /\ dpc = "test"
  /\ dpc' = IF queue # <<>> \/ doneReceiving THEN "pop" ELSE "block"
  /\ UNCHANGED <<serverVars, callerVars, sharedVars, entry, ddone, outputVars>>

Block ==
  /\ dpc = "block"
  /\ mutex' = "free"
  /\ dpc' = "asleep"
  /\ UNCHANGED <<serverVars, callerVars, queue, doneReceiving, entry, ddone,
                 outputVars>>

SpuriousWake ==
  /\ dpc = "asleep"
  /\ dpc' = "woken"
  /\ UNCHANGED <<serverVars, callerVars, sharedVars, entry, ddone, outputVars>>

Pop ==
  /\ dpc = "pop"
  /\ dpc' = "check"
  /\ \/ queue # <<>> /\ entry' = Head(queue) /\ queue' = Tail(queue)
     \/ queue = <<>> /\ UNCHANGED <<entry, queue>>
  /\ UNCHANGED <<serverVars, callerVars, doneReceiving, mutex, ddone,
                 outputVars>>

\* Mutant of Check: done without looking at the queue.
Check_IgnoresQueue ==
  /\ dpc = "check"
  /\ ddone' = doneReceiving
  /\ mutex' = "free"
  /\ dpc' = IF entry # None THEN "write" ELSE IF ddone' THEN "ended" ELSE "lock"
  /\ UNCHANGED <<serverVars, callerVars, queue, doneReceiving, entry,
                 outputVars>>

\* done = queue empty and doneReceiving; `continue' when nothing was dequeued.
Check ==
  /\ dpc = "check"
  /\ ddone' = (queue = <<>> /\ doneReceiving)
  /\ mutex' = "free"
  /\ dpc' = IF entry # None THEN "write" ELSE IF ddone' THEN "ended" ELSE "lock"
  /\ UNCHANGED <<serverVars, callerVars, queue, doneReceiving, entry,
                 outputVars>>

\* The end of an iteration.
Handled ==
  /\ dpc = "write"
  /\ dpc' = IF ddone THEN "ended" ELSE "lock"
  /\ handled' = Append(handled, entry)
  /\ entry' = None
  /\ UNCHANGED <<serverVars, callerVars, sharedVars, ddone>>

\* open() may fail, as it does for a stream that is open: nothing is written.
OpenFile ==
  /\ Handled
  /\ entry.file # None
  /\ out' = "failed" \/ (out = "closed" /\ out' = "open")

\* Mutant of WriteChunk: the last chunk does not close the file.
WriteChunk_NotClosed ==
  /\ Handled
  /\ entry.header # None
  /\ UNCHANGED out

\* The decompressed chunk is written, or what decompressedChunk held before if
\* decompressing throws; the last chunk closes the file either way.
WriteChunk ==
  /\ Handled
  /\ entry.header # None
  /\ out' = IF entry.header.last THEN "closed" ELSE out

-------------------------------------------------------------------------------

Caller ==
  \/ Connect \/ ConnectFails \/ Destroy
  \/ SendRequest \/ SendRequestFails
  \/ ReceiveFile \/ ReceiveHeader \/ ReceiveInvalid \/ ReceiveChunk
  \/ ReceiveFails \/ Notify
  \/ CloseSocket \/ SetDoneReceiving \/ Join

Decompress ==
  \/ LockQueue \/ TestQueue \/ Block \/ Pop \/ Check
  \/ OpenFile \/ WriteChunk

ClientNext == Caller \/ Decompress \/ SpuriousWake

\* An arbitrary server, and the network.  A message that the client has not
\* read yet changes nothing, so one at a time is enough.
ServerSends ==
  /\ peer = "open"
  /\ got = Len(stream) /\ Len(stream) < MaxMessages
  /\ \E m \in Message : stream' = Append(stream, m)
  /\ UNCHANGED <<peer, callerVars, sharedVars, writerVars>>

ServerStops ==
  /\ peer = "open"
  /\ peer' \in {"closed", "lost"}
  /\ UNCHANGED <<stream, callerVars, sharedVars, writerVars>>

Next == ClientNext \/ ServerSends \/ ServerStops

Spec == Init /\ [][Next]_vars

\* Both threads keep running and get the mutex when it is free again and
\* again.  Nothing makes the server send or stop.
ClientFairness ==
  /\ WF_vars(Caller) /\ SF_vars(SetDoneReceiving)
  /\ WF_vars(Decompress)

FairSpec == Spec /\ ClientFairness

-------------------------------------------------------------------------------
(* Properties                                                              *)

\* Every variable stays in its range.
TypeOK ==
  /\ stream \in Seq(Message) /\ got \in 0 .. Len(stream)
  /\ peer \in {"open", "closed", "lost"}
  /\ {pos, after} \subseteq
       {"new", "ready", "file", "header", "chunk", "notify", "close", "flag",
        "join", "ended"}
  /\ outcome \in {"none", "returned", "threw"}
  /\ fileMessage \in OfType("file") \union {None}
  /\ header \in OfType("header") \union {None}
  /\ socket \in {"unused", "open", "closed"}
  /\ queue \in Seq(Entry) /\ handled \in Seq(Entry)
  /\ doneReceiving \in BOOLEAN /\ ddone \in BOOLEAN
  /\ mutex \in {"free", "decompress"}
  /\ dpc \in {"none", "lock", "test", "block", "asleep", "woken", "pop",
              "check", "write", "ended"}
  /\ entry \in Entry \union {None}
  /\ out \in {"closed", "open", "failed"}

\* Every entry requestFile has made, oldest first.
Entries == handled \o (IF entry = None THEN <<>> ELSE <<entry>>) \o queue
EndsFile(e) == e.header # None /\ e.header.last

\* requestFile returns only when it has received whole files: an initial
\* message comes first and after the last chunk of a file, and nowhere else,
\* the last entry ends a file, and of all the files only that one was
\* announced as the last.
ReturnsWholeFiles ==
  outcome = "returned" =>
    /\ EndsFile(Entries[Len(Entries)])
    /\ \A i \in DOMAIN Entries :
         /\ Entries[i].file # None <=> (i = 1 \/ EndsFile(Entries[i - 1]))
         /\ Entries[i].file # None =>
              (Entries[i].file.last <=>
                 \A j \in i + 1 .. Len(Entries) : Entries[j].file = None)

\* The stream a file is opened on is closed: two files never run into each
\* other in the output, whatever the server sends.
FilesDoNotOverlap ==
  dpc = "write" /\ entry.file # None => out # "open"

\* The client ends when the server does, or when the connection is lost: the
\* decompression thread is woken, or has not yet slept, and is joined.
ClientEnds ==
  peer # "open" /\ pos \notin {"new", "ready"} ~> pos = "ended"

\* What requestFile promises about the entries it makes.
EntryStream == INSTANCE MessageStream WITH
  Message   <- Entry,
  backlog   <- queue,
  sending   <- entry,
  delivered <- handled,
  state     <- IF pos = "ended" THEN "closed" ELSE "open"

\* The client's two threads implement an ordered stream of entries that loses
\* and repeats nothing, and requestFile does not end before all of them have
\* been dealt with.
ImplementsMessageStream == EntryStream!Spec
===============================================================================
