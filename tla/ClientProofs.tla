------------------------------ MODULE ClientProofs ------------------------------
(***************************************************************************)
(* Theorems about Client, for every server: any messages, in any number    *)
(* and any order, and a connection that ends at any time.  And about what  *)
(* it leaves in the destination directory (ReceivedFiles), for every set   *)
(* of files, in any order, and every number of pieces: no file is lost in  *)
(* silence except in the four ways that LostOrReported names.              *)
(***************************************************************************)
EXTENDS Client, ReceivedFiles, QueueLemmas

-------------------------------------------------------------------------------
(* The inductive invariant                                                 *)

\* Where requestFile is, or goes on after the notification that is due.
At == IF pos = "notify" THEN after ELSE pos

CallerInv ==
  /\ pos = "notify" => after \in {"header", "file", "close", "join"}
  /\ At \in {"header", "chunk"} => fileMessage # None
  /\ At = "chunk" => header # None
  /\ outcome = "returned" => At \in {"close", "flag", "join", "ended"}
  /\ At \in {"file", "header", "chunk", "ready", "new"} => outcome = "none"

\* decompress ends after doneReceiving, with nothing left to deal with, and
\* requestFile pushes nothing after it.
WriterInv ==
  /\ dpc = "none" <=> pos = "new"
  /\ doneReceiving => At \in {"new", "join", "ended"}
  /\ entry # None => dpc \in {"check", "write"}
  /\ dpc = "write" => entry # None
  /\ ddone => doneReceiving /\ queue = <<>> /\ dpc \in {"write", "ended"}
  /\ dpc = "ended" => ddone
  /\ pos = "ended" => dpc = "ended"

\* What the entries say about the message that is due.
ParserInv ==
  LET n == Len(Entries)
  IN  /\ At \in {"new", "ready"} => Entries = <<>>
      /\ At = "file" => Entries = <<>> \/ (EndsFile(Entries[n]) /\ ~fileMessage.last)
      /\ At \in {"header", "chunk"} => Entries # <<>> /\ ~EndsFile(Entries[n])
      /\ outcome = "returned" =>
           Entries # <<>> /\ EndsFile(Entries[n]) /\ fileMessage.last

\* An initial message is an entry where a file is due, and only there.
FilesAlternate ==
  \A i \in 1 .. Len(Entries) :
    Entries[i].file # None <=> (i = 1 \/ EndsFile(Entries[i - 1]))

\* A file is followed by another one only if it was not announced as the last,
\* and the one that is followed by none is the current one.
FilesGoOn ==
  \A i \in 1 .. Len(Entries) : Entries[i].file # None =>
    IF \E j \in i + 1 .. Len(Entries) : Entries[j].file # None
    THEN ~Entries[i].file.last
    ELSE Entries[i].file = fileMessage

\* The stream is open only within a file.
OutputInv ==
  out = "open" => handled # <<>> /\ ~EndsFile(handled[Len(handled)])

ThreadsInv == TypeOK /\ CallerInv /\ WriterInv

-------------------------------------------------------------------------------
(* Entries                                                                 *)

\* What decompress tells apart in an entry.
LEMMA EntryParts ==
  /\ \A m \in OfType("file") :
       /\ FileEntry(m) \in Entry
       /\ FileEntry(m).file = m /\ m # None
       /\ FileEntry(m).header = None /\ ~EndsFile(FileEntry(m))
  /\ \A h \in OfType("header"), m \in Message :
       /\ ChunkEntry(h, m) \in Entry
       /\ ChunkEntry(h, m).file = None
       /\ ChunkEntry(h, m).header = h /\ h # None
       /\ (EndsFile(ChunkEntry(h, m)) <=> h.last)
BY ClientAssumption DEF Entry, FileEntry, ChunkEntry, OfType, EndsFile

LEMMA InitThreads == Init => ThreadsInv
<1> SUFFICES ASSUME Init
             PROVE  ThreadsInv
  OBVIOUS
<1>1. /\ stream \in Seq(Message) /\ Len(stream) = 0
      /\ queue \in Seq(Entry) /\ handled \in Seq(Entry)
      /\ peer = "open" /\ InitClient
  BY EmptySeq DEF Init, InitClient
<1>2. TypeOK
  <2>1. got \in 0 .. Len(stream)
    BY <1>1 DEF InitClient
  <2> QED
    BY <1>1, <2>1 DEF InitClient, TypeOK
<1>3. CallerInv /\ WriterInv
  BY DEF Init, InitClient, CallerInv, WriterInv, At
<1> QED
  BY <1>2, <1>3 DEF ThreadsInv

-------------------------------------------------------------------------------
(* The two threads                                                         *)

LEMMA CallerThreads ==
  ASSUME ThreadsInv, Caller
  PROVE  ThreadsInv'
<1> USE DEF ThreadsInv, TypeOK, CallerInv, WriterInv, At, serverVars, parserVars,
            sharedVars, writerVars, outputVars
<1>1. CASE Connect \/ ConnectFails
  <2>1. entry = None /\ queue \in Seq(Entry) /\ ~ddone /\ after' = after
    BY <1>1 DEF Connect, ConnectFails
  <2>2. CASE Connect
    BY <2>1, <2>2 DEF Connect
  <2>3. CASE ConnectFails
    BY <2>1, <2>3 DEF ConnectFails
  <2> QED
    BY <1>1, <2>2, <2>3
<1>2. CASE Destroy \/ SendRequest \/ SendRequestFails
  BY <1>2 DEF Destroy, SendRequest, SendRequestFails, Throw
<1>3. CASE ReceiveFile
  <2>1. Incoming \in OfType("file") /\ Incoming # None
    BY <1>3, ClientAssumption DEF ReceiveFile, Receive, Incoming, OfType
  <2>2. queue' \in Seq(Entry)
    BY <1>3, <2>1, EntryParts DEF ReceiveFile, PushThen
  <2> QED
    BY <1>3, <2>1, <2>2 DEF ReceiveFile, Receive, PushThen
<1>4. CASE ReceiveHeader
  <2>1. Incoming \in OfType("header") /\ Incoming # None
    BY <1>4, ClientAssumption DEF ReceiveHeader, Receive, Incoming, OfType
  <2> QED
    BY <1>4, <2>1 DEF ReceiveHeader, Receive
<1>5. CASE ReceiveInvalid
  BY <1>5 DEF ReceiveInvalid, Receive, Throw
<1>6. CASE ReceiveChunk
  <2>1. Incoming \in Message /\ header \in OfType("header")
    BY <1>6 DEF ReceiveChunk, Receive, Incoming
  <2>2. queue' \in Seq(Entry)
    BY <1>6, <2>1, EntryParts DEF ReceiveChunk, PushThen
  <2>3. /\ after' \in {"close", "file", "header"} /\ pos' = "notify"
        /\ outcome' = "returned" => after' = "close"
        /\ outcome' \in {"none", "returned"} /\ (outcome' = "none" \/ after' = "close")
    BY <1>6 DEF ReceiveChunk, Receive, PushThen
  <2> QED
    BY <1>6, <2>2, <2>3 DEF ReceiveChunk, Receive, PushThen
<1>7. CASE ReceiveFails
  BY <1>7 DEF ReceiveFails, Throw
<1>8. CASE Notify
  BY <1>8 DEF Notify
<1>9. CASE CloseSocket \/ SetDoneReceiving \/ Join
  <2>1. CASE CloseSocket
    BY <2>1 DEF CloseSocket
  <2>2. CASE SetDoneReceiving
    BY <2>2 DEF SetDoneReceiving
  <2>3. CASE Join
    BY <2>3 DEF Join
  <2> QED
    BY <1>9, <2>1, <2>2, <2>3
<1> QED
  BY <1>1, <1>2, <1>3, <1>4, <1>5, <1>6, <1>7, <1>8, <1>9 DEF Caller

LEMMA WriterThreads ==
  ASSUME ThreadsInv, Decompress \/ SpuriousWake
  PROVE  ThreadsInv'
<1> USE DEF ThreadsInv, TypeOK, CallerInv, WriterInv, At, serverVars, callerVars,
            parserVars, sharedVars, outputVars
<1>1. CASE LockQueue \/ TestQueue \/ Block \/ SpuriousWake
  BY <1>1 DEF LockQueue, TestQueue, Block, SpuriousWake
<1>2. CASE Pop
  <2>1. CASE queue # <<>> /\ entry' = Head(queue) /\ queue' = Tail(queue)
    <3>1. Head(queue) \in Entry /\ Tail(queue) \in Seq(Entry)
      BY <2>1, HeadTailProperties
    <3> QED
      BY <1>2, <2>1, <3>1 DEF Pop
  <2>2. CASE queue = <<>> /\ UNCHANGED <<entry, queue>>
    BY <1>2, <2>2 DEF Pop
  <2> QED
    BY <1>2, <2>1, <2>2 DEF Pop
<1>3. CASE Check
  BY <1>3 DEF Check
<1>4. CASE OpenFile \/ WriteChunk
  <2>1. Handled /\ out' \in {"closed", "open", "failed"}
    BY <1>4 DEF OpenFile, WriteChunk
  <2>2. entry \in Entry /\ handled' \in Seq(Entry)
    BY <2>1 DEF Handled
  <2> QED
    BY <2>1, <2>2 DEF Handled
<1> QED
  BY <1>1, <1>2, <1>3, <1>4 DEF Decompress

LEMMA NextThreads ==
  ASSUME ThreadsInv, [Next]_vars
  PROVE  ThreadsInv'
<1>1. CASE UNCHANGED vars \/ ServerSends \/ ServerStops
  <2>1. UNCHANGED <<callerVars, sharedVars, writerVars>>
    BY <1>1 DEF vars, ServerSends, ServerStops
  <2>2. /\ stream' \in Seq(Message) /\ got' \in 0 .. Len(stream')
        /\ peer' \in {"open", "closed", "lost"}
    <3>1. stream \in Seq(Message) /\ got \in 0 .. Len(stream) /\ got' = got
      BY <2>1 DEF ThreadsInv, TypeOK, callerVars, parserVars
    <3>2. CASE ServerSends
      <4>1. PICK m \in Message : stream' = Append(stream, m)
        BY <3>2 DEF ServerSends
      <4>2. stream' \in Seq(Message) /\ Len(stream') = Len(stream) + 1
        BY <3>1, <4>1, AppendProperties
      <4> QED
        BY <3>1, <3>2, <4>2, LenProperties DEF ServerSends, ThreadsInv, TypeOK
    <3>3. CASE UNCHANGED vars \/ ServerStops
      BY <3>1, <3>3 DEF vars, serverVars, ServerStops, ThreadsInv, TypeOK
    <3> QED
      BY <1>1, <3>2, <3>3
  <2>3. TypeOK'
    BY <2>1, <2>2 DEF ThreadsInv, TypeOK, callerVars, parserVars, sharedVars,
                      writerVars, outputVars
  <2>4. CallerInv' /\ WriterInv'
    BY <2>1 DEF ThreadsInv, CallerInv, WriterInv, At, callerVars, parserVars,
                sharedVars, writerVars, outputVars
  <2> QED
    BY <2>3, <2>4 DEF ThreadsInv
<1> QED
  BY <1>1, CallerThreads, WriterThreads DEF Next, ClientNext

LEMMA Threads == Spec => []ThreadsInv
<1>1. ThreadsInv /\ [Next]_vars => ThreadsInv'
  BY NextThreads
<1> QED
  BY <1>1, InitThreads, PTL DEF Spec

\* Every variable of the client keeps its type, whatever the server sends.
THEOREM ClientTyping == Spec => []TypeOK
<1>1. ThreadsInv => TypeOK
  BY DEF ThreadsInv
<1> QED
  BY <1>1, Threads, PTL

-------------------------------------------------------------------------------
(* What a step does to the entries made so far                             *)

LEMMA EntriesType == ThreadsInv => Entries \in Seq(Entry)
<1> SUFFICES ASSUME ThreadsInv
             PROVE  Entries \in Seq(Entry)
  OBVIOUS
<1>1. /\ handled \in Seq(Entry) /\ queue \in Seq(Entry)
      /\ (IF entry = None THEN <<>> ELSE <<entry>>) \in Seq(Entry)
  BY DEF ThreadsInv, TypeOK
<1> QED
  BY <1>1, ConcatProperties DEF Entries

\* A push is an entry more.
LEMMA PushEntries ==
  ASSUME ThreadsInv, NEW e \in Entry,
         queue' = Append(queue, e), UNCHANGED <<handled, entry>>
  PROVE  /\ Entries' = Append(Entries, e)
         /\ Entries' \in Seq(Entry) /\ Entries' # <<>>
         /\ Len(Entries) \in Nat /\ Len(Entries') = Len(Entries) + 1
         /\ \A i \in 1 .. Len(Entries) : Entries'[i] = Entries[i]
         /\ Entries'[Len(Entries')] = e
<1>1. /\ handled \in Seq(Entry) /\ queue \in Seq(Entry)
      /\ (IF entry = None THEN <<>> ELSE <<entry>>) \in Seq(Entry)
  BY DEF ThreadsInv, TypeOK
<1>2. Entries' = Append(Entries, e)
  <2> DEFINE hand == IF entry = None THEN <<>> ELSE <<entry>>
  <2>1. hand \in Seq(Entry) /\ hand' = hand
    BY <1>1
  <2>2. Entries = handled \o hand \o queue /\ Entries' = handled' \o hand' \o queue'
    BY DEF Entries
  <2> HIDE DEF hand
  <2>3. handled \o hand \o Append(queue, e) = Append(handled \o hand \o queue, e)
    BY <1>1, <2>1, AppendToPushed
  <2> QED
    BY <2>1, <2>2, <2>3
<1> QED
  BY <1>2, EntriesType, AppendProperties, LenProperties

\* decompress takes the first entry that waits, and deals with it.
LEMMA DecompressEntries ==
  ASSUME ThreadsInv, Decompress \/ SpuriousWake
  PROVE  Entries' = Entries
<1>1. /\ handled \in Seq(Entry) /\ queue \in Seq(Entry) /\ entry \in Entry \union {None}
      /\ None \notin Entry
  BY EntryAssumption DEF ThreadsInv, TypeOK
<1>2. CASE LockQueue \/ TestQueue \/ Block \/ Check \/ SpuriousWake
  BY <1>2 DEF LockQueue, TestQueue, Block, Check, SpuriousWake, Entries, sharedVars,
              outputVars
<1>3. CASE Pop
  <2>1. entry = None /\ handled' = handled
    BY <1>3 DEF Pop, ThreadsInv, WriterInv, outputVars
  <2>2. CASE queue = <<>> /\ UNCHANGED <<entry, queue>>
    BY <2>1, <2>2 DEF Entries
  <2>3. CASE queue # <<>> /\ entry' = Head(queue) /\ queue' = Tail(queue)
    <3>1. Head(queue) # None
      BY <1>1, <2>3, HeadTailProperties
    <3> QED
      BY <1>1, <2>1, <2>3, <3>1, HeadOfPushed DEF Entries
  <2> QED
    BY <1>3, <2>2, <2>3 DEF Pop
<1>4. CASE OpenFile \/ WriteChunk
  <2>1. /\ entry \in Entry /\ handled' = Append(handled, entry)
        /\ entry' = None /\ queue' = queue
    BY <1>1, <1>4
    DEF OpenFile, WriteChunk, Handled, ThreadsInv, WriterInv, sharedVars
  <2> QED
    BY <1>1, <2>1, WrittenOfPushed DEF Entries
<1> QED
  BY <1>2, <1>3, <1>4 DEF Decompress

-------------------------------------------------------------------------------
(* Refinement of MessageStream                                             *)

LEMMA InitRefines == Init => EntryStream!Init
BY DEF Init, InitClient, EntryStream!Init

LEMMA StepRefines ==
  ASSUME ThreadsInv, ThreadsInv', [Next]_vars
  PROVE  [EntryStream!Next]_(EntryStream!vars)
<1> USE DEF EntryStream!Next, EntryStream!vars
<1>1. CASE ReceiveFile
  <2>1. /\ FileEntry(Incoming) \in Entry /\ queue' = Append(queue, FileEntry(Incoming))
        /\ pos # "ended" /\ pos' # "ended" /\ UNCHANGED <<handled, entry>>
    BY <1>1, EntryParts
    DEF ReceiveFile, Receive, PushThen, Incoming, OfType, ThreadsInv, TypeOK,
        writerVars, outputVars
  <2> QED
    BY <2>1 DEF EntryStream!Offer
<1>2. CASE ReceiveChunk
  <2>1. /\ header \in OfType("header") /\ Incoming \in Message
        /\ queue' = Append(queue, ChunkEntry(header, Incoming))
        /\ pos # "ended" /\ pos' # "ended" /\ UNCHANGED <<handled, entry>>
    BY <1>2
    DEF ReceiveChunk, Receive, PushThen, Incoming, ThreadsInv, TypeOK, CallerInv, At,
        writerVars, outputVars
  <2> QED
    BY <2>1, EntryParts DEF EntryStream!Offer
<1>3. CASE Join
  <2>1. /\ queue = <<>> /\ entry = None /\ pos # "ended" /\ pos' = "ended"
        /\ UNCHANGED <<queue, entry, handled>>
    BY <1>3 DEF Join, ThreadsInv, WriterInv, sharedVars, writerVars, outputVars
  <2> QED
    BY <2>1 DEF EntryStream!Close
<1>4. CASE \/ Connect \/ ConnectFails \/ Destroy \/ SendRequest \/ SendRequestFails
           \/ ReceiveHeader \/ ReceiveInvalid \/ ReceiveFails \/ Notify
           \/ CloseSocket \/ SetDoneReceiving
  <2>1. UNCHANGED <<queue, entry, handled>> /\ pos # "ended" /\ pos' # "ended"
    BY <1>4
    DEF Connect, ConnectFails, Destroy, SendRequest, SendRequestFails, ReceiveHeader,
        ReceiveInvalid, ReceiveFails, Receive, Throw, Notify, CloseSocket,
        SetDoneReceiving, ThreadsInv, CallerInv, sharedVars, writerVars, outputVars
  <2> QED
    BY <2>1
<1>5. CASE Pop
  <2>1. /\ entry = None /\ handled' = handled /\ pos # "ended" /\ pos' = pos
    BY <1>5 DEF Pop, ThreadsInv, WriterInv, outputVars, callerVars
  <2>2. CASE queue # <<>> /\ entry' = Head(queue) /\ queue' = Tail(queue)
    BY <2>1, <2>2 DEF EntryStream!Take
  <2>3. CASE queue = <<>> /\ UNCHANGED <<entry, queue>>
    BY <2>1, <2>3
  <2> QED
    BY <1>5, <2>2, <2>3 DEF Pop
<1>6. CASE OpenFile \/ WriteChunk
  <2>1. /\ entry # None /\ entry' = None /\ handled' = Append(handled, entry)
        /\ queue' = queue /\ pos # "ended" /\ pos' = pos
    BY <1>6
    DEF OpenFile, WriteChunk, Handled, ThreadsInv, WriterInv, sharedVars, callerVars
  <2> QED
    BY <2>1 DEF EntryStream!Deliver
<1>7. CASE \/ LockQueue \/ TestQueue \/ Block \/ Check \/ SpuriousWake
           \/ ServerSends \/ ServerStops \/ UNCHANGED vars
  <2>1. UNCHANGED <<queue, entry, handled, pos>>
    BY <1>7
    DEF LockQueue, TestQueue, Block, Check, SpuriousWake, ServerSends, ServerStops,
        vars, callerVars, sharedVars, writerVars, outputVars
  <2> QED
    BY <2>1
<1> QED
  BY <1>1, <1>2, <1>3, <1>4, <1>5, <1>6, <1>7
  DEF Next, ClientNext, Caller, Decompress

\* The calling thread and decompress implement an ordered stream of entries: none
\* is lost or repeated, and the client ends only when all have been dealt with.
THEOREM ClientRefinement == Spec => ImplementsMessageStream
<1>1. Init => EntryStream!Init
  BY InitRefines
<1>2. ThreadsInv /\ ThreadsInv' /\ [Next]_vars => [EntryStream!Next]_(EntryStream!vars)
  BY StepRefines
<1> QED
  BY <1>1, <1>2, Threads, PTL DEF Spec, ImplementsMessageStream, EntryStream!Spec

-------------------------------------------------------------------------------
(* The parser                                                              *)

EntriesInv == ParserInv /\ FilesAlternate /\ FilesGoOn

LEMMA InitEntries == Init => EntriesInv
<1> SUFFICES ASSUME Init
             PROVE  EntriesInv
  OBVIOUS
<1>1. <<>> \o <<>> \o <<>> = <<>> /\ Len(<<>>) = 0
  OBVIOUS
<1>2. Entries = <<>> /\ Len(Entries) = 0
  BY <1>1 DEF Init, InitClient, Entries
<1> QED
  BY <1>2 DEF Init, InitClient, EntriesInv, ParserInv, FilesAlternate, FilesGoOn, At

\* An initial message where one is due.
LEMMA ReceiveFileEntries ==
  ASSUME ThreadsInv, EntriesInv, ReceiveFile
  PROVE  EntriesInv'
<1> DEFINE e == FileEntry(Incoming)
           n == Len(Entries)
<1>1. /\ Incoming \in OfType("file") /\ fileMessage' = Incoming
      /\ queue' = Append(queue, e) /\ UNCHANGED <<handled, entry>>
      /\ At = "file" /\ At' = "header" /\ outcome = "none" /\ outcome' = outcome
  BY DEF ReceiveFile, Receive, PushThen, Incoming, OfType, ThreadsInv, TypeOK,
         CallerInv, At, writerVars, outputVars
<1>2. /\ e \in Entry /\ e.file = fileMessage' /\ e.file # None /\ ~EndsFile(e)
  BY <1>1, EntryParts
<1>3. /\ Entries' # <<>> /\ n \in Nat /\ Len(Entries') = n + 1
      /\ \A i \in 1 .. n : Entries'[i] = Entries[i]
      /\ Entries'[n + 1] = e
      /\ n = 0 <=> Entries = <<>>
  BY <1>1, <1>2, PushEntries, EntriesType, EmptySeq
<1>4. n > 0 => EndsFile(Entries[n]) /\ ~fileMessage.last
  BY <1>1, <1>3 DEF EntriesInv, ParserInv
<1> HIDE DEF e, n
<1>5. ParserInv'
  BY <1>1, <1>2, <1>3 DEF ParserInv, EndsFile
<1>6. FilesAlternate'
  <2> SUFFICES ASSUME NEW i \in 1 .. n + 1
               PROVE  Entries'[i].file # None <=> (i = 1 \/ EndsFile(Entries'[i - 1]))
    BY <1>3 DEF FilesAlternate, EndsFile
  <2>1. CASE i = n + 1
    BY <1>2, <1>3, <1>4, <2>1
  <2>2. CASE i \in 1 .. n
    BY <1>3, <2>2 DEF EntriesInv, FilesAlternate, n
  <2> QED
    BY <1>3, <2>1, <2>2
<1>7. FilesGoOn'
  <2> SUFFICES ASSUME NEW i \in 1 .. n + 1, Entries'[i].file # None
               PROVE  IF \E j \in i + 1 .. n + 1 : Entries'[j].file # None
                      THEN ~Entries'[i].file.last
                      ELSE Entries'[i].file = fileMessage'
    BY <1>3 DEF FilesGoOn
  <2>1. CASE i = n + 1
    BY <1>2, <1>3, <2>1
  <2>2. CASE i \in 1 .. n
    <3>1. n + 1 \in i + 1 .. n + 1 /\ n > 0
      BY <1>3, <2>2
    <3>2. IF \E j \in i + 1 .. n : Entries[j].file # None
          THEN ~Entries[i].file.last
          ELSE Entries[i].file = fileMessage
      BY <1>3, <2>2 DEF EntriesInv, FilesGoOn, n
    <3>3. ~Entries[i].file.last
      BY <1>4, <3>1, <3>2
    <3> QED
      BY <1>2, <1>3, <2>2, <3>1, <3>3
  <2> QED
    BY <1>3, <2>1, <2>2
<1> QED
  BY <1>5, <1>6, <1>7 DEF EntriesInv

\* A chunk within a file.
LEMMA ReceiveChunkEntries ==
  ASSUME ThreadsInv, EntriesInv, ReceiveChunk
  PROVE  EntriesInv'
<1> DEFINE e == ChunkEntry(header, Incoming)
           n == Len(Entries)
           done == header.last /\ fileMessage.last
<1>1. /\ Incoming \in Message /\ header \in OfType("header")
      /\ queue' = Append(queue, e) /\ UNCHANGED <<handled, entry, fileMessage>>
      /\ At = "chunk" /\ outcome = "none"
      /\ At' = IF done THEN "close" ELSE IF header.last THEN "file" ELSE "header"
      /\ outcome' = IF done THEN "returned" ELSE outcome
  BY DEF ReceiveChunk, Receive, PushThen, Incoming, ThreadsInv, TypeOK, CallerInv, At,
         writerVars, outputVars
<1>2. e \in Entry /\ e.file = None /\ (EndsFile(e) <=> header.last)
  BY <1>1, EntryParts
<1>3. /\ Entries' # <<>> /\ n \in Nat /\ Len(Entries') = n + 1
      /\ \A i \in 1 .. n : Entries'[i] = Entries[i]
      /\ Entries'[n + 1] = e
      /\ n = 0 <=> Entries = <<>>
  BY <1>1, <1>2, PushEntries, EntriesType, EmptySeq
<1>4. n > 0 /\ ~EndsFile(Entries[n])
  BY <1>1, <1>3 DEF EntriesInv, ParserInv
<1> HIDE DEF e, n
<1>5. ParserInv'
  BY <1>1, <1>2, <1>3 DEF ParserInv, EndsFile
<1>6. FilesAlternate'
  <2> SUFFICES ASSUME NEW i \in 1 .. n + 1
               PROVE  Entries'[i].file # None <=> (i = 1 \/ EndsFile(Entries'[i - 1]))
    BY <1>3 DEF FilesAlternate, EndsFile
  <2>1. CASE i = n + 1
    BY <1>2, <1>3, <1>4, <2>1
  <2>2. CASE i \in 1 .. n
    BY <1>3, <2>2 DEF EntriesInv, FilesAlternate, n
  <2> QED
    BY <1>3, <2>1, <2>2
<1>7. FilesGoOn'
  <2> SUFFICES ASSUME NEW i \in 1 .. n + 1, Entries'[i].file # None
               PROVE  IF \E j \in i + 1 .. n + 1 : Entries'[j].file # None
                      THEN ~Entries'[i].file.last
                      ELSE Entries'[i].file = fileMessage'
    BY <1>3 DEF FilesGoOn
  <2>1. i \in 1 .. n /\ Entries'[i] = Entries[i]
    BY <1>2, <1>3
  <2>2. (\E j \in i + 1 .. n + 1 : Entries'[j].file # None)
          <=> \E j \in i + 1 .. n : Entries[j].file # None
    BY <1>2, <1>3, <2>1
  <2> QED
    BY <1>1, <2>1, <2>2 DEF EntriesInv, FilesGoOn, n
<1> QED
  BY <1>5, <1>6, <1>7 DEF EntriesInv

LEMMA NextEntries ==
  ASSUME ThreadsInv, EntriesInv, [Next]_vars
  PROVE  EntriesInv'
<1>1. CASE Entries' = Entries /\ fileMessage' = fileMessage /\ ParserInv'
  BY <1>1 DEF EntriesInv, FilesAlternate, FilesGoOn, EndsFile
<1>2. CASE Decompress \/ SpuriousWake
  <2>1. Entries' = Entries
    BY <1>2, DecompressEntries
  <2>2. UNCHANGED <<pos, after, fileMessage, outcome>>
    BY <1>2 DEF Decompress, LockQueue, TestQueue, Block, Pop, Check, OpenFile,
                WriteChunk, Handled, SpuriousWake, callerVars, parserVars
  <2> QED
    BY <1>1, <2>1, <2>2 DEF EntriesInv, ParserInv, At, EndsFile
<1>3. CASE UNCHANGED vars \/ ServerSends \/ ServerStops
  <2>1. UNCHANGED <<callerVars, sharedVars, writerVars>>
    BY <1>3 DEF vars, ServerSends, ServerStops
  <2>2. Entries' = Entries
    BY <2>1 DEF Entries, sharedVars, writerVars, outputVars
  <2> QED
    BY <1>1, <2>1, <2>2 DEF EntriesInv, ParserInv, At, EndsFile, callerVars, parserVars
<1>4. CASE \/ Connect \/ ConnectFails \/ Destroy \/ SendRequest \/ SendRequestFails
           \/ ReceiveHeader \/ ReceiveInvalid \/ ReceiveFails \/ Notify
           \/ CloseSocket \/ SetDoneReceiving \/ Join
  <2>1. UNCHANGED <<queue, entry, handled, fileMessage>>
    BY <1>4
    DEF Connect, ConnectFails, Destroy, SendRequest, SendRequestFails, ReceiveHeader,
        ReceiveInvalid, ReceiveFails, Receive, Throw, Notify, CloseSocket,
        SetDoneReceiving, Join, sharedVars, writerVars, outputVars, parserVars
  <2>2. Entries' = Entries
    BY <2>1 DEF Entries
  <2>3. \/ At' = At /\ outcome' = outcome
        \/ At = "new" /\ At' = "ready" /\ outcome' = outcome
        \/ At = "ready" /\ At' = "file" /\ outcome' = outcome
        \/ At = "header" /\ At' = "chunk" /\ outcome' = outcome
        \/ At' \in {"close", "flag", "join", "ended"} /\ outcome' \in {"threw", outcome}
    BY <1>4
    DEF Connect, ConnectFails, Destroy, SendRequest, SendRequestFails, ReceiveHeader,
        ReceiveInvalid, ReceiveFails, Receive, Throw, Notify, CloseSocket,
        SetDoneReceiving, Join, parserVars, At, ThreadsInv, CallerInv
  <2>4. ParserInv'
    BY <2>1, <2>2, <2>3 DEF EntriesInv, ParserInv, EndsFile
  <2> QED
    BY <1>1, <2>1, <2>2, <2>4
<1> QED
  BY <1>2, <1>3, <1>4, ReceiveFileEntries, ReceiveChunkEntries
  DEF Next, ClientNext, Caller

LEMMA ParserInvariance == Spec => []EntriesInv
<1>1. ThreadsInv /\ EntriesInv /\ [Next]_vars => EntriesInv'
  BY NextEntries
<1> QED
  BY <1>1, InitEntries, Threads, PTL DEF Spec

\* requestFile returns only with whole files: files and chunks alternate as they
\* should, the last entry ends the file that was announced as the last, and no
\* other one was.
THEOREM WholeFiles == Spec => []ReturnsWholeFiles
<1>1. ASSUME ThreadsInv, EntriesInv
      PROVE  ReturnsWholeFiles
  <2> SUFFICES ASSUME outcome = "returned"
               PROVE  /\ EndsFile(Entries[Len(Entries)])
                      /\ \A i \in DOMAIN Entries :
                           /\ Entries[i].file # None <=> (i = 1 \/ EndsFile(Entries[i - 1]))
                           /\ Entries[i].file # None =>
                                (Entries[i].file.last <=>
                                   \A j \in i + 1 .. Len(Entries) : Entries[j].file = None)
    BY DEF ReturnsWholeFiles
  <2>1. DOMAIN Entries = 1 .. Len(Entries)
    BY <1>1, EntriesType, LenProperties
  <2>2. EndsFile(Entries[Len(Entries)]) /\ fileMessage.last
    BY <1>1 DEF EntriesInv, ParserInv
  <2> QED
    BY <1>1, <2>1, <2>2 DEF EntriesInv, FilesAlternate, FilesGoOn
<1> QED
  BY <1>1, Threads, ParserInvariance, PTL

-------------------------------------------------------------------------------
(* The output                                                              *)

LEMMA InitOutput == Init => OutputInv
BY DEF Init, InitClient, OutputInv

LEMMA NextOutput ==
  ASSUME ThreadsInv, OutputInv, [Next]_vars
  PROVE  OutputInv'
<1>1. CASE OpenFile \/ WriteChunk
  <2>1. entry \in Entry /\ handled \in Seq(Entry) /\ handled' = Append(handled, entry)
    BY <1>1 DEF OpenFile, WriteChunk, Handled, ThreadsInv, TypeOK, WriterInv
  <2>2. handled' # <<>> /\ handled'[Len(handled')] = entry
    BY <2>1, AppendProperties
  <2>3. out' = "open" => ~EndsFile(entry)
    <3>1. CASE OpenFile
      <4>1. entry.header = None
        BY <2>1, <3>1 DEF OpenFile, Entry, FileEntry, ChunkEntry
      <4> QED
        BY <4>1 DEF EndsFile
    <3>2. CASE WriteChunk
      BY <3>2 DEF WriteChunk, EndsFile
    <3> QED
      BY <1>1, <3>1, <3>2
  <2> QED
    BY <2>2, <2>3 DEF OutputInv, EndsFile
<1>2. CASE UNCHANGED <<out, handled>>
  BY <1>2 DEF OutputInv, EndsFile
<1>3. CASE Caller
  BY <1>2, <1>3
  DEF Caller, Connect, ConnectFails, Destroy, SendRequest, SendRequestFails,
      ReceiveFile, ReceiveHeader, ReceiveInvalid, ReceiveChunk, ReceiveFails, Throw,
      Notify, CloseSocket, SetDoneReceiving, Join, writerVars, outputVars
<1>4. CASE LockQueue \/ TestQueue \/ Block \/ Pop \/ Check \/ SpuriousWake
  BY <1>2, <1>4
  DEF LockQueue, TestQueue, Block, Pop, Check, SpuriousWake, outputVars
<1>5. CASE UNCHANGED vars \/ ServerSends \/ ServerStops
  BY <1>2, <1>5 DEF vars, ServerSends, ServerStops, writerVars, outputVars
<1> QED
  BY <1>1, <1>3, <1>4, <1>5 DEF Next, ClientNext, Decompress

\* The stream a file is opened on is closed: the entry before an initial message
\* is a last chunk, and decompress deals with the entries in their order.
THEOREM NoOverlap == Spec => []FilesDoNotOverlap
<1>1. ASSUME ThreadsInv, EntriesInv, OutputInv
      PROVE  FilesDoNotOverlap
  <2> SUFFICES ASSUME dpc = "write", entry.file # None, out = "open"
               PROVE  FALSE
    BY DEF FilesDoNotOverlap
  <2> DEFINE n == Len(handled)
  <2>1. /\ entry \in Entry /\ entry # None
        /\ handled \in Seq(Entry) /\ queue \in Seq(Entry)
    BY <1>1 DEF ThreadsInv, TypeOK, WriterInv
  <2>2. handled # <<>> /\ ~EndsFile(handled[n])
    BY <1>1 DEF OutputInv
  <2>3. n \in Nat \ {0}
    BY <2>1, <2>2, EmptySeq
  <2>4. Entries = handled \o <<entry>> \o queue /\ <<entry>> \in Seq(Entry)
    BY <2>1 DEF Entries
  <2>5. /\ n + 1 \in 1 .. Len(Entries)
        /\ Entries[n + 1] = entry /\ Entries[n] = handled[n]
    BY <2>1, <2>3, <2>4, ConcatProperties
  <2>6. n + 1 # 1 /\ (n + 1) - 1 = n
    BY <2>3
  <2> HIDE DEF n
  <2>7. EndsFile(Entries[n])
    BY <1>1, <2>5, <2>6 DEF EntriesInv, FilesAlternate
  <2> QED
    BY <2>2, <2>5, <2>7 DEF EndsFile
<1>2. ThreadsInv /\ OutputInv /\ [Next]_vars => OutputInv'
  BY NextOutput
<1> QED
  BY <1>1, <1>2, InitOutput, Threads, ParserInvariance, PTL DEF Spec

-------------------------------------------------------------------------------
(* What is left in the destination directory: ReceivedFiles                *)

\* The file under way has the pieces that were received, unless its stream failed.
CurrentContent ==
  /\ Stored(current) \in DOMAIN destination
  /\ destination[Stored(current)] = Content(current, Form, bytesReceived)

CurrentInv ==
  /\ received # <<>>
  /\ \/ CurrentContent
     \/ /\ at = "chunk" => target # "open"
        /\ current \in reported \cup unwritten

DoneBefore(n) == \A i \in 1 .. n : Accounted(i)

FileInv ==
  /\ at = "file" => target = "closed" /\ DoneBefore(Len(received))
  /\ at = "ended" => DoneBefore(IF target = "closed" THEN Len(received)
                                ELSE Len(received) - 1)
  /\ at \in {"chunk", "decompress"} => CurrentInv /\ DoneBefore(Len(received) - 1)
  /\ at = "chunk" => target # "closed"
  /\ at = "decompress" => /\ target = "closed" /\ preCompression
                          /\ bytesReceived # PIECES => current \in short

DestinationInv == DestinationTypeOK /\ FileInv

\* What is asked of the constants: extensions can be counted.
NamesCounted == \A f \in Files : f.extensions \in Nat

-------------------------------------------------------------------------------

LEMMA InitDestination == DestinationInit => DestinationInv
BY DEF DestinationInit, DestinationInv, DestinationTypeOK, FileInv, DoneBefore

\* A step leaves a file accounted for if it reports and records no less, and
\* changes no content under its name.
LEMMA KeepsAccount ==
  ASSUME NEW i \in 1 .. Len(received), Accounted(i), received' = received, mode' = mode,
         reported \subseteq reported', unwritten \subseteq unwritten',
         undone \subseteq undone', short \subseteq short',
         Intact(received[i]) => Intact(received[i])' \/ Overwritten(i)
  PROVE  Accounted(i)'
BY DEF Accounted, Overwritten, preCompression, Plain, Stored, Intact

\* Files before the last one stay accounted for by a step that changes contents
\* under the names of the file under way only.
LEMMA KeepsBefore ==
  ASSUME DestinationInv, received # <<>>, DoneBefore(Len(received) - 1),
         received' = received, mode' = mode,
         reported \subseteq reported', unwritten \subseteq unwritten',
         undone \subseteq undone', short \subseteq short',
         \A n \in DOMAIN destination \ {Stored(current), Plain(current)} :
           n \in DOMAIN destination' /\ destination'[n] = destination[n]
  PROVE  DoneBefore(Len(received) - 1)'
<1>1. Len(received) \in Nat \ {0}
  BY EmptySeq, LenProperties DEF DestinationInv, DestinationTypeOK
<1> SUFFICES ASSUME NEW i \in 1 .. Len(received) - 1
             PROVE  Accounted(i)'
  BY DEF DoneBefore
<1>2. i \in 1 .. Len(received) /\ Len(received) \in i + 1 .. Len(received)
  BY <1>1
<1>3. Accounted(i)
  BY DEF DoneBefore
<1>4. ASSUME Intact(received[i])
      PROVE  Intact(received[i])' \/ Overwritten(i)
  <2>1. CASE Plain(received[i]) \in {Stored(current), Plain(current)}
    BY <1>2, <2>1 DEF Overwritten, current
  <2>2. CASE Plain(received[i]) \notin {Stored(current), Plain(current)}
    BY <1>4, <2>2 DEF Intact, Plain, Content
  <2> QED
    BY <2>1, <2>2
<1> QED
  BY <1>2, <1>3, <1>4, KeepsAccount

\* An initial message: the files before it are overwritten or untouched.
LEMMA CreateFileInv ==
  ASSUME DestinationInv, NEW f \in Files, CreateFile(f)
  PROVE  DestinationInv'
<1>1. /\ received \in Seq(Files) /\ Len(received) \in Nat
      /\ received' = Append(received, f)
      /\ received' \in Seq(Files)
      /\ Len(received') = Len(received) + 1
      /\ received'[Len(received')] = f
      /\ \A i \in 1 .. Len(received) : received'[i] = received[i]
      /\ received' # <<>>
  BY EmptySeq, LenProperties DEF DestinationInv, DestinationTypeOK, CreateFile
<1>2. mode' = mode /\ bytesReceived' = 0 /\ at' = "chunk" /\ at = "file"
  BY DEF CreateFile
<1>3. DestinationTypeOK'
  BY <1>1, <1>2 DEF DestinationInv, DestinationTypeOK, CreateFile, With, Content
<1>4. CurrentInv'
  <2>1. current' = f /\ Stored(current)' = Stored(f) /\ Form' = Form
    BY <1>1, <1>2 DEF current, Stored, Form
  <2>2. CASE target' = "open" /\ destination' = With(Stored(f), Content(f, Form, 0))
    BY <1>1, <1>2, <2>1, <2>2 DEF CurrentInv, CurrentContent, With, Content
  <2>3. CASE target' = "failed" /\ reported' = reported \cup {f}
    BY <1>1, <2>1, <2>3 DEF CurrentInv
  <2> QED
    BY <2>2, <2>3 DEF CreateFile
<1>5. DoneBefore(Len(received) - 1)'
  <2> SUFFICES ASSUME NEW i \in 1 .. Len(received)
               PROVE  Accounted(i)'
    BY <1>1 DEF DoneBefore
  <2>1. Accounted(i)
    BY <1>2 DEF DestinationInv, FileInv, DoneBefore
  <2>2. CASE Plain(received[i]) \in {Stored(f), Plain(f)}
    <3>1. Overwritten(i)'
      BY <1>1, <1>2, <2>2 DEF Overwritten, Plain, Stored
    <3> QED
      BY <3>1 DEF Accounted
  <2>3. CASE Plain(received[i]) \notin {Stored(f), Plain(f)}
    <3>1. Overwritten(i) => Overwritten(i)'
      BY <1>1, <1>2 DEF Overwritten, Plain, Stored
    <3>2. received'[i] = received[i]
      BY <1>1
    <3>3. Intact(received[i]) => Intact(received[i])'
      <4> SUFFICES ASSUME Intact(received[i])
                   PROVE  Plain(received[i]) \in DOMAIN destination'
                          /\ destination'[Plain(received[i])] = destination[Plain(received[i])]
        BY <3>2 DEF Intact, Plain, Content
      <4>1. CASE destination' = destination
        BY <4>1 DEF Intact
      <4>2. CASE destination' = With(Stored(f), Content(f, Form, 0))
        BY <2>3, <4>2 DEF Intact, With
      <4> QED
        BY <4>1, <4>2 DEF CreateFile
    <3>4. reported \subseteq reported' /\ UNCHANGED <<short, unwritten, undone>>
      BY DEF CreateFile
    <3> QED
      BY <1>2, <2>1, <3>1, <3>2, <3>3, <3>4 DEF Accounted, preCompression
  <2> QED
    BY <2>2, <2>3
<1>6. target' # "closed"
  BY DEF CreateFile
<1> QED
  BY <1>2, <1>3, <1>4, <1>5, <1>6 DEF DestinationInv, FileInv

\* A chunk: only the content under way changes.
LEMMA StoreChunkInv ==
  ASSUME DestinationInv, StoreChunk
  PROVE  DestinationInv'
<1>1. /\ at = "chunk" /\ at' = "chunk" /\ received' = received /\ mode' = mode
      /\ CurrentInv /\ DoneBefore(Len(received) - 1) /\ received # <<>>
      /\ reported' = reported /\ short' = short /\ undone' = undone
      /\ unwritten \subseteq unwritten'
      /\ bytesReceived \in Nat /\ bytesReceived' = bytesReceived + 1
  BY DEF DestinationInv, DestinationTypeOK, FileInv, StoreChunk, CurrentInv
<1>2. CASE /\ target = "open" /\ target' = "open" /\ unwritten' = unwritten
           /\ destination' = With(Stored(current), [destination[Stored(current)]
                                                      EXCEPT !.pieces = @ + 1])
  <2>1. destination' = With(Stored(current), Content(current, Form, bytesReceived'))
    BY <1>1, <1>2 DEF CurrentInv, CurrentContent, Content
  <2>2. CurrentInv'
    BY <1>1, <1>2, <2>1 DEF CurrentInv, CurrentContent, current, With, Content, Stored, Form
  <2>3. \A n \in DOMAIN destination \ {Stored(current), Plain(current)} :
          n \in DOMAIN destination' /\ destination'[n] = destination[n]
    BY <2>1 DEF With
  <2>4. DoneBefore(Len(received) - 1)'
    BY <1>1, <2>3, KeepsBefore
  <2>5. DestinationTypeOK'
    BY <1>1, <1>2, <2>1 DEF DestinationInv, DestinationTypeOK, With, Content
  <2> QED
    BY <1>1, <1>2, <2>2, <2>4, <2>5 DEF DestinationInv, FileInv
<1>3. CASE /\ target' = "failed" /\ unwritten' = unwritten \cup {current}
           /\ destination' = destination
  <2>1. CurrentInv'
    BY <1>1, <1>3 DEF CurrentInv, current
  <2>2. DoneBefore(Len(received) - 1)'
    BY <1>1, <1>3, KeepsBefore
  <2>3. DestinationTypeOK'
    BY <1>1, <1>3 DEF DestinationInv, DestinationTypeOK
  <2> QED
    BY <1>1, <1>3, <2>1, <2>2, <2>3 DEF DestinationInv, FileInv
<1> QED
  BY <1>2, <1>3 DEF StoreChunk

\* The last chunk: by chunks, the file is whole or reported; otherwise it is
\* decompressed next.
LEMMA CloseFileInv ==
  ASSUME NamesCounted, DestinationInv, CloseFile
  PROVE  DestinationInv'
<1>1. /\ at = "chunk" /\ received' = received /\ mode' = mode /\ target' = "closed"
      /\ CurrentInv /\ DoneBefore(Len(received) - 1) /\ received # <<>>
      /\ reported \subseteq reported' /\ short \subseteq short'
      /\ UNCHANGED <<undone, unwritten, bytesReceived, destination>>
      /\ bytesReceived # PIECES => current \in short'
  BY DEF DestinationInv, FileInv, CloseFile, CurrentInv
<1>2. DestinationTypeOK'
  BY <1>1 DEF DestinationInv, DestinationTypeOK, CloseFile
<1>3. DoneBefore(Len(received) - 1)'
  BY <1>1, KeepsBefore
<1>4. CASE preCompression
  <2>1. at' = "decompress" /\ preCompression'
    BY <1>1, <1>4 DEF CloseFile, preCompression
  <2>2. CurrentInv'
    BY <1>1, <2>1 DEF CurrentInv, CurrentContent, current, Stored, Form, Content
  <2> QED
    BY <1>1, <1>2, <1>3, <2>1, <2>2 DEF DestinationInv, FileInv, current
<1>5. CASE ~preCompression
  <2>1. at' = "file" /\ (bytesReceived # PIECES => current \in reported')
    BY <1>1, <1>5 DEF CloseFile
  <2>2. /\ Len(received) \in Nat \ {0} /\ received[Len(received)] = current
        /\ current \in Files
    BY <1>1, EmptySeq, LenProperties DEF DestinationInv, DestinationTypeOK, current
  <2>3. current \in reported' \cup unwritten' \/ Intact(current)'
    <3>1. Stored(current) = Plain(current) /\ Form = "plain"
      BY <1>5, <2>2 DEF preCompression, Stored, Plain, Form, NamesCounted
    <3>2. ASSUME CurrentContent, bytesReceived = PIECES
          PROVE  Intact(current)'
      BY <1>1, <3>1, <3>2 DEF CurrentContent, Intact, current, Plain, Content
    <3> QED
      BY <1>1, <2>1, <3>2 DEF CurrentInv
  <2>4. Accounted(Len(received))'
    BY <1>1, <2>2, <2>3 DEF Accounted, current, Intact, Plain
  <2>5. DoneBefore(Len(received))'
    BY <1>1, <1>3, <2>2, <2>4 DEF DoneBefore
  <2> QED
    BY <1>1, <1>2, <2>1, <2>5 DEF DestinationInv, FileInv
<1> QED
  BY <1>4, <1>5

\* decompressFile() reports, or records, or leaves the file as it was.
LEMMA DecompressedInv ==
  ASSUME DestinationInv, at = "decompress", at' = "file", DestinationTypeOK', target' = "closed",
         received' = received, mode' = mode,
         reported \subseteq reported', unwritten \subseteq unwritten',
         undone \subseteq undone', short \subseteq short',
         \A n \in DOMAIN destination \ {Stored(current), Plain(current)} :
           n \in DOMAIN destination' /\ destination'[n] = destination[n],
         \/ Intact(current)'
         \/ current \in reported' \cup unwritten' \cup undone' \cup short'
  PROVE  DestinationInv'
<1>1. /\ Len(received) \in Nat \ {0} /\ received[Len(received)] = current
      /\ preCompression /\ preCompression' /\ received # <<>>
      /\ DoneBefore(Len(received) - 1)
  BY EmptySeq, LenProperties
  DEF DestinationInv, DestinationTypeOK, FileInv, CurrentInv, current, preCompression
<1>2. DoneBefore(Len(received) - 1)'
  BY <1>1, KeepsBefore
<1>3. Accounted(Len(received))'
  BY <1>1 DEF Accounted, Intact, current, Plain
<1>4. DoneBefore(Len(received))'
  BY <1>1, <1>2, <1>3 DEF DoneBefore
<1> QED
  BY <1>4 DEF DestinationInv, FileInv

\* A compressor of chunks, or COPY: the file is under its name already.
LEMMA DecompressCopyInv ==
  ASSUME NamesCounted, DestinationInv, DecompressCopy
  PROVE  DestinationInv'
<1>1. /\ at = "decompress" /\ at' = "file" /\ mode = "copy" /\ target' = "closed"
      /\ UNCHANGED <<mode, target, bytesReceived, destination, reported, history>>
      /\ CurrentInv /\ (bytesReceived # PIECES => current \in short)
  BY DEF DestinationInv, FileInv, DecompressCopy
<1>2. DestinationTypeOK'
  BY <1>1 DEF DestinationInv, DestinationTypeOK, history
<1>3. ASSUME CurrentContent, bytesReceived = PIECES
      PROVE  Intact(current)'
  <2>1. current \in Files
    BY <1>1, EmptySeq, LenProperties DEF DestinationInv, DestinationTypeOK, CurrentInv, current
  <2>2. Stored(current) = Plain(current) /\ Form = "plain"
    BY <1>1, <2>1 DEF Stored, Plain, Form, NamesCounted
  <2> QED
    BY <1>1, <1>3, <2>2 DEF CurrentContent, Intact, current, Plain, Content, history
<1>4. Intact(current)' \/ current \in reported' \cup unwritten' \cup undone' \cup short'
  BY <1>1, <1>3 DEF CurrentInv, history
<1> QED
  BY <1>1, <1>2, <1>4, DecompressedInv DEF history

\* A script that ran: it made the whole file, or too little of it, or of too little.
LEMMA DecompressScriptInv ==
  ASSUME NamesCounted, DestinationInv, DecompressScript
  PROVE  DestinationInv'
<1> DEFINE input == destination[Stored(current)]
<1>1. /\ at = "decompress" /\ at' = "file" /\ mode = "script" /\ target' = "closed"
      /\ UNCHANGED <<mode, target, bytesReceived, reported, received, short, unwritten>>
      /\ CurrentInv /\ (bytesReceived # PIECES => current \in short)
      /\ undone \subseteq undone'
      /\ Stored(current) \in DOMAIN destination /\ input.pieces \in Nat
  BY DEF DestinationInv, DestinationTypeOK, FileInv, DecompressScript
<1>2. PICK content \in Decompressed(input) :
        /\ destination' = LET all == With(Plain(current), content)
                          IN  Restrict(all, DOMAIN all \ {Stored(current)})
        /\ content.pieces # input.pieces => current \in undone'
  BY DEF DecompressScript
<1>3. PICK n \in IF input.form = "compressed" THEN 0 .. input.pieces ELSE {0} :
        content = Content(input.file, "plain", n)
  BY DEF Decompressed
<1>4. content.pieces = n /\ n \in Nat
  BY <1>1, <1>3 DEF Content
<1>5. /\ DOMAIN destination' =
           (DOMAIN destination \cup {Plain(current)}) \ {Stored(current)}
      /\ \A name \in DOMAIN destination' :
           destination'[name] = IF name = Plain(current) THEN content
                                ELSE destination[name]
  BY <1>2 DEF With, Restrict
<1>6. DestinationTypeOK'
  BY <1>1, <1>4, <1>5 DEF DestinationInv, DestinationTypeOK
<1>7. Plain(current) # Stored(current)
  <2>1. current \in Files
    BY <1>1, EmptySeq, LenProperties DEF DestinationInv, DestinationTypeOK, CurrentInv, current
  <2> QED
    BY <1>1, <2>1 DEF Plain, Stored, NamesCounted
<1>8. ASSUME CurrentContent, bytesReceived = PIECES, current \notin undone'
      PROVE  Intact(current)'
  <2>1. input = Content(current, Form, PIECES) /\ n = PIECES
    BY <1>2, <1>4, <1>8 DEF CurrentContent, Content
  <2>2. content = Content(current, "plain", PIECES)
    BY <1>3, <2>1 DEF Content
  <2> QED
    BY <1>1, <1>5, <1>7, <2>2 DEF Intact, current, Plain, Content
<1>9. Intact(current)' \/ current \in reported' \cup unwritten' \cup undone' \cup short'
  BY <1>1, <1>8 DEF CurrentInv
<1>10. \A name \in DOMAIN destination \ {Stored(current), Plain(current)} :
         name \in DOMAIN destination' /\ destination'[name] = destination[name]
  BY <1>5
<1> QED
  BY <1>1, <1>6, <1>9, <1>10, DecompressedInv

\* A script that found no input: its file could not be opened, or its stream failed.
LEMMA DecompressNothingInv ==
  ASSUME DestinationInv, DecompressNothing
  PROVE  DestinationInv'
<1>1. /\ at = "decompress" /\ at' = "file" /\ target' = "closed"
      /\ UNCHANGED <<mode, target, bytesReceived, destination, reported, history>>
      /\ current \in reported \cup unwritten
  BY DEF DestinationInv, FileInv, DecompressNothing, CurrentInv, CurrentContent
<1>2. DestinationTypeOK'
  BY <1>1 DEF DestinationInv, DestinationTypeOK, history
<1> QED
  BY <1>1, <1>2, DecompressedInv DEF history

\* A script that could not be executed is reported.
LEMMA DecompressFailsInv ==
  ASSUME DestinationInv, DecompressFails
  PROVE  DestinationInv'
<1>1. /\ at = "decompress" /\ at' = "file" /\ target' = "closed"
      /\ UNCHANGED <<mode, target, bytesReceived, destination, history>>
      /\ reported' = reported \cup {current}
  BY DEF DestinationInv, FileInv, DecompressFails
<1>2. DestinationTypeOK'
  BY <1>1 DEF DestinationInv, DestinationTypeOK, history
<1> QED
  BY <1>1, <1>2, DecompressedInv DEF history

\* At the end of the thread the file under way, if there is one, is not finished.
LEMMA EndInv ==
  ASSUME DestinationInv, End
  PROVE  DestinationInv'
<1>1. /\ at' = "ended"
      /\ UNCHANGED <<mode, target, bytesReceived, destination, reported, history>>
      /\ DoneBefore(IF target = "closed" THEN Len(received) ELSE Len(received) - 1)
  BY DEF DestinationInv, FileInv, End
<1>2. DestinationTypeOK'
  BY <1>1 DEF DestinationInv, DestinationTypeOK, history
<1>3. DoneBefore(IF target = "closed" THEN Len(received) ELSE Len(received) - 1)'
  BY <1>1 DEF DoneBefore, Accounted, Overwritten, Intact, preCompression, Plain,
              Stored, Content, history
<1> QED
  BY <1>1, <1>2, <1>3 DEF DestinationInv, FileInv

LEMMA NextDestination ==
  ASSUME NamesCounted, DestinationInv, [DestinationNext]_destinationVars
  PROVE  DestinationInv'
<1>1. CASE UNCHANGED destinationVars
  <2>1. DestinationTypeOK'
    BY <1>1 DEF destinationVars, history, DestinationInv, DestinationTypeOK
  <2>2. CurrentInv' <=> CurrentInv
    BY <1>1 DEF destinationVars, history, CurrentInv, CurrentContent, current, Stored, Form, Content
  <2>3. \A n : DoneBefore(n)' <=> DoneBefore(n)
    BY <1>1 DEF destinationVars, history, DoneBefore, Accounted, Overwritten, Intact,
                preCompression, Plain, Stored, Content
  <2>4. FileInv' <=> FileInv
    <3>1. UNCHANGED <<at, target, received, bytesReceived, short, mode>>
      BY <1>1 DEF destinationVars, history
    <3> QED
      BY <2>2, <2>3, <3>1 DEF FileInv, current, preCompression
  <2> QED
    BY <2>1, <2>4 DEF DestinationInv
<1> QED
  BY <1>1, CreateFileInv, StoreChunkInv, CloseFileInv, DecompressCopyInv,
     DecompressScriptInv, DecompressNothingInv, DecompressFailsInv, EndInv
  DEF DestinationNext

\* Between two files and at the end, the files that are done with are accounted for.
LEMMA DestinationImplies == DestinationInv => LostOrReported
BY DEF DestinationInv, FileInv, DoneBefore, LostOrReported, Finished

-------------------------------------------------------------------------------

\* Every file that Client::decompress() received to its end is in the destination
\* directory, whole and under its name, or an error was logged, or it is one of the
\* four kinds that are lost in silence.
THEOREM Received ==
  ASSUME NamesCounted
  PROVE  DestinationSpec => []LostOrReported
<1>1. DestinationInit => DestinationInv
  BY InitDestination
<1>2. DestinationInv /\ [DestinationNext]_destinationVars => DestinationInv'
  BY NextDestination
<1>3. DestinationInv => LostOrReported
  BY DestinationImplies
<1> QED
  BY <1>1, <1>2, <1>3, PTL DEF DestinationSpec
===============================================================================
