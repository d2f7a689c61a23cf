-------------------------------- MODULE DataPath --------------------------------
(***************************************************************************)
(* The way of the data of one request: the file processor reads a chunk    *)
(* and compresses it as the request's strategy says (Compression), the     *)
(* messages go over the connection (TCPSocket), the client decompresses    *)
(* the chunks into a buffer it keeps and writes them.  A served file may   *)
(* change its size while it is sent.                                       *)
(*                                                                         *)
(* The queues between the threads are the subject of Transmission and      *)
(* Client: here the server prepares a chunk when the messages before it    *)
(* are on their way, and the client processes a message when it arrives.   *)
(* A Buffer is its capacity and the piece it holds; the server's output    *)
(* buffer has OUT bytes, 1.1 times a chunk, whenever it is compressed to.  *)
(***************************************************************************)
EXTENDS Compression, TCPSocket

CONSTANTS
  Requests,     \* requests to explore: [mode, compressor, level]
  Turns,        \* where earlier files may have left the round robin
  FILES,        \* bound: files of a request
  Sizes,        \* sizes a file may have, in bytes
  CHUNK,        \* bytes of a chunk
  OUT,          \* capacity of the server's output buffer
  MODULUS       \* of a size_t

ASSUME DataAssumption ==
  /\ Requests \subseteq [mode : {"copy", "auto", "compress", "train", "round robin"},
                         compressor : Codecs \union {"COPY"}, level : Int]
  /\ Turns \subseteq 1 .. Len(RoundRobin)
  /\ FILES \in Nat \ {0}
  /\ Sizes \subseteq Nat
  /\ CHUNK \in Nat \ {0} /\ CHUNK % DOUBLE = 0     \* 64 or 512 KiB
  /\ OUT \in CHUNK .. BASE * BASE - 1
  /\ MODULUS \in Nat \ {0}

VARIABLES
  request,      \* the request, with the level that setCompressor() set
  stage,        \* the server: "configure", "file", "chunk", "refused", "done"
  turn,         \* round robin: the compressor of the next chunk
  file,         \* number of the current file
  size,         \* its size on the disk
  fileSize,     \* currentFileSize, as it was when the file was opened
  readBytes,    \* currentFileReadBytes
  eof,          \* whether the last read() came short
  outbox,       \* messages prepared, not yet given to the socket
  bytesSent,    \* transmit()'s local of that name
  bandwidth,    \* level of what it published: bytes that left in an interval
  \* the client
  expects,      \* "initial", "header" or "chunk"
  header,       \* of the header: the compressor, and the lastchunk flag
  decompressed, \* decompressedChunk: its capacity and the piece it holds
  current,      \* number and announced size of its current file
  bytesReceived,\* how much was written to it
  written,      \* pieces written to it
  closed,       \* whether it is closed
  corrupted,    \* and was reported as corrupted
  \* history
  source,       \* messages prepared for that file and for the next ones
  drained,      \* bytes that left the kernel since the last measurement
  frames        \* messages sent since then

serverVars == <<request, stage, turn, file, size, fileSize, readBytes, eof>>
meterVars  == <<bytesSent, bandwidth, drained, frames>>
clientVars == <<expects, header, decompressed, current, bytesReceived, written,
                closed, corrupted>>
vars == <<socketVars, serverVars, outbox, meterVars, clientVars, source>>

COPY == <<"COPY", -1>>
Nothing == [file |-> 0, from |-> 0, size |-> 0]

Piece == [file : 0 .. FILES, from : Nat, size : 0 .. CHUNK]

TypeOK ==
  /\ SocketTypeOK
  /\ request.mode \in {"copy", "auto", "compress", "train", "round robin"}
  /\ stage \in {"configure", "file", "chunk", "refused", "done"}
  /\ turn \in 1 .. Len(RoundRobin)
  /\ file \in 0 .. FILES
  /\ size \in Sizes \union {0}
  /\ readBytes <= fileSize + CHUNK
  /\ Len(outbox) <= 2
  /\ bytesSent \in Nat
  /\ bandwidth \in 0 .. 58
  /\ expects \in {"initial", "header", "chunk"}
  /\ decompressed.piece \in Piece
  /\ decompressed.piece.size <= decompressed.capacity
  /\ 2 * Len(written) <= Len(source)

Init ==
  /\ SocketInit
  /\ request \in Requests
  /\ stage = "configure"
  /\ turn \in IF request.mode = "round robin" THEN Turns ELSE {1}
  /\ file = 0 /\ size = 0 /\ fileSize = 0 /\ readBytes = 0 /\ eof = FALSE
  /\ outbox = <<>>
  /\ bytesSent = 0 /\ bandwidth = 0
  /\ drained = 0 /\ frames = 0
  /\ expects = "initial" /\ header = [by |-> "COPY", last |-> FALSE]
  /\ decompressed = [capacity |-> 0, piece |-> Nothing]
  /\ current = [file |-> 0, size |-> 0] /\ bytesReceived = 0
  /\ written = <<>> /\ closed = FALSE /\ corrupted = FALSE
  /\ source = <<>>

-------------------------------------------------------------------------------
(* The server                                                              *)

\* configureFileProcessor(): a level out of range is refused.
Configure ==
  /\ stage = "configure"
  /\ IF request.mode \in {"compress", "train"}
     THEN /\ stage' = IF Accepts(request.compressor, request.level)
                      THEN "file" ELSE "refused"
          /\ request' = [request EXCEPT
                           !.level = LevelOf(request.compressor, request.level)]
     ELSE stage' = "file" /\ UNCHANGED request
  /\ UNCHANGED <<socketVars, turn, file, size, fileSize, readBytes, eof, outbox,
                 meterVars, clientVars, source>>

\* The messages of the chunk before are with the socket, and sent.
Idle == outbox = <<>> /\ sending = "idle"

\* openNextFile(), and the file's initial message.
OpenNextFile ==
  /\ stage = "file"
  /\ Idle
  /\ IF file = FILES
     THEN /\ stage' = "done"
          /\ UNCHANGED <<file, size, fileSize, readBytes, eof, outbox, source>>
     ELSE /\ stage' = "chunk"
          /\ file' = file + 1
          /\ size' \in Sizes \ {0}
          /\ fileSize' = size'
          /\ readBytes' = 0 /\ eof' = FALSE
          /\ outbox' = <<[kind |-> "initial", file |-> file', size |-> fileSize',
                          len |-> 1]>>
          /\ source' = source \o outbox'
  /\ UNCHANGED <<socketVars, request, turn, meterVars, clientVars>>

\* Somebody writes the file that is being sent.
Resize ==
  /\ stage = "chunk"
  /\ size = fileSize
  /\ size' \in Sizes \ {size}
  /\ UNCHANGED <<socketVars, request, stage, turn, file, fileSize, readBytes, eof,
                 outbox, meterVars, clientVars, source>>

\* The compressor that the strategy takes for the chunk.
Chosen ==
  CASE request.mode = "copy"        -> {COPY}
    [] request.mode = "compress"    -> {<<request.compressor, request.level>>}
    [] request.mode = "train"       -> {COPY, <<request.compressor, request.level>>}
    [] request.mode = "auto"        -> Decisions(bandwidth)
    [] request.mode = "round robin" -> {RoundRobin[turn]}

\* The compressor's compress(): the chunk, and whether it threw, which makes a
\* copy; a copy asks nothing of a codec.
Results(piece) ==
  {[chunk |-> Copied(piece), threw |-> t] : t \in {c # COPY : c \in Chosen}}
    \union UNION {{[chunk |-> z, threw |-> FALSE] : z \in Compressed(c[1], piece, OUT)} :
                  c \in Chosen \ {COPY}}

NextTurn_NoBegin == turn + 1

\* ++currentCompressor, and begin() after the last one.
NextTurn == IF turn = Len(RoundRobin) THEN 1 ELSE turn + 1

HasNextChunk == ~eof /\ readBytes < fileSize

\* getNextChunk(): a read, the strategy's compress(), and a copy if it throws.
\* The header says if it is the last one.
GetNextChunk ==
  /\ stage = "chunk"
  /\ Idle
  /\ HasNextChunk
  /\ LET count == IF size <= readBytes THEN 0
                  ELSE IF size - readBytes < CHUNK THEN size - readBytes ELSE CHUNK
         piece == [file |-> file, from |-> readBytes, size |-> count]
     IN  /\ readBytes' = readBytes + count
         /\ eof' = (count < CHUNK)
         /\ \E result \in Results(piece) :
              LET chunk == result.chunk IN
              /\ outbox' = <<[kind |-> "header", by |-> chunk.by,
                              last |-> eof' \/ readBytes' >= fileSize, len |-> 1],
                             [kind |-> "chunk", chunk |-> chunk, len |-> chunk.len]>>
              /\ source' = source \o outbox'
              /\ turn' = IF request.mode # "round robin" \/ result.threw THEN turn
                         ELSE NextTurn
  /\ UNCHANGED <<socketVars, request, stage, file, size, fileSize, meterVars,
                 clientVars>>

EndOfFile ==
  /\ stage = "chunk"
  /\ ~HasNextChunk
  /\ stage' = "file"
  /\ UNCHANGED <<socketVars, request, turn, file, size, fileSize, readBytes, eof,
                 outbox, meterVars, clientVars, source>>

-------------------------------------------------------------------------------
(* transmit()                                                              *)

\* Less than 10 ms have passed since the last measurement.
Send ==
  /\ outbox # <<>>
  /\ StartSend(Head(outbox))
  /\ outbox' = Tail(outbox)
  /\ bytesSent' = bytesSent + Head(outbox).len
  /\ frames' = frames + 1
  /\ UNCHANGED <<serverVars, bandwidth, drained, clientVars, source>>

MeasureAndSend_ForgetsBuffer ==
  /\ outbox # <<>>
  /\ StartSend(Head(outbox))
  /\ outbox' = Tail(outbox)
  /\ bandwidth' = BandwidthLevel((bytesSent - Len(kernel)) % MODULUS)
  /\ bytesSent' = Head(outbox).len
  /\ drained' = 0 /\ frames' = 1
  /\ UNCHANGED <<serverVars, clientVars, source>>

\* At least 10 ms have passed: what the kernel does not hold any more has left
\* in them.  The difference is unsigned.
MeasureAndSend ==
  /\ outbox # <<>>
  /\ StartSend(Head(outbox))
  /\ outbox' = Tail(outbox)
  /\ bandwidth' = BandwidthLevel((bytesSent - Len(kernel)) % MODULUS)
  /\ bytesSent' = Len(kernel) + Head(outbox).len
  /\ drained' = 0 /\ frames' = 1
  /\ UNCHANGED <<serverVars, clientVars, source>>

Write ==
  /\ WriteSome
  /\ UNCHANGED <<serverVars, outbox, meterVars, clientVars, source>>

Read ==
  /\ ReadSome
  /\ drained' = drained + (Len(kernel) - Len(kernel'))
  /\ UNCHANGED <<serverVars, outbox, bytesSent, bandwidth, frames,
                 clientVars, source>>

-------------------------------------------------------------------------------
(* The client                                                              *)

\* How many messages of `source' it has dealt with.
Handled == Len(source) - Len(transit) - Len(outbox)

ReceiveInitial_NoResize(m) ==
  /\ expects = "initial"
  /\ Receive(m)
  /\ decompressed' = [capacity |-> IF m.file = 1 THEN CHUNK ELSE decompressed.capacity,
                      piece |-> Nothing]
  /\ current' = [file |-> m.file, size |-> m.size] /\ bytesReceived' = 0
  /\ written' = <<>> /\ closed' = FALSE /\ corrupted' = FALSE
  /\ source' = SubSeq(source, Handled + 1, Len(source))
  /\ expects' = "header"
  /\ UNCHANGED <<serverVars, outbox, meterVars, header>>

\* The file is opened; setData("") and resize() give the buffer that the chunks
\* are decompressed into a chunk's capacity again.
ReceiveInitial(m) ==
  /\ expects = "initial"
  /\ Receive(m)
  /\ decompressed' = [capacity |-> CHUNK, piece |-> Nothing]
  /\ current' = [file |-> m.file, size |-> m.size] /\ bytesReceived' = 0
  /\ written' = <<>> /\ closed' = FALSE /\ corrupted' = FALSE
  /\ source' = SubSeq(source, Handled + 1, Len(source))
  /\ expects' = "header"
  /\ UNCHANGED <<serverVars, outbox, meterVars, header>>

ReceiveHeader(m) ==
  /\ expects = "header"
  /\ Receive(m)
  /\ header' = [by |-> m.by, last |-> m.last]
  /\ expects' = "chunk"
  /\ UNCHANGED <<serverVars, outbox, meterVars, decompressed, current,
                 bytesReceived, written, closed, corrupted, source>>

\* By the header's compressor: a copy is swapped with the buffer, which then has
\* the capacity of the chunk (and no piece of the file, if it is no copy);
\* anything else is decompressed into it, or leaves it as it was.  What it
\* holds is written; after the last chunk the file is closed and its size
\* compared with the announced one.
ReceiveChunk(m) ==
  /\ expects = "chunk"
  /\ Receive(m)
  /\ decompressed' =
       IF header.by = "COPY"
       THEN [capacity |-> m.len,
             piece |-> IF m.chunk.by = "COPY" THEN m.chunk.piece ELSE Nothing]
       ELSE IF Decompresses(header.by, m.chunk, decompressed.capacity)
       THEN [decompressed EXCEPT !.piece = Restored(m.chunk)]
       ELSE decompressed
  /\ written' = Append(written, decompressed'.piece)
  /\ bytesReceived' = bytesReceived + decompressed'.piece.size
  /\ closed' = header.last
  /\ corrupted' = (header.last /\ bytesReceived' # current.size)
  /\ expects' = IF header.last THEN "initial" ELSE "header"
  /\ UNCHANGED <<serverVars, outbox, meterVars, header, current, source>>

-------------------------------------------------------------------------------

Next ==
  \/ Configure \/ OpenNextFile \/ Resize \/ GetNextChunk \/ EndOfFile
  \/ Send \/ MeasureAndSend \/ Write \/ Read
  \/ \E m \in {got[i].of : i \in (IF receiving = "whole" THEN {1} ELSE {})} :
       ReceiveInitial(m) \/ ReceiveHeader(m) \/ ReceiveChunk(m)

Spec == Init /\ [][Next]_vars

-------------------------------------------------------------------------------
(* Properties                                                              *)

\* The k-th chunk of the client's file: after the initial message, each chunk
\* comes behind its header.
Chunk(k) == source[2 * k + 1].chunk

\* A chunk that FPC cannot restore: its size is not a whole number of doubles; one
\* without a double it cannot even decompress.
Broken(chunk)  == chunk.by = "FPC" /\ chunk.piece.size % DOUBLE # 0
Refused(chunk) == chunk.by = "FPC" /\ chunk.piece.size < DOUBLE

\* What a chunk leaves in the client's file: itself, unless FPC lost its end, or
\* had no double of it and the client writes the chunk before once more.
Left(k) ==
  IF Refused(Chunk(k)) THEN (IF k = 1 THEN Nothing ELSE written[k - 1])
  ELSE IF Broken(Chunk(k)) THEN Restored(Chunk(k))
  ELSE Chunk(k).piece

\* Pieces of the file that follow one another from its beginning to its end.
Whole(pieces) ==
  LET end(k) == IF k = 0 THEN 0 ELSE pieces[k].from + pieces[k].size
  IN  /\ \A k \in DOMAIN pieces : pieces[k].file = current.file
                                  /\ pieces[k].from = end(k - 1)
      /\ end(Len(pieces)) = current.size

\* What the client writes is what the server read, chunk by chunk and in order,
\* except where FPC's doubles do not cover a chunk: the framing, the buffers that
\* are swapped and resized, and the codec named by each header all have a part
\* in it.  A file that is closed and not reported as corrupted is whole, unless
\* its last chunk was refused and what was written in its place has the size that
\* was due.  The client's receive() returns the messages in order, and fails only on
\* an empty one: the copy of nothing, read from a file that was cut at the end of
\* a chunk.
FilesRestored ==
  /\ \A k \in DOMAIN written : written[k] = Left(k)
  /\ closed /\ ~corrupted =>
       \/ Whole(written)
       \/ Len(written) > 1 /\ Refused(Chunk(Len(written)))
  /\ receiving = "whole" => got = Data(source[Handled + 1])
  /\ receiving = "failed" =>
       LET m == source[Handled + 1]
       IN  m.kind = "chunk" /\ m.chunk = Copied(m.chunk.piece) /\ m.chunk.piece.size = 0

\* What the next measurement will find counts every byte that has left the
\* kernel's buffer since the last one, whichever message it was of, except the
\* prefixes: it is too small by them, and wraps when fewer bytes left than they
\* are.
EstimateDrained ==
  sending = "idle" => bytesSent - Len(kernel) = drained - 2 * frames
===============================================================================
