----------------------------- MODULE DataPathProofs -----------------------------
(***************************************************************************)
(* Theorems about DataPath, for any sizes of files, chunks, prefixes and   *)
(* buffers, and any way in which writes and reads cut the bytes.           *)
(***************************************************************************)
EXTENDS DataPath, QueueLemmas

-------------------------------------------------------------------------------
(* The messages                                                            *)

Compressors == (Codecs \X Int) \union {COPY}

Chunks == {Copied(p) : p \in Piece} \union [piece : Piece, by : Codecs, len : 1 .. OUT]

InitialMessages == [kind : {"initial"}, file : 1 .. FILES, size : Nat \ {0}, len : {1}]
ChunkHeaders    == [kind : {"header"}, by : Codecs \union {"COPY"}, last : BOOLEAN, len : {1}]
ChunkMessages   == {m \in [kind : {"chunk"}, chunk : Chunks, len : 0 .. OUT] : m.len = m.chunk.len}

Messages == InitialMessages \union ChunkHeaders \union ChunkMessages

\* What goes over the connection: digits of prefixes, and the bytes of messages.
WireBytes == Nat \union [of : Messages, at : Nat]

-------------------------------------------------------------------------------
(* The connection                                                          *)

\* A message with its prefix.
Frame(m) == Prefix(m.len) \o Data(m)

\* The bytes are the frames of the messages, which start behind the positions
\* `starts'.
Framed(starts, messages, bytes) ==
  LET n == Len(messages)
  IN  /\ starts \in [1 .. n + 1 -> Nat]
      /\ starts[1] = 0 /\ starts[n + 1] = Len(bytes)
      /\ \A i \in 1 .. n : starts[i + 1] = starts[i] + 2 + messages[i].len
      /\ \A i, j \in 1 .. n + 1 : i <= j => starts[i] <= starts[j]
      /\ \A i \in 1 .. n : \A j \in 1 .. 2 + messages[i].len :
           bytes[starts[i] + j] = Frame(messages[i])[j]

\* What has been read of the message that arrives, and what has not been written
\* of the one that is sent.
Arrived == IF receiving = "size" THEN got ELSE Prefix(transit[1].len) \o got
Rest    == IF sending = "size" THEN unsent \o Data(message) ELSE unsent

ConnectionTyped ==
  /\ sending \in {"idle", "size", "data"}
  /\ receiving \in {"size", "data", "whole", "failed"}
  /\ unsent \in Seq(WireBytes) /\ kernel \in Seq(WireBytes) /\ got \in Seq(WireBytes)
  /\ transit \in Seq(Messages)
  /\ wanted \in Nat
  /\ Len(kernel) <= SNDBUF

SenderInv ==
  /\ sending = "idle" => unsent = <<>>
  /\ sending # "idle" => transit # <<>> /\ message = transit[Len(transit)]
  /\ sending = "size" => Len(unsent) \in 1 .. 2
  /\ sending = "data" => Len(unsent) <= message.len
                         /\ (unsent = <<>> => message.len = 0)

ReceiverInv ==
  /\ receiving = "size" => wanted > 0 /\ Len(got) + wanted = 2
  /\ receiving # "size" => transit # <<>> /\ Len(got) + wanted = transit[1].len
  /\ receiving = "data" => (wanted = 0 => transit[1].len = 0)
  /\ receiving = "whole" => wanted = 0 /\ Len(got) > 0
  /\ receiving = "failed" => wanted = 0 /\ transit[1].len = 0

\* Whatever was read and written in whatever parts, all that is on its way is the
\* messages on their way.
FramesInv == \E starts : Framed(starts, transit, Arrived \o kernel \o Rest)

ConnectionInv == ConnectionTyped /\ SenderInv /\ ReceiverInv /\ FramesInv

-------------------------------------------------------------------------------
(* The estimate                                                            *)

EstimateInv ==
  /\ bytesSent \in Nat /\ drained \in Nat /\ frames \in Nat
  /\ Len(kernel) + drained + Len(Rest) = bytesSent + 2 * frames

-------------------------------------------------------------------------------
(* The two sides                                                           *)

ServerTyped ==
  /\ request \in [mode : {"copy", "auto", "compress", "train", "round robin"},
                  compressor : Codecs \union {"COPY"}, level : Int]
  /\ stage \in {"configure", "file", "chunk", "refused", "done"}
  /\ turn \in 1 .. Len(RoundRobin)
  /\ file \in 0 .. FILES
  /\ size \in Sizes \union {0}
  /\ fileSize \in Nat /\ readBytes \in Nat /\ eof \in BOOLEAN
  /\ readBytes <= fileSize + CHUNK
  /\ outbox \in Seq(Messages) /\ Len(outbox) <= 2
  /\ bandwidth \in 0 .. 58
  /\ stage \in {"file", "chunk"} /\ request.compressor = "COPY"
       /\ request.mode \in {"compress", "train"} => request.level = -1

ClientTyped ==
  /\ expects \in {"initial", "header", "chunk"}
  /\ header \in [by : Codecs \union {"COPY"}, last : BOOLEAN]
  /\ decompressed \in [capacity : Nat, piece : Piece]
  /\ decompressed.piece.size <= decompressed.capacity
  /\ current \in [file : Nat, size : Nat]
  /\ bytesReceived \in Nat
  /\ written \in Seq(Piece)
  /\ closed \in BOOLEAN /\ corrupted \in BOOLEAN
  /\ source \in Seq(Messages)

\* What is on its way, and what waits to be sent, are the last of the messages
\* that were made.
PendingInv ==
  /\ Len(transit) + Len(outbox) <= Len(source)
  /\ \A i \in 1 .. Len(transit) : transit[i] = source[Handled + i]
  /\ \A i \in 1 .. Len(outbox) : outbox[i] = source[Handled + Len(transit) + i]

IsInitial(m) == m.kind = "initial"
IsHeader(m)  == m.kind = "header"
IsChunk(m)   == m.kind = "chunk"

\* The i-th message comes after those before it as the server makes them: a file's
\* initial message, and its chunks behind their headers until the last one.
Placed(s, i) ==
  /\ IsInitial(s[i]) => i = 1 \/ (i > 3 /\ IsChunk(s[i - 1]) /\ s[i - 2].last)
  /\ IsHeader(s[i]) =>
       i > 1 /\ (IsInitial(s[i - 1]) \/ (i > 3 /\ IsChunk(s[i - 1]) /\ ~s[i - 2].last))
  /\ IsChunk(s[i]) =>
       /\ i > 2 /\ IsHeader(s[i - 1])
       /\ s[i - 1].by = s[i].chunk.by
       /\ ~s[i - 1].last => s[i].chunk.piece.size = CHUNK
       /\ IsInitial(s[i - 2]) =>
            s[i].chunk.piece.from = 0 /\ s[i].chunk.piece.file = s[i - 2].file
       /\ IsChunk(s[i - 2]) =>
            /\ s[i].chunk.piece.from = s[i - 2].chunk.piece.from + s[i - 2].chunk.piece.size
            /\ s[i].chunk.piece.file = s[i - 2].chunk.piece.file

Shaped(s) == \A i \in 1 .. Len(s) : Placed(s, i)

\* The last message that was made tells what the server is about.
ServerInv ==
  LET n == Len(source)
  IN  /\ stage \in {"configure", "refused"} \/ file = 0 => n = 0
      /\ stage = "configure" => file = 0
      /\ stage = "chunk" => n > 0
      /\ n > 0 => ~IsHeader(source[n])
      /\ n > 0 /\ IsInitial(source[n]) =>
           /\ stage = "chunk" /\ HasNextChunk
           /\ readBytes = 0 /\ source[n].file = file
      /\ n > 0 /\ IsChunk(source[n]) =>
           /\ source[n - 1].last <=> ~HasNextChunk
           /\ stage # "chunk" => source[n - 1].last
           /\ source[n].chunk.piece.file = file
           /\ source[n].chunk.piece.from + source[n].chunk.piece.size = readBytes

End(k) == IF k = 0 THEN 0 ELSE Chunk(k).piece.from + Chunk(k).piece.size

\* The messages that the client has dealt with are those of its file, up to what it
\* expects.
ClientInv ==
  LET n == Len(written)
  IN  /\ expects = "header" => Handled = 2 * n + 1
      /\ expects = "chunk"  => Handled = 2 * n + 2
                               /\ header = [by |-> source[Handled].by, last |-> source[Handled].last]
      /\ expects = "initial" /\ closed  => Handled = 2 * n + 1 /\ n > 0 /\ source[2 * n].last
      /\ expects = "initial" /\ ~closed => Handled = 0 /\ n = 0
      /\ expects # "initial" => ~closed
      /\ Handled > 0 => IsInitial(source[1])
                        /\ current = [file |-> source[1].file, size |-> source[1].size]
      /\ \A k \in 1 .. n :
           /\ IsHeader(source[2 * k]) /\ IsChunk(source[2 * k + 1])
           /\ Chunk(k).piece.file = current.file
           /\ Chunk(k).piece.from = End(k - 1)
           /\ ~source[2 * k].last => written[k] = Chunk(k).piece
           /\ k < n \/ ~closed => ~source[2 * k].last

\* Until the file is closed, the buffer has a chunk's capacity and what was
\* written last, and all was written that was sent.
BufferInv ==
  ~closed /\ Handled > 0 =>
    /\ decompressed.capacity = CHUNK
    /\ decompressed.piece = IF written = <<>> THEN Nothing ELSE written[Len(written)]
    /\ bytesReceived = End(Len(written))

WrittenInv ==
  /\ \A k \in DOMAIN written : written[k] = Left(k)
  /\ closed /\ ~corrupted =>
       Whole(written) \/ (Len(written) > 1 /\ Refused(Chunk(Len(written))))

PathInv ==
  /\ ServerTyped /\ ClientTyped
  /\ PendingInv /\ Shaped(source) /\ ServerInv /\ ClientInv /\ BufferInv /\ WrittenInv
-------------------------------------------------------------------------------
(* Messages and their bytes                                                *)

LEMMA MessageKinds ==
  ASSUME NEW m \in Messages
  PROVE  /\ m.len \in 0 .. BASE * BASE - 1
         /\ m.kind \in {"initial", "header", "chunk"}
         /\ m.kind = "initial" => m \in InitialMessages
         /\ m.kind = "header" => m \in ChunkHeaders
         /\ m.kind = "chunk" => m \in ChunkMessages
<1> DEFINE square == BASE * BASE
<1>1. square \in Nat /\ 1 < square
  <2>1. BASE \in Int /\ BASE >= 2
    BY SocketAssumption
  <2>2. square \in Int
    BY <2>1
  <2>3. square >= 2 * BASE
    BY <2>1, Z3
  <2> HIDE DEF square
  <2> QED
    BY <2>1, <2>2, <2>3
<1>2. OUT \in CHUNK .. square - 1 /\ CHUNK \in Nat
  BY DataAssumption DEF square
<1> SUFFICES /\ m.len \in 0 .. square - 1
             /\ m.kind \in {"initial", "header", "chunk"}
             /\ m.kind = "initial" => m \in InitialMessages
             /\ m.kind = "header" => m \in ChunkHeaders
             /\ m.kind = "chunk" => m \in ChunkMessages
  BY DEF square
<1> HIDE DEF square
<1>3. m \in InitialMessages \/ m \in ChunkHeaders \/ m \in ChunkMessages
  BY DEF Messages
<1>4. CASE m \in InitialMessages
  <2>1. m.len = 1 /\ m.kind = "initial"
    BY <1>4 DEF InitialMessages
  <2> QED
    BY <1>1, <1>4, <2>1
<1>5. CASE m \in ChunkHeaders
  <2>1. m.len = 1 /\ m.kind = "header"
    BY <1>5 DEF ChunkHeaders
  <2> QED
    BY <1>1, <1>5, <2>1
<1>6. CASE m \in ChunkMessages
  <2>1. m.len \in 0 .. OUT /\ m.kind = "chunk"
    BY <1>6 DEF ChunkMessages
  <2> QED
    BY <1>1, <1>2, <1>6, <2>1
<1> QED
  BY <1>3, <1>4, <1>5, <1>6

\* The two digits of a prefix give back the length.
LEMMA PrefixLemma ==
  ASSUME NEW n \in 0 .. BASE * BASE - 1
  PROVE  /\ Prefix(n) \in Seq(WireBytes) /\ Len(Prefix(n)) = 2
         /\ Length(Prefix(n)) = n
<1>1. BASE \in Nat /\ BASE > 0 /\ n \in Nat
  BY SocketAssumption
<1>2. /\ n \div BASE \in Nat /\ (n % BASE) \in Nat
      /\ n = BASE * (n \div BASE) + (n % BASE)
  BY <1>1, Z3
<1>3. BASE * (n \div BASE) = (n \div BASE) * BASE
  BY <1>1, <1>2, Z3
<1>4. n \div BASE \in WireBytes /\ (n % BASE) \in WireBytes
  BY <1>2 DEF WireBytes
<1>5. Prefix(n) \in Seq(WireBytes) /\ Len(Prefix(n)) = 2
  BY <1>4 DEF Prefix
<1>6. Prefix(n)[1] = n \div BASE /\ Prefix(n)[2] = (n % BASE)
  BY DEF Prefix
<1> QED
  BY <1>2, <1>3, <1>5, <1>6 DEF Length

LEMMA DataLemma ==
  ASSUME NEW m \in Messages
  PROVE  /\ Data(m) \in Seq(WireBytes) /\ Len(Data(m)) = m.len
         /\ \A i \in 1 .. m.len : Data(m)[i] = [of |-> m, at |-> i]
<1>1. m.len \in Nat
  BY MessageKinds
<1>2. \A i \in 1 .. m.len : [of |-> m, at |-> i] \in WireBytes
  BY <1>1 DEF WireBytes
<1>3. Data(m) \in [1 .. m.len -> WireBytes]
  BY <1>2 DEF Data
<1>4. Data(m) \in Seq(WireBytes)
  BY <1>1, <1>3, SeqDef
<1>5. Len(Data(m)) = m.len
  BY <1>1, <1>3, <1>4, LenProperties
<1> QED
  BY <1>4, <1>5 DEF Data

LEMMA FrameLemma ==
  ASSUME NEW m \in Messages
  PROVE  /\ Frame(m) \in Seq(WireBytes) /\ Len(Frame(m)) = 2 + m.len
         /\ \A j \in 1 .. 2 : Frame(m)[j] = Prefix(m.len)[j]
         /\ \A j \in 1 .. m.len : Frame(m)[2 + j] = Data(m)[j]
<1>1. m.len \in Nat
  BY MessageKinds
<1>2. Prefix(m.len) \in Seq(WireBytes) /\ Len(Prefix(m.len)) = 2
  BY MessageKinds, PrefixLemma
<1>3. Data(m) \in Seq(WireBytes) /\ Len(Data(m)) = m.len
  BY DataLemma
<1> HIDE DEF Frame
<1> DEFINE p == Prefix(m.len)  d == Data(m)
<1>4. /\ p \o d \in Seq(WireBytes)
      /\ Len(p \o d) = Len(p) + Len(d)
      /\ \A i \in 1 .. Len(p) + Len(d) : (p \o d)[i] = IF i <= Len(p) THEN p[i] ELSE d[i - Len(p)]
  BY <1>2, <1>3, ConcatProperties
<1>5. Frame(m) = p \o d
  BY DEF Frame
<1> HIDE DEF p, d
<1>6. \A j \in 1 .. 2 : (p \o d)[j] = p[j]
  BY <1>1, <1>2, <1>3, <1>4 DEF p, d
<1>7. \A j \in 1 .. m.len : (p \o d)[2 + j] = d[j]
  BY <1>1, <1>2, <1>3, <1>4 DEF p, d
<1> QED
  BY <1>2, <1>3, <1>4, <1>5, <1>6, <1>7 DEF p, d

-------------------------------------------------------------------------------
(* Frames                                                                  *)

LEMMA NoFrames == Framed([i \in 1 .. 1 |-> 0], <<>>, <<>>)
<1>1. Len(<<>>) = 0
  BY EmptySeq
<1> DEFINE starts == [i \in 1 .. 1 |-> 0]
<1>2. starts \in [1 .. 0 + 1 -> Nat] /\ starts[1] = 0
  OBVIOUS
<1>3. \A i, j \in 1 .. 0 + 1 : i <= j => starts[i] <= starts[j]
  BY <1>2
<1> HIDE DEF starts
<1>4. 1 .. 0 = {} /\ 0 + 1 = 1
  OBVIOUS
<1>5. Framed(starts, <<>>, <<>>)
  BY <1>1, <1>2, <1>3, <1>4 DEF Framed
<1> QED
  BY <1>5 DEF starts

\* One more message adds its frame at the end.
LEMMA FrameAdded ==
  ASSUME NEW starts, NEW messages \in Seq(Messages), NEW bytes \in Seq(WireBytes),
         NEW m \in Messages, Framed(starts, messages, bytes)
  PROVE  \E t : Framed(t, Append(messages, m), bytes \o Frame(m))
<1> DEFINE n == Len(messages)
           more == Append(messages, m)
           longer == bytes \o Frame(m)
           t == [i \in 1 .. n + 2 |-> IF i = n + 2 THEN starts[n + 1] + 2 + m.len
                                      ELSE starts[i]]
<1>1. n \in Nat /\ m.len \in Nat /\ Len(bytes) \in Nat
  BY MessageKinds
<1>2. /\ more \in Seq(Messages) /\ Len(more) = n + 1
      /\ \A i \in 1 .. n : more[i] = messages[i]
      /\ more[n + 1] = m
  BY AppendProperties
<1>3. /\ Frame(m) \in Seq(WireBytes) /\ Len(Frame(m)) = 2 + m.len
  BY FrameLemma
<1>4. /\ Len(longer) = Len(bytes) + 2 + m.len
      /\ \A i \in 1 .. Len(bytes) : longer[i] = bytes[i]
      /\ \A j \in 1 .. 2 + m.len : longer[Len(bytes) + j] = Frame(m)[j]
  <2> DEFINE f == Frame(m)
  <2> HIDE DEF f
  <2>1. /\ Len(bytes \o f) = Len(bytes) + Len(f)
        /\ \A i \in 1 .. Len(bytes) + Len(f) :
             (bytes \o f)[i] = IF i <= Len(bytes) THEN bytes[i] ELSE f[i - Len(bytes)]
    BY <1>3, ConcatProperties DEF f
  <2>2. Len(f) = 2 + m.len
    BY <1>3 DEF f
  <2>3. \A j \in 1 .. 2 + m.len : (bytes \o f)[Len(bytes) + j] = f[j]
    BY <1>1, <2>1, <2>2
  <2> QED
    BY <1>1, <2>1, <2>2, <2>3 DEF f
<1>5. /\ starts \in [1 .. n + 1 -> Nat]
      /\ starts[1] = 0 /\ starts[n + 1] = Len(bytes)
      /\ \A i \in 1 .. n : starts[i + 1] = starts[i] + 2 + messages[i].len
      /\ \A i, j \in 1 .. n + 1 : i <= j => starts[i] <= starts[j]
      /\ \A i \in 1 .. n : \A j \in 1 .. 2 + messages[i].len :
           bytes[starts[i] + j] = Frame(messages[i])[j]
  BY DEF Framed
<1>6. \A i \in 1 .. n : messages[i] \in Messages /\ messages[i].len \in Nat
  <2> TAKE i \in 1 .. n
  <2>1. messages[i] \in Messages
    BY ElementOfSeq
  <2> QED
    BY <2>1, MessageKinds
<1> HIDE DEF n, more, longer
<1>7. t \in [1 .. n + 2 -> Nat] /\ t[n + 2] = starts[n + 1] + 2 + m.len
      /\ \A i \in 1 .. n + 1 : t[i] = starts[i]
  BY <1>1, <1>5
<1> HIDE DEF t
<1>8. t[1] = 0 /\ t[(n + 1) + 1] = Len(longer)
  <2>1. 1 \in 1 .. n + 1 /\ (n + 1) + 1 = n + 2
    BY <1>1
  <2>2. t[1] = 0
    BY <1>5, <1>7, <2>1
  <2>3. t[n + 2] = Len(longer)
    BY <1>1, <1>4, <1>5, <1>7
  <2> QED
    BY <2>1, <2>2, <2>3
<1>9. ASSUME NEW i \in 1 .. n + 1
      PROVE  t[i + 1] = t[i] + 2 + more[i].len
  <2>1. CASE i = n + 1
    <3>1. i + 1 = n + 2 /\ t[n + 2] = starts[n + 1] + 2 + more[n + 1].len
      BY <1>1, <1>2, <1>7, <2>1
    <3> QED
      BY <1>7, <2>1, <3>1
  <2>2. CASE i \in 1 .. n
    <3>1. i + 1 \in 1 .. n + 1 /\ i \in 1 .. n + 1
      BY <1>1, <2>2
    <3>2. t[i + 1] = starts[i + 1] /\ t[i] = starts[i] /\ more[i] = messages[i]
      BY <1>2, <1>7, <2>2, <3>1
    <3> QED
      BY <1>5, <2>2, <3>2
  <2> QED
    BY <1>1, <2>1, <2>2
<1>10. ASSUME NEW i \in 1 .. (n + 1) + 1, NEW j \in 1 .. (n + 1) + 1, i <= j
       PROVE  t[i] <= t[j]
  <2>1. CASE j \in 1 .. n + 1
    <3>1. i \in 1 .. n + 1
      BY <1>1, <1>10, <2>1
    <3> QED
      BY <1>5, <1>7, <1>10, <2>1, <3>1
  <2>2. CASE i \in 1 .. n + 1 /\ j = n + 2
    <3>1. n + 1 \in 1 .. n + 1 /\ i <= n + 1
      BY <1>1, <2>2
    <3>2. starts[i] <= starts[n + 1] /\ starts[i] \in Nat /\ starts[n + 1] \in Nat
      BY <1>5, <2>2, <3>1
    <3>3. t[i] = starts[i] /\ t[j] = starts[n + 1] + 2 + m.len
      BY <1>7, <2>2
    <3> QED
      BY <1>1, <3>2, <3>3
  <2>3. CASE i = n + 2 /\ j = n + 2
    BY <1>1, <1>7, <2>3
  <2> QED
    BY <1>1, <1>10, <2>1, <2>2, <2>3
<1>11. ASSUME NEW i \in 1 .. n + 1, NEW j \in 1 .. 2 + more[i].len
       PROVE  longer[t[i] + j] = Frame(more[i])[j]
  <2>1. CASE i = n + 1
    <3>1. more[i] = m /\ n + 1 \in 1 .. n + 1
      BY <1>1, <1>2, <2>1
    <3>2. t[i] = Len(bytes)
      BY <1>5, <1>7, <2>1, <3>1
    <3> QED
      BY <1>4, <1>11, <3>1, <3>2
  <2>2. CASE i \in 1 .. n
    <3>1. more[i] = messages[i] /\ t[i] = starts[i] /\ messages[i].len \in Nat
      <4>1. i \in 1 .. n + 1
        BY <1>1, <2>2
      <4> QED
        BY <1>2, <1>6, <1>7, <2>2, <4>1
    <3>2. starts[i] + j \in 1 .. starts[i + 1] /\ starts[i + 1] <= starts[n + 1]
      <4>1. /\ i \in 1 .. n + 1 /\ i + 1 \in 1 .. n + 1 /\ n + 1 \in 1 .. n + 1
            /\ i + 1 <= n + 1
        BY <1>1, <2>2
      <4>2. /\ starts[i + 1] <= starts[n + 1] /\ starts[i] \in Nat
            /\ starts[i + 1] = starts[i] + 2 + messages[i].len
        BY <1>5, <2>2, <4>1
      <4>3. j \in 1 .. 2 + messages[i].len
        BY <1>11, <3>1
      <4> QED
        BY <3>1, <4>2, <4>3
    <3>3. starts[i] + j \in 1 .. Len(bytes)
      <4>1. n + 1 \in 1 .. n + 1 /\ i + 1 \in 1 .. n + 1
        BY <1>1, <2>2
      <4>2. starts[i + 1] \in Nat /\ starts[n + 1] = Len(bytes)
        BY <1>5, <4>1
      <4> QED
        BY <1>1, <3>2, <4>2
    <3>4. longer[starts[i] + j] = bytes[starts[i] + j]
      BY <1>4, <3>3
    <3> QED
      BY <1>5, <1>11, <2>2, <3>1, <3>4
  <2> QED
    BY <1>1, <2>1, <2>2
<1>12. Framed(t, more, longer)
  BY <1>1, <1>2, <1>7, <1>8, <1>9, <1>10, <1>11 DEF Framed
<1> QED
  BY <1>12 DEF more, longer

\* The first message takes its frame with it.
LEMMA FrameTaken ==
  ASSUME NEW starts, NEW messages \in Seq(Messages), messages # <<>>,
         NEW front \in Seq(WireBytes), NEW rest \in Seq(WireBytes),
         Len(front) = 2 + messages[1].len,
         Framed(starts, messages, front \o rest)
  PROVE  \E t : Framed(t, Tail(messages), rest)
<1> DEFINE n == Len(messages)
           bytes == front \o rest
           others == Tail(messages)
           t == [i \in 1 .. n |-> starts[i + 1] - starts[2]]
<1>1. /\ n \in Nat \ {0}
      /\ others \in Seq(Messages) /\ Len(others) = n - 1
      /\ \A i \in 1 .. n - 1 : others[i] = messages[i + 1]
  BY EmptySeq, HeadTailProperties
<1>2. /\ Len(bytes) = Len(front) + Len(rest)
      /\ \A i \in 1 .. Len(front) + Len(rest) :
           bytes[i] = IF i <= Len(front) THEN front[i] ELSE rest[i - Len(front)]
  BY ConcatProperties
<1>3. Len(front) \in Nat /\ Len(rest) \in Nat
  OBVIOUS
<1>4. /\ starts \in [1 .. n + 1 -> Nat]
      /\ starts[1] = 0 /\ starts[n + 1] = Len(bytes)
      /\ \A i \in 1 .. n : starts[i + 1] = starts[i] + 2 + messages[i].len
      /\ \A i, j \in 1 .. n + 1 : i <= j => starts[i] <= starts[j]
      /\ \A i \in 1 .. n : \A j \in 1 .. 2 + messages[i].len :
           bytes[starts[i] + j] = Frame(messages[i])[j]
  BY DEF Framed
<1>5. \A i \in 1 .. n : messages[i].len \in Nat
  <2> TAKE i \in 1 .. n
  <2>1. messages[i] \in Messages
    BY ElementOfSeq
  <2> QED
    BY <2>1, MessageKinds
<1> DEFINE first == messages[1].len
<1>6. first \in Nat /\ Len(front) = 2 + first
  BY <1>1, <1>5
<1> HIDE DEF n, bytes, others, first
<1>7. starts[2] = Len(front)
  BY <1>1, <1>4, <1>6 DEF first
<1>8. t \in [1 .. n -> Nat] /\ \A i \in 1 .. n : t[i] = starts[i + 1] - Len(front)
  <2>1. \A i \in 1 .. n : starts[i + 1] \in Nat /\ starts[2] <= starts[i + 1]
    BY <1>1, <1>4
  <2> QED
    BY <1>3, <1>7, <2>1
<1> HIDE DEF t
<1>9. t[1] = 0 /\ t[n] = Len(rest)
  <2>1. 1 \in 1 .. n /\ n \in 1 .. n /\ 1 + 1 = 2
    BY <1>1
  <2>2. t[1] = starts[2] - Len(front) /\ t[n] = starts[n + 1] - Len(front)
    BY <1>8, <2>1
  <2>3. starts[n + 1] = Len(front) + Len(rest)
    BY <1>2, <1>4
  <2> QED
    BY <1>3, <1>7, <2>2, <2>3
<1>10. \A i \in 1 .. n - 1 : t[i + 1] = t[i] + 2 + others[i].len
  <2> TAKE i \in 1 .. n - 1
  <2>1. /\ i + 1 \in 1 .. n /\ t[i + 1] = starts[i + 1 + 1] - Len(front)
        /\ t[i] = starts[i + 1] - Len(front) /\ starts[i + 1] \in Nat
    <3>1. i + 1 \in 1 .. n /\ i \in 1 .. n /\ i + 1 \in 1 .. n + 1
      BY <1>1
    <3> QED
      BY <1>4, <1>8, <3>1
  <2>2. starts[i + 1 + 1] = starts[i + 1] + 2 + messages[i + 1].len
    BY <1>4, <2>1
  <2>3. others[i] = messages[i + 1] /\ messages[i + 1].len \in Nat
    BY <1>1, <1>5, <2>1
  <2> QED
    <3> DEFINE l == messages[i + 1].len
    <3>1. l \in Nat /\ others[i].len = l
      BY <2>3
    <3>2. starts[i + 1 + 1] = starts[i + 1] + 2 + l
      BY <2>2
    <3> HIDE DEF l
    <3>3. t[i + 1] = t[i] + 2 + l
      BY <1>3, <2>1, <3>1, <3>2
    <3> QED
      BY <3>1, <3>3
<1>11. \A i, j \in 1 .. n : i <= j => t[i] <= t[j]
  <2> TAKE i, j \in 1 .. n
  <2> HAVE i <= j
  <2>1. i + 1 \in 1 .. n + 1 /\ j + 1 \in 1 .. n + 1 /\ i + 1 <= j + 1
    BY <1>1
  <2>2. starts[i + 1] <= starts[j + 1] /\ starts[i + 1] \in Nat /\ starts[j + 1] \in Nat
    BY <1>4, <2>1
  <2> QED
    BY <1>3, <1>8, <2>2
<1>12. ASSUME NEW i \in 1 .. n - 1, NEW j \in 1 .. 2 + others[i].len
       PROVE  rest[t[i] + j] = Frame(others[i])[j]
  <2>1. /\ others[i] = messages[i + 1] /\ i + 1 \in 1 .. n /\ i \in 1 .. n
        /\ messages[i + 1].len \in Nat
        /\ i + 2 \in 1 .. n + 1 /\ n + 1 \in 1 .. n + 1 /\ i + 2 <= n + 1
    BY <1>1, <1>5
  <2>2. /\ starts[i + 2] = starts[i + 1] + 2 + messages[i + 1].len
        /\ starts[i + 1] \in Nat /\ starts[i + 2] \in Nat
        /\ starts[i + 2] <= starts[n + 1]
        /\ starts[2] <= starts[i + 1]
    <3>1. i + 1 + 1 = i + 2 /\ 2 <= i + 1 /\ 2 \in 1 .. n + 1 /\ i + 1 \in 1 .. n + 1
      BY <1>1
    <3> QED
      BY <1>4, <2>1, <3>1
  <2>3. j \in 1 .. 2 + messages[i + 1].len
    BY <1>12, <2>1
  <2>4. bytes[starts[i + 1] + j] = Frame(messages[i + 1])[j]
    BY <1>4, <2>1, <2>3
  <2>5. /\ starts[i + 1] + j \in 1 .. Len(front) + Len(rest)
        /\ ~(starts[i + 1] + j <= Len(front))
        /\ (starts[i + 1] + j) - Len(front) = t[i] + j
    <3> DEFINE l == messages[i + 1].len
    <3>1. l \in Nat /\ j \in 1 .. 2 + l /\ starts[i + 2] = starts[i + 1] + 2 + l
      BY <2>1, <2>2, <2>3
    <3>2. starts[i + 2] <= Len(front) + Len(rest)
      BY <1>2, <1>4, <2>2
    <3>3. t[i] = starts[i + 1] - Len(front)
      BY <1>8, <2>1
    <3> DEFINE s == starts[i + 1]
    <3>4. s \in Nat /\ Len(front) <= s /\ t[i] = s - Len(front)
      BY <1>7, <2>2, <3>3
    <3>5. s + 2 + l <= Len(front) + Len(rest)
      BY <3>1, <3>2
    <3> HIDE DEF l, s
    <3>6. /\ s + j \in 1 .. Len(front) + Len(rest)
          /\ ~(s + j <= Len(front))
          /\ (s + j) - Len(front) = t[i] + j
      BY <1>3, <3>1, <3>4, <3>5
    <3> QED
      BY <3>6 DEF s
  <2>6. bytes[starts[i + 1] + j] = rest[t[i] + j]
    <3>1. \A p \in 1 .. Len(front) + Len(rest) : \A q :
            ~(p <= Len(front)) /\ p - Len(front) = q => bytes[p] = rest[q]
      BY <1>2
    <3> QED
      BY <2>5, <3>1, Zenon
  <2> QED
    BY <2>1, <2>4, <2>6
<1>13. n - 1 + 1 = n
  BY <1>1
<1>14. Framed(t, others, rest)
  BY <1>1, <1>8, <1>9, <1>10, <1>11, <1>12, <1>13 DEF Framed
<1> QED
  BY <1>14 DEF others

\* The first message has the bytes' beginning.
LEMMA FirstFrame ==
  ASSUME NEW starts, NEW messages \in Seq(Messages), NEW bytes \in Seq(WireBytes),
         Framed(starts, messages, bytes)
  PROVE  /\ messages = <<>> => Len(bytes) = 0
         /\ messages # <<>> =>
              /\ 2 + messages[1].len <= Len(bytes)
              /\ Len(messages) = 1 => Len(bytes) = 2 + messages[1].len
              /\ \A j \in 1 .. 2 + messages[1].len : bytes[j] = Frame(messages[1])[j]
<1> DEFINE n == Len(messages)
<1>1. /\ starts \in [1 .. n + 1 -> Nat]
      /\ starts[1] = 0 /\ starts[n + 1] = Len(bytes)
      /\ \A i \in 1 .. n : starts[i + 1] = starts[i] + 2 + messages[i].len
      /\ \A i, j \in 1 .. n + 1 : i <= j => starts[i] <= starts[j]
      /\ \A i \in 1 .. n : \A j \in 1 .. 2 + messages[i].len :
           bytes[starts[i] + j] = Frame(messages[i])[j]
  BY DEF Framed
<1>2. n \in Nat /\ Len(bytes) \in Nat
  OBVIOUS
<1>3. messages = <<>> => n = 0
  BY EmptySeq
<1>4. messages # <<>> => n \in Nat \ {0} /\ messages[1].len \in Nat
  <2>1. messages # <<>> => n \in Nat \ {0}
    BY EmptySeq
  <2>2. n \in Nat \ {0} => messages[1] \in Messages
    BY ElementOfSeq
  <2> QED
    BY <2>1, <2>2, MessageKinds
<1> HIDE DEF n
<1>5. messages = <<>> => Len(bytes) = 0
  BY <1>1, <1>3
<1>6. ASSUME messages # <<>>
      PROVE  /\ 2 + messages[1].len <= Len(bytes)
             /\ n = 1 => Len(bytes) = 2 + messages[1].len
             /\ \A j \in 1 .. 2 + messages[1].len : bytes[j] = Frame(messages[1])[j]
  <2>1. 1 \in 1 .. n /\ 2 \in 1 .. n + 1 /\ n + 1 \in 1 .. n + 1 /\ 2 <= n + 1
    BY <1>4, <1>6
  <2>2. starts[1 + 1] = starts[1] + 2 + messages[1].len
    BY <1>1, <2>1
  <2>3. starts[2] = 2 + messages[1].len
    BY <1>1, <1>4, <1>6, <2>2
  <2>4. starts[2] <= starts[n + 1]
    BY <1>1, <2>1
  <2>5. 2 + messages[1].len <= Len(bytes) /\ (n = 1 => Len(bytes) = 2 + messages[1].len)
    BY <1>1, <2>3, <2>4
  <2>6. \A j \in 1 .. 2 + messages[1].len : bytes[0 + j] = Frame(messages[1])[j]
    BY <1>1, <2>1
  <2>7. \A j \in 1 .. 2 + messages[1].len : bytes[j] = Frame(messages[1])[j]
    <3> TAKE j \in 1 .. 2 + messages[1].len
    <3>1. 0 + j = j
      BY <1>4, <1>6
    <3> QED
      BY <2>6, <3>1
  <2> QED
    BY <2>5, <2>7
<1> QED
  BY <1>5, <1>6 DEF n

-------------------------------------------------------------------------------
(* The bytes on their way                                                  *)

LEMMA OnTheWay ==
  ASSUME ConnectionTyped, SenderInv, ReceiverInv
  PROVE  /\ sending # "idle" => message \in Messages
         /\ transit # <<>> => transit[1] \in Messages /\ Len(transit) \in Nat \ {0}
         /\ Arrived \in Seq(WireBytes)
         /\ Len(Arrived) = IF receiving = "size" THEN Len(got) ELSE 2 + transit[1].len - wanted
         /\ Rest \in Seq(WireBytes)
         /\ Len(Rest) = IF sending = "size" THEN Len(unsent) + message.len ELSE Len(unsent)
         /\ Arrived \o kernel \in Seq(WireBytes)
         /\ Arrived \o kernel \o Rest \in Seq(WireBytes)
         /\ Len(Arrived \o kernel \o Rest) = Len(Arrived) + Len(kernel) + Len(Rest)
<1>1. transit # <<>> => Len(transit) \in Nat \ {0}
  BY EmptySeq DEF ConnectionTyped
<1>2. transit # <<>> => transit[1] \in Messages /\ transit[Len(transit)] \in Messages
  <2>1. ASSUME transit # <<>>
        PROVE  1 \in 1 .. Len(transit) /\ Len(transit) \in 1 .. Len(transit)
    BY <1>1, <2>1
  <2> QED
    BY <2>1, ElementOfSeq DEF ConnectionTyped
<1>3. sending # "idle" => message \in Messages
  BY <1>2 DEF SenderInv
<1>4. Arrived \in Seq(WireBytes)
      /\ Len(Arrived) = IF receiving = "size" THEN Len(got) ELSE 2 + transit[1].len - wanted
  <2>1. CASE receiving = "size"
    BY <2>1 DEF Arrived, ConnectionTyped
  <2>2. CASE receiving # "size"
    <3>1. transit[1] \in Messages /\ Len(got) + wanted = transit[1].len
      BY <1>2, <2>2 DEF ReceiverInv
    <3>2. Prefix(transit[1].len) \in Seq(WireBytes) /\ Len(Prefix(transit[1].len)) = 2
      BY <3>1, MessageKinds, PrefixLemma
    <3>3. Arrived = Prefix(transit[1].len) \o got
      BY <2>2 DEF Arrived
    <3>4. Arrived \in Seq(WireBytes) /\ Len(Arrived) = 2 + Len(got)
      <4>1. got \in Seq(WireBytes)
        BY DEF ConnectionTyped
      <4> DEFINE p == Prefix(transit[1].len)
      <4>2. p \in Seq(WireBytes) /\ Len(p) = 2 /\ Arrived = p \o got
        BY <3>2, <3>3
      <4> HIDE DEF p
      <4>3. p \o got \in Seq(WireBytes) /\ Len(p \o got) = Len(p) + Len(got)
        BY <4>1, <4>2, ConcatProperties
      <4> QED
        BY <4>2, <4>3
    <3> DEFINE l == transit[1].len
    <3>5. Len(got) + wanted = l /\ Len(got) \in Nat /\ wanted \in Nat
      BY <3>1 DEF ConnectionTyped
    <3> HIDE DEF l
    <3>6. Len(Arrived) = 2 + l - wanted
      BY <3>4, <3>5
    <3> QED
      BY <2>2, <3>4, <3>6 DEF l
  <2> QED
    BY <2>1, <2>2
<1>5. Rest \in Seq(WireBytes)
      /\ Len(Rest) = IF sending = "size" THEN Len(unsent) + message.len ELSE Len(unsent)
  <2>1. CASE sending = "size"
    <3>1. Data(message) \in Seq(WireBytes) /\ Len(Data(message)) = message.len
      BY <1>3, <2>1, DataLemma
    <3>2. Rest = unsent \o Data(message)
      BY <2>1 DEF Rest
    <3>3. unsent \in Seq(WireBytes)
      BY DEF ConnectionTyped
    <3> DEFINE d == Data(message)
    <3>4. d \in Seq(WireBytes) /\ Len(d) = message.len /\ Rest = Cat(unsent, d)
      BY <3>1, <3>2 DEF Cat
    <3> HIDE DEF d
    <3>5. Cat(unsent, d) \in Seq(WireBytes) /\ Len(Cat(unsent, d)) = Len(unsent) + Len(d)
      BY <3>3, <3>4, ConcatProperties DEF Cat
    <3> QED
      BY <2>1, <3>4, <3>5
  <2>2. CASE sending # "size"
    BY <2>2 DEF Rest, ConnectionTyped
  <2> QED
    BY <2>1, <2>2
<1>6. Arrived \o kernel \in Seq(WireBytes) /\ Len(Arrived \o kernel) = Len(Arrived) + Len(kernel)
  BY <1>4, ConcatProperties DEF ConnectionTyped
<1>7. Arrived \o kernel \o Rest \in Seq(WireBytes)
      /\ Len(Arrived \o kernel \o Rest) = Len(Arrived \o kernel) + Len(Rest)
  BY <1>5, <1>6, ConcatProperties
<1> QED
  BY <1>1, <1>2, <1>3, <1>4, <1>5, <1>6, <1>7


\* What has been read is the beginning of the first message's frame.
LEMMA ArrivedFrame ==
  ASSUME ConnectionInv
  PROVE  /\ transit = <<>> => Len(Arrived) = 0 /\ Len(kernel) = 0 /\ Len(Rest) = 0
         /\ transit # <<>> =>
              /\ 2 + transit[1].len <= Len(Arrived) + Len(kernel) + Len(Rest)
              /\ Len(transit) = 1 =>
                   Len(Arrived) + Len(kernel) + Len(Rest) = 2 + transit[1].len
              /\ \A j \in 1 .. Len(Arrived) :
                   j <= 2 + transit[1].len => Arrived[j] = Frame(transit[1])[j]
<1> USE DEF ConnectionInv
<1>1. PICK starts : Framed(starts, transit, Arrived \o kernel \o Rest)
  BY DEF FramesInv
<1>2. /\ Arrived \in Seq(WireBytes) /\ Rest \in Seq(WireBytes)
      /\ Arrived \o kernel \in Seq(WireBytes)
      /\ Arrived \o kernel \o Rest \in Seq(WireBytes)
      /\ Len(Arrived \o kernel \o Rest) = Len(Arrived) + Len(kernel) + Len(Rest)
  BY OnTheWay
<1>3. transit \in Seq(Messages) /\ kernel \in Seq(WireBytes)
  BY DEF ConnectionTyped
<1> DEFINE stream == Arrived \o kernel \o Rest
<1>4. /\ transit = <<>> => Len(stream) = 0
      /\ transit # <<>> =>
           /\ 2 + transit[1].len <= Len(stream)
           /\ Len(transit) = 1 => Len(stream) = 2 + transit[1].len
           /\ \A j \in 1 .. 2 + transit[1].len : stream[j] = Frame(transit[1])[j]
  BY <1>1, <1>2, <1>3, FirstFrame
<1>5. \A j \in 1 .. Len(Arrived) : stream[j] = Arrived[j]
  <2>1. \A j \in 1 .. Len(Arrived) : (Arrived \o kernel)[j] = Arrived[j]
    BY <1>2, <1>3, ConcatProperties
  <2>2. \A j \in 1 .. Len(Arrived \o kernel) : stream[j] = (Arrived \o kernel)[j]
    <3> DEFINE both == Arrived \o kernel
    <3>1. both \in Seq(WireBytes) /\ Len(both) \in Nat
      BY <1>2
    <3> HIDE DEF both
    <3>2. \A j \in 1 .. Len(both) : (both \o Rest)[j] = both[j]
      BY <1>2, <3>1, ConcatProperties
    <3> QED
      BY <3>2 DEF both
  <2>3. Len(Arrived \o kernel) = Len(Arrived) + Len(kernel)
    BY <1>2, <1>3, ConcatProperties
  <2>4. Len(Arrived) \in Nat /\ Len(kernel) \in Nat
    BY <1>2, <1>3
  <2> HIDE DEF stream
  <2> QED
    BY <2>1, <2>2, <2>3, <2>4
<1>6. Len(stream) = Len(Arrived) + Len(kernel) + Len(Rest)
  BY <1>2
<1>7. Len(Arrived) \in Nat /\ Len(kernel) \in Nat /\ Len(Rest) \in Nat
  BY <1>2, <1>3
<1> HIDE DEF stream
<1> QED
  BY <1>4, <1>5, <1>6, <1>7

\* A message that has been received whole is the first one on its way.
LEMMA WholeMessage ==
  ASSUME ConnectionInv, receiving = "whole"
  PROVE  transit # <<>> /\ transit[1] \in Messages /\ got = Data(transit[1])
         /\ transit[1].len > 0
<1> USE DEF ConnectionInv
<1> DEFINE m == transit[1]
<1>1. transit # <<>> /\ Len(got) + wanted = m.len /\ wanted = 0 /\ Len(got) > 0
  BY DEF ReceiverInv
<1>2. m \in Messages
  BY <1>1, OnTheWay
<1>3. /\ Data(m) \in Seq(WireBytes) /\ Len(Data(m)) = m.len /\ m.len \in Nat
      /\ Prefix(m.len) \in Seq(WireBytes) /\ Len(Prefix(m.len)) = 2
  BY <1>2, DataLemma, MessageKinds, PrefixLemma
<1>4. Len(got) = m.len /\ got \in Seq(WireBytes)
  BY <1>1, <1>3 DEF ConnectionTyped
<1>5. Arrived = Prefix(m.len) \o got
  BY DEF Arrived
<1>6. \A i \in 1 .. m.len : Arrived[2 + i] = got[i] /\ 2 + i \in 1 .. Len(Arrived)
  <2> DEFINE p == Prefix(m.len)
             l == m.len
  <2>1. p \in Seq(WireBytes) /\ Len(p) = 2 /\ l \in Nat /\ Len(got) = l
    BY <1>3, <1>4
  <2> HIDE DEF p, l
  <2>2. /\ Len(p \o got) = Len(p) + Len(got)
        /\ \A i \in 1 .. Len(p) + Len(got) :
             (p \o got)[i] = IF i <= Len(p) THEN p[i] ELSE got[i - Len(p)]
    BY <1>4, <2>1, ConcatProperties
  <2>3. \A i \in 1 .. l : (p \o got)[2 + i] = got[i] /\ 2 + i \in 1 .. Len(p \o got)
    BY <2>1, <2>2
  <2> QED
    BY <1>5, <2>3 DEF p, l
<1>7. \A i \in 1 .. m.len : Arrived[2 + i] = Data(m)[i]
  <2> TAKE i \in 1 .. m.len
  <2>1. 2 + i \in 1 .. Len(Arrived) /\ 2 + i <= 2 + m.len
    BY <1>3, <1>6
  <2>2. Arrived[2 + i] = Frame(m)[2 + i]
    BY <1>1, <2>1, ArrivedFrame
  <2> QED
    BY <1>2, <2>2, FrameLemma
<1>8. \A i \in 1 .. Len(got) : got[i] = Data(m)[i]
  BY <1>4, <1>6, <1>7
<1>9. got = Data(m)
  BY <1>3, <1>4, <1>8, SeqEqual
<1> QED
  BY <1>1, <1>2, <1>3, <1>4, <1>9

LEMMA ConnectionInit ==
  ASSUME SocketInit
  PROVE  ConnectionInv
<1>1. <<>> \in Seq(WireBytes) /\ <<>> \in Seq(Messages) /\ Len(<<>>) = 0
  BY EmptySeq
<1>2. ConnectionTyped /\ SenderInv /\ ReceiverInv
  BY <1>1, SocketAssumption DEF SocketInit, ConnectionTyped, SenderInv, ReceiverInv
<1>3. Arrived \o kernel \o Rest = <<>> /\ transit = <<>>
  <2>1. <<>> \o <<>> = <<>>
    BY <1>1, ConcatEmptySeq
  <2>2. Arrived = <<>> /\ kernel = <<>> /\ Rest = <<>> /\ transit = <<>>
    BY DEF SocketInit, Arrived, Rest
  <2> QED
    BY <2>1, <2>2
<1>4. FramesInv
  BY <1>3, NoFrames DEF FramesInv
<1> QED
  BY <1>2, <1>4 DEF ConnectionInv

LEMMA ConnectionStartSend ==
  ASSUME ConnectionInv, NEW m \in Messages, StartSend(m)
  PROVE  ConnectionInv' /\ Len(Rest') = 2 + m.len /\ Len(Rest) = 0 /\ kernel' = kernel
<1>1. /\ sending = "idle" /\ sending' = "size" /\ message' = m
      /\ unsent' = Prefix(m.len) /\ transit' = Append(transit, m)
      /\ kernel' = kernel /\ receiving' = receiving /\ wanted' = wanted /\ got' = got
  BY DEF StartSend, receiveVars
<1>2. /\ m.len \in Nat /\ Prefix(m.len) \in Seq(WireBytes) /\ Len(Prefix(m.len)) = 2
  BY MessageKinds, PrefixLemma
<1>3. transit \in Seq(Messages) /\ kernel \in Seq(WireBytes) /\ unsent = <<>>
  BY <1>1 DEF ConnectionInv, ConnectionTyped, SenderInv
<1>4. /\ transit' \in Seq(Messages) /\ Len(transit') = Len(transit) + 1 /\ transit' # <<>>
      /\ transit'[Len(transit')] = m
      /\ \A i \in 1 .. Len(transit) : transit'[i] = transit[i]
      /\ transit # <<>> => transit'[1] = transit[1]
  <2>1. transit # <<>> => 1 \in 1 .. Len(transit)
    BY <1>3, EmptySeq
  <2>2. /\ transit' \in Seq(Messages) /\ Len(transit') = Len(transit) + 1
        /\ transit'[Len(transit) + 1] = m
        /\ \A i \in 1 .. Len(transit) : transit'[i] = transit[i]
    BY <1>1, <1>3, AppendProperties
  <2>3. transit' # <<>>
    BY <1>3, <2>2, EmptySeq
  <2> QED
    BY <2>1, <2>2, <2>3
<1>5. ConnectionTyped'
  BY <1>1, <1>2, <1>4 DEF ConnectionInv, ConnectionTyped
<1>6. SenderInv'
  BY <1>1, <1>2, <1>4 DEF SenderInv
<1>7. ReceiverInv'
  BY <1>1, <1>4 DEF ConnectionInv, ReceiverInv
<1>8. Arrived' = Arrived /\ Rest = <<>> /\ Rest' = Frame(m)
  <2>1. Arrived' = Arrived
    BY <1>1, <1>4 DEF ConnectionInv, ReceiverInv, Arrived
  <2>2. Rest = <<>> /\ Rest' = Frame(m)
    BY <1>1, <1>3 DEF Rest, Frame
  <2> QED
    BY <2>1, <2>2
<1>9. FramesInv'
  <2>1. Arrived \o kernel \in Seq(WireBytes)
    BY OnTheWay DEF ConnectionInv
  <2>2. (Arrived \o kernel) \o <<>> = Arrived \o kernel
    BY <2>1, ConcatEmptySeq
  <2>3. PICK starts : Framed(starts, transit, Arrived \o kernel)
    BY <1>8, <2>2 DEF ConnectionInv, FramesInv
  <2>4. \E t : Framed(t, Append(transit, m), Arrived \o kernel \o Frame(m))
    BY <1>3, <2>1, <2>3, FrameAdded
  <2> QED
    BY <1>1, <1>8, <2>4 DEF FramesInv
<1>10. Len(Rest') = 2 + m.len /\ Len(Rest) = 0
  BY <1>8, FrameLemma, EmptySeq
<1> QED
  BY <1>1, <1>5, <1>6, <1>7, <1>9, <1>10 DEF ConnectionInv

LEMMA ConnectionWriteSome ==
  ASSUME ConnectionInv, WriteSome
  PROVE  ConnectionInv' /\ Len(kernel') + Len(Rest') = Len(kernel) + Len(Rest)
<1>1. PICK n \in 0 .. SNDBUF - Len(kernel) :
        /\ n <= Len(unsent)
        /\ n = 0 <=> unsent = <<>>
        /\ kernel' = kernel \o SubSeq(unsent, 1, n)
        /\ IF n < Len(unsent)
           THEN /\ unsent' = SubSeq(unsent, n + 1, Len(unsent))
                /\ UNCHANGED sending
           ELSE IF sending = "size"
           THEN sending' = "data" /\ unsent' = Data(message)
           ELSE sending' = "idle" /\ unsent' = <<>>
  BY DEF WriteSome
<1>2. /\ sending # "idle" /\ message' = message /\ transit' = transit
      /\ receiving' = receiving /\ wanted' = wanted /\ got' = got
  BY DEF WriteSome, receiveVars
<1>3. ConnectionTyped /\ SenderInv /\ ReceiverInv
  BY DEF ConnectionInv
<1>4. /\ sending \in {"size", "data"} /\ unsent \in Seq(WireBytes) /\ kernel \in Seq(WireBytes)
      /\ Len(kernel) \in Nat /\ Len(unsent) \in Nat /\ n \in 0 .. Len(unsent)
      /\ Len(kernel) <= SNDBUF /\ SNDBUF \in Nat
  <2>1. /\ sending \in {"size", "data"} /\ unsent \in Seq(WireBytes) /\ kernel \in Seq(WireBytes)
        /\ Len(kernel) <= SNDBUF /\ SNDBUF \in Nat
    BY <1>2, <1>3, SocketAssumption DEF ConnectionTyped
  <2>2. Len(kernel) \in Nat /\ Len(unsent) \in Nat
    BY <2>1
  <2>3. n \in 0 .. Len(unsent)
    BY <1>1, <2>2
  <2> QED
    BY <2>1, <2>2, <2>3
<1>5. /\ message \in Messages /\ Data(message) \in Seq(WireBytes)
      /\ Len(Data(message)) = message.len /\ message.len \in Nat
  BY <1>2, <1>3, OnTheWay, DataLemma, MessageKinds
<1>6. Arrived \in Seq(WireBytes) /\ Arrived' = Arrived
  BY <1>2, <1>3, OnTheWay DEF Arrived
<1> DEFINE x == SubSeq(unsent, 1, n)
           y == SubSeq(unsent, n + 1, Len(unsent))
           d == Data(message)
<1>7. /\ x \in Seq(WireBytes) /\ Len(x) = n
      /\ y \in Seq(WireBytes) /\ Len(y) = Len(unsent) - n
      /\ n = Len(unsent) => x = unsent
      /\ kernel \o x \in Seq(WireBytes)
      /\ Len(kernel \o x) = Len(kernel) + n
      /\ (Arrived \o (kernel \o x)) \o y = (Arrived \o kernel) \o unsent
      /\ (Arrived \o (kernel \o x)) \o (y \o d) = (Arrived \o kernel) \o (unsent \o d)
  <2>1. /\ FirstOf(unsent, n) \in Seq(WireBytes) /\ Len(FirstOf(unsent, n)) = n
        /\ RestOf(unsent, n) \in Seq(WireBytes) /\ Len(RestOf(unsent, n)) = Len(unsent) - n
        /\ n = Len(unsent) => FirstOf(unsent, n) = unsent
        /\ Cat(kernel, FirstOf(unsent, n)) \in Seq(WireBytes)
        /\ Len(Cat(kernel, FirstOf(unsent, n))) = Len(kernel) + n
        /\ Cat(Cat(Arrived, Cat(kernel, FirstOf(unsent, n))), RestOf(unsent, n))
             = Cat(Cat(Arrived, kernel), unsent)
        /\ Cat(Cat(Arrived, Cat(kernel, FirstOf(unsent, n))), Cat(RestOf(unsent, n), d))
             = Cat(Cat(Arrived, kernel), Cat(unsent, d))
    BY <1>4, <1>5, <1>6, MovedBytes
  <2> QED
    BY <2>1 DEF Cat, FirstOf, RestOf
<1>8. Len(kernel') = Len(kernel) + n /\ kernel' \in Seq(WireBytes) /\ Len(kernel') <= SNDBUF
  BY <1>1, <1>4, <1>7
<1>9. CASE n < Len(unsent)
  <2>1. unsent' = y /\ sending' = sending
    BY <1>1, <1>9
  <2>2. ConnectionTyped'
    BY <1>2, <1>3, <1>7, <1>8, <2>1 DEF ConnectionTyped
  <2>3. SenderInv'
    <3>1. Len(unsent') = Len(unsent) - n /\ n > 0 /\ Len(unsent') > 0 /\ unsent' # <<>>
      <4>1. unsent # <<>>
        BY <1>4, <1>9, EmptySeq
      <4>2. n # 0
        BY <1>1, <4>1
      <4>3. Len(unsent') = Len(unsent) - n
        BY <1>7, <2>1
      <4> HIDE DEF x, y, d
      <4>4. Len(unsent') > 0 /\ n > 0
        BY <1>4, <1>9, <4>2, <4>3
      <4> QED
        BY <4>3, <4>4, EmptySeq
    <3> QED
      BY <1>2, <1>3, <1>4, <1>5, <2>1, <3>1 DEF SenderInv
  <2>4. ReceiverInv'
    BY <1>2, <1>3 DEF ReceiverInv
  <2>5. /\ Arrived' \o kernel' \o Rest' = Arrived \o kernel \o Rest
        /\ Len(Rest') = Len(Rest) - n
    <3>1. CASE sending = "size"
      <4>1. Rest' = y \o d /\ Rest = unsent \o d
        BY <1>2, <2>1, <3>1 DEF Rest
      <4>2. Len(y \o d) = Len(y) + Len(d) /\ Len(unsent \o d) = Len(unsent) + Len(d)
        BY <1>4, <1>5, <1>7, ConcatProperties
      <4>3. kernel' = kernel \o x
        BY <1>1
      <4> HIDE DEF x, y, d
      <4>4. Len(d) \in Nat
        BY <1>5 DEF d
      <4>5. Len(y \o d) = Len(unsent \o d) - n
        BY <1>4, <1>7, <4>2, <4>4
      <4> QED
        BY <1>6, <1>7, <4>1, <4>3, <4>5
    <3>2. CASE sending = "data"
      <4>1. Rest' = y /\ Rest = unsent
        BY <1>2, <2>1, <3>2 DEF Rest
      <4> QED
        BY <1>1, <1>6, <1>7, <4>1
    <3> QED
      BY <1>4, <3>1, <3>2
  <2>6. FramesInv'
    BY <1>2, <1>3, <2>5 DEF ConnectionInv, FramesInv
  <2>7. Len(Rest) \in Nat
    BY <1>3, OnTheWay
  <2> QED
    BY <1>4, <1>8, <2>2, <2>3, <2>4, <2>5, <2>6, <2>7 DEF ConnectionInv
<1>10. CASE ~(n < Len(unsent)) /\ sending = "size"
  <2>1. unsent' = d /\ sending' = "data" /\ n = Len(unsent)
    BY <1>1, <1>4, <1>10
  <2>2. ConnectionTyped'
    BY <1>2, <1>3, <1>5, <1>8, <2>1 DEF ConnectionTyped
  <2>3. SenderInv'
    <3>1. d = <<>> => message.len = 0
      BY <1>5, EmptySeq
    <3> QED
      BY <1>2, <1>3, <1>5, <2>1, <3>1 DEF SenderInv
  <2>4. ReceiverInv'
    BY <1>2, <1>3 DEF ReceiverInv
  <2>5. Rest' = d /\ Rest = unsent \o d /\ kernel' = kernel \o unsent
    BY <1>1, <1>2, <1>7, <1>10, <2>1 DEF Rest
  <2>6. (Arrived \o (kernel \o unsent)) \o d = (Arrived \o kernel) \o (unsent \o d)
    <3>1. \A r, s, t \in Seq(WireBytes) : (r \o s) \o t = r \o (s \o t)
      BY Associative
    <3>2. Arrived \o kernel \in Seq(WireBytes)
      BY <1>3, OnTheWay
    <3> DEFINE b == Arrived \o kernel
    <3>3. Arrived \o (kernel \o unsent) = b \o unsent
      BY <1>4, <1>6, <3>1
    <3>4. b \in Seq(WireBytes) /\ d \in Seq(WireBytes)
      BY <1>5, <3>2
    <3> HIDE DEF b, d
    <3>5. (b \o unsent) \o d = b \o (unsent \o d)
      BY <1>4, <3>1, <3>4
    <3> QED
      BY <3>3, <3>5 DEF b
  <2>7. Arrived' \o kernel' \o Rest' = Arrived \o kernel \o Rest
    BY <1>6, <2>5, <2>6
  <2>8. FramesInv'
    BY <1>2, <1>3, <2>7 DEF ConnectionInv, FramesInv
  <2>9. Len(Rest) = Len(unsent) + message.len
    BY <1>3, <1>10, OnTheWay
  <2>10. Len(Rest') = message.len
    BY <1>5, <2>5
  <2> QED
    <3>1. Len(kernel') + Len(Rest') = Len(kernel) + Len(Rest)
      <4> DEFINE l == message.len
      <4>1. /\ l \in Nat /\ Len(Rest') = l /\ Len(Rest) = Len(unsent) + l
            /\ Len(kernel') = Len(kernel) + n /\ n = Len(unsent)
        BY <1>5, <1>8, <2>1, <2>9, <2>10
      <4> HIDE DEF l
      <4> QED
        BY <1>4, <4>1
    <3> QED
      BY <2>2, <2>3, <2>4, <2>8, <3>1 DEF ConnectionInv
<1>11. CASE ~(n < Len(unsent)) /\ sending = "data"
  <2>1. unsent' = <<>> /\ sending' = "idle" /\ n = Len(unsent)
    BY <1>1, <1>4, <1>11
  <2>2. ConnectionTyped'
    BY <1>2, <1>3, <1>8, <2>1, EmptySeq DEF ConnectionTyped
  <2>3. SenderInv'
    BY <2>1 DEF SenderInv
  <2>4. ReceiverInv'
    BY <1>2, <1>3 DEF ReceiverInv
  <2>5. Rest' = <<>> /\ Rest = unsent /\ kernel' = kernel \o unsent
    BY <1>1, <1>7, <1>11, <2>1 DEF Rest
  <2>6. (Arrived \o (kernel \o unsent)) \o <<>> = (Arrived \o kernel) \o unsent
    <3>1. \A r, s, t \in Seq(WireBytes) : (r \o s) \o t = r \o (s \o t)
      BY Associative
    <3>2. Arrived \o (kernel \o unsent) = (Arrived \o kernel) \o unsent
      BY <1>4, <1>6, <3>1
    <3>3. Arrived \o (kernel \o unsent) \in Seq(WireBytes)
      BY <1>4, <1>6, Associative
    <3>4. (Arrived \o (kernel \o unsent)) \o <<>> = Arrived \o (kernel \o unsent)
      BY <3>3, ConcatEmptySeq
    <3> QED
      BY <3>2, <3>4
  <2>7. Arrived' \o kernel' \o Rest' = Arrived \o kernel \o Rest
    BY <1>6, <2>5, <2>6
  <2>8. FramesInv'
    BY <1>2, <1>3, <2>7 DEF ConnectionInv, FramesInv
  <2>9. Len(Rest') = 0 /\ Len(Rest) = Len(unsent)
    BY <2>5, EmptySeq
  <2> QED
    BY <1>4, <1>8, <2>1, <2>2, <2>3, <2>4, <2>8, <2>9 DEF ConnectionInv
<1> QED
  BY <1>4, <1>9, <1>10, <1>11

LEMMA ConnectionReadSome ==
  ASSUME ConnectionInv, ReadSome
  PROVE  ConnectionInv' /\ Rest' = Rest /\ Len(kernel') <= Len(kernel)
<1>1. /\ receiving \in {"size", "data"} /\ sending' = sending /\ unsent' = unsent
      /\ message' = message /\ transit' = transit
  BY DEF ReadSome, sendVars
<1>2. ConnectionTyped /\ SenderInv /\ ReceiverInv
  BY DEF ConnectionInv
<1>3. Rest' = Rest /\ SenderInv'
  BY <1>1, <1>2 DEF Rest, SenderInv
<1>4. /\ got \in Seq(WireBytes) /\ kernel \in Seq(WireBytes) /\ wanted \in Nat
      /\ Len(got) \in Nat /\ Len(kernel) \in Nat
      /\ Rest \in Seq(WireBytes) /\ Arrived \in Seq(WireBytes)
  <2>1. got \in Seq(WireBytes) /\ kernel \in Seq(WireBytes) /\ wanted \in Nat
    BY <1>2 DEF ConnectionTyped
  <2> QED
    BY <1>2, <2>1, OnTheWay
<1>5. CASE wanted = 0 /\ receiving' = "failed" /\ UNCHANGED <<kernel, wanted, got>>
  <2>1. receiving = "data" /\ transit[1].len = 0
    BY <1>1, <1>2, <1>5 DEF ReceiverInv
  <2>2. ConnectionTyped' /\ ReceiverInv'
    BY <1>1, <1>2, <1>5, <2>1 DEF ConnectionTyped, ReceiverInv
  <2>3. Arrived' \o kernel' \o Rest' = Arrived \o kernel \o Rest
    BY <1>1, <1>3, <1>5, <2>1 DEF Arrived
  <2>4. FramesInv'
    BY <1>1, <2>3 DEF ConnectionInv, FramesInv
  <2> QED
    BY <1>3, <1>4, <1>5, <2>2, <2>4 DEF ConnectionInv
<1>6. ASSUME NEW n \in 1 .. Len(kernel), n <= wanted,
             kernel' = SubSeq(kernel, n + 1, Len(kernel)),
             IF n < wanted
             THEN wanted' = wanted - n /\ got' = got \o SubSeq(kernel, 1, n) /\ UNCHANGED receiving
             ELSE IF receiving = "size"
             THEN receiving' = "data" /\ wanted' = Length(got \o SubSeq(kernel, 1, n)) /\ got' = <<>>
             ELSE receiving' = "whole" /\ wanted' = 0 /\ got' = got \o SubSeq(kernel, 1, n)
      PROVE  ConnectionInv' /\ Len(kernel') <= Len(kernel)
  <2> DEFINE x == FirstOf(kernel, n)
             y == RestOf(kernel, n)
             read == Cat(got, x)
  <2>1. n \in 0 .. Len(kernel) /\ n \in Nat /\ n > 0
    BY <1>4, <1>6
  <2>2. /\ x \in Seq(WireBytes) /\ Len(x) = n
        /\ y \in Seq(WireBytes) /\ Len(y) = Len(kernel) - n
        /\ read \in Seq(WireBytes) /\ Len(read) = Len(got) + n
        /\ Cat(read, y) = Cat(got, kernel)
        /\ \A p \in Seq(WireBytes) : Cat(Cat(p, read), y) = Cat(Cat(p, got), kernel)
    <3>1. /\ x \in Seq(WireBytes) /\ Len(x) = n
          /\ y \in Seq(WireBytes) /\ Len(y) = Len(kernel) - n
          /\ read \in Seq(WireBytes) /\ Len(read) = Len(got) + n
          /\ Cat(read, y) = Cat(got, kernel)
      BY <1>4, <2>1, MovedBytes
    <3>2. ASSUME NEW p \in Seq(WireBytes)
          PROVE  Cat(Cat(p, read), y) = Cat(Cat(p, got), kernel)
      BY <1>4, <2>1, MovedBytes
    <3> QED
      BY <3>1, <3>2
  <2>3. /\ kernel' = y
        /\ n < wanted => wanted' = wanted - n /\ got' = read /\ receiving' = receiving
        /\ ~(n < wanted) => /\ receiving = "size" =>
                                 receiving' = "data" /\ wanted' = Length(read) /\ got' = <<>>
                            /\ receiving # "size" =>
                                 receiving' = "whole" /\ wanted' = 0 /\ got' = read
    BY <1>6 DEF FirstOf, RestOf, Cat
  <2> HIDE DEF x, y, read
  <2>4. /\ kernel' \in Seq(WireBytes) /\ Len(kernel') <= Len(kernel) /\ Len(kernel') <= SNDBUF
    <3>1. Len(kernel') = Len(kernel) - n /\ Len(kernel) <= SNDBUF /\ SNDBUF \in Nat
      BY <1>2, <2>2, <2>3, SocketAssumption DEF ConnectionTyped
    <3> QED
      BY <1>4, <2>1, <2>2, <2>3, <3>1
  <2>5. transit # <<>> /\ transit[1] \in Messages /\ transit[1].len \in Nat
    <3>1. Len(kernel) # 0
      BY <1>4, <1>6
    <3>2. transit # <<>>
      BY <3>1, ArrivedFrame
    <3> QED
      BY <1>2, <3>2, OnTheWay, MessageKinds
  <2>6. CASE n < wanted
    <3>1. wanted' = wanted - n /\ got' = read /\ receiving' = receiving
      BY <2>3, <2>6
    <3>2. wanted' \in Nat /\ wanted' > 0 /\ Len(got') + wanted' = Len(got) + wanted
      <4>1. Len(got') = Len(got) + n /\ wanted' = wanted - n
        BY <2>2, <3>1
      <4> QED
        BY <1>4, <2>1, <2>6, <4>1
    <3>3. ConnectionTyped'
      BY <1>1, <1>2, <2>2, <2>4, <3>1, <3>2 DEF ConnectionTyped
    <3>4. ReceiverInv'
      BY <1>1, <1>2, <3>1, <3>2 DEF ReceiverInv
    <3>5. Arrived' \o kernel' = Arrived \o kernel
      <4>1. CASE receiving = "size"
        BY <2>2, <2>3, <3>1, <4>1 DEF Arrived, Cat
      <4>2. CASE receiving = "data"
        <5> DEFINE p == Prefix(transit[1].len)
        <5>1. p \in Seq(WireBytes)
          BY <2>5, MessageKinds, PrefixLemma
        <5>2. Arrived = Cat(p, got) /\ Arrived' = Cat(p, read)
          BY <1>1, <3>1, <4>2 DEF Arrived, Cat
        <5> HIDE DEF p
        <5>3. Cat(Cat(p, read), y) = Cat(Cat(p, got), kernel)
          BY <2>2, <5>1
        <5>4. Cat(Arrived', kernel') = Cat(Arrived, kernel)
          BY <2>3, <5>2, <5>3
        <5> QED
          BY <5>4 DEF Cat
      <4> QED
        BY <1>1, <4>1, <4>2
    <3>6. FramesInv'
      BY <1>1, <1>3, <3>5 DEF ConnectionInv, FramesInv
    <3> QED
      BY <1>3, <2>4, <3>3, <3>4, <3>6 DEF ConnectionInv
  <2>7. CASE ~(n < wanted) /\ receiving = "size"
    <3>1. receiving' = "data" /\ wanted' = Length(read) /\ got' = <<>>
      BY <2>3, <2>7
    <3>2. Len(read) = 2 /\ Len(got) + wanted = 2 /\ n = wanted
      <4>1. n = wanted
        BY <1>4, <1>6, <2>1, <2>7
      <4>2. Len(got) + wanted = 2
        BY <1>2, <2>7 DEF ReceiverInv
      <4> QED
        BY <2>2, <4>1, <4>2
    <3> DEFINE p == Prefix(transit[1].len)
               stream == Arrived \o kernel \o Rest
    <3>3. /\ p \in Seq(WireBytes) /\ Len(p) = 2 /\ Length(p) = transit[1].len
      BY <2>5, MessageKinds, PrefixLemma
    <3>4. read = p
      <4>1. Arrived = got /\ Arrived \o kernel = Cat(read, y)
        BY <2>2, <2>7 DEF Arrived, Cat
      <4>2. PICK starts : Framed(starts, transit, stream)
        BY DEF ConnectionInv, FramesInv
      <4>3. transit \in Seq(Messages) /\ stream \in Seq(WireBytes)
        BY <1>2, OnTheWay DEF ConnectionTyped
      <4>4. \A j \in 1 .. 2 + transit[1].len : stream[j] = Frame(transit[1])[j]
        BY <2>5, <4>2, <4>3, FirstFrame
      <4>5. \A j \in 1 .. 2 : stream[j] = p[j]
        <5>1. \A j \in 1 .. 2 : j \in 1 .. 2 + transit[1].len
          BY <2>5
        <5> QED
          BY <2>5, <4>4, <5>1, FrameLemma
      <4>6. stream = Cat(Cat(read, y), Rest)
        BY <4>1 DEF Cat
      <4>7. \A j \in 1 .. 2 : stream[j] = read[j]
        <5> HIDE DEF stream
        <5>1. /\ Cat(read, y) \in Seq(WireBytes)
              /\ Len(Cat(read, y)) = Len(read) + Len(y)
              /\ \A j \in 1 .. Len(read) : Cat(read, y)[j] = read[j]
          <6>1. read \in Seq(WireBytes) /\ y \in Seq(WireBytes)
            BY <2>2
          <6>2. /\ Cat(read, y) \in Seq(WireBytes)
                /\ Len(Cat(read, y)) = Len(read) + Len(y)
                /\ \A j \in 1 .. Len(read) + Len(y) :
                     Cat(read, y)[j] = IF j <= Len(read) THEN read[j] ELSE y[j - Len(read)]
            BY <6>1, ConcatProperties DEF Cat
          <6>3. Len(read) \in Nat /\ Len(y) \in Nat
            BY <6>1
          <6> QED
            BY <6>2, <6>3
        <5> DEFINE b == Cat(read, y)
        <5>2. b \in Seq(WireBytes) /\ Len(b) >= 2
          BY <1>4, <2>1, <2>2, <3>2, <5>1
        <5>3. stream = Cat(b, Rest) /\ \A j \in 1 .. 2 : b[j] = read[j]
          BY <3>2, <4>6, <5>1
        <5> HIDE DEF b
        <5>4. \A j \in 1 .. Len(b) : Cat(b, Rest)[j] = b[j]
          BY <1>4, <5>2, ConcatProperties DEF Cat
        <5>5. \A j \in 1 .. 2 : j \in 1 .. Len(b)
          BY <5>2
        <5> QED
          BY <5>3, <5>4, <5>5
      <4> HIDE DEF stream, p
      <4>8. \A j \in 1 .. Len(read) : read[j] = p[j]
        BY <3>2, <4>5, <4>7
      <4> QED
        BY <2>2, <3>2, <3>3, <4>8, SeqEqual
    <3>5. wanted' = transit[1].len
      BY <3>1, <3>3, <3>4
    <3>6. ConnectionTyped'
      BY <1>1, <1>2, <2>4, <2>5, <3>1, <3>5, EmptySeq DEF ConnectionTyped
    <3>7. ReceiverInv'
      <4>1. Len(got') = 0
        BY <3>1, EmptySeq
      <4> DEFINE l == transit[1].len
      <4>2. l \in Nat /\ wanted' = l /\ l = transit'[1].len
        BY <1>1, <2>5, <3>5
      <4> HIDE DEF l
      <4>3. Len(got') + wanted' = l
        BY <4>1, <4>2
      <4> QED
        BY <1>1, <2>5, <3>1, <4>2, <4>3 DEF ReceiverInv
    <3>8. Arrived' \o kernel' = Arrived \o kernel
      <4>1. Arrived = got /\ Arrived' = p \o <<>>
        BY <1>1, <2>7, <3>1 DEF Arrived
      <4>2. p \o <<>> = p
        BY <3>3, ConcatEmptySeq
      <4>3. Arrived' = read
        BY <3>4, <4>1, <4>2
      <4> QED
        BY <2>2, <2>3, <4>1, <4>3 DEF Cat
    <3>9. FramesInv'
      BY <1>1, <1>3, <3>8 DEF ConnectionInv, FramesInv
    <3> QED
      BY <1>3, <2>4, <3>6, <3>7, <3>9 DEF ConnectionInv
  <2>8. CASE ~(n < wanted) /\ receiving = "data"
    <3>1. receiving' = "whole" /\ wanted' = 0 /\ got' = read
      BY <2>3, <2>8
    <3>2. n = wanted /\ Len(got) + wanted = transit[1].len
      <4>1. n = wanted
        BY <1>4, <1>6, <2>1, <2>8
      <4> QED
        BY <1>2, <2>8, <4>1 DEF ReceiverInv
    <3>3. Len(got') + wanted' = transit[1].len /\ Len(got') > 0
      <4> DEFINE l == transit[1].len
      <4>1. Len(got') = Len(got) + n /\ Len(got) + n = l
        BY <2>2, <3>1, <3>2
      <4> HIDE DEF l
      <4>2. Len(got') + wanted' = l /\ Len(got') > 0
        BY <1>4, <2>1, <3>1, <4>1
      <4> QED
        BY <4>2 DEF l
    <3>4. ConnectionTyped'
      BY <1>1, <1>2, <2>2, <2>4, <3>1 DEF ConnectionTyped
    <3>5. ReceiverInv'
      BY <1>1, <2>5, <3>1, <3>3 DEF ReceiverInv
    <3>6. Arrived' \o kernel' = Arrived \o kernel
      <4> DEFINE p == Prefix(transit[1].len)
      <4>1. p \in Seq(WireBytes)
        BY <2>5, MessageKinds, PrefixLemma
      <4>2. Arrived = Cat(p, got) /\ Arrived' = Cat(p, read)
        BY <1>1, <2>8, <3>1 DEF Arrived, Cat
      <4> HIDE DEF p
      <4>3. Cat(Cat(p, read), y) = Cat(Cat(p, got), kernel)
        BY <2>2, <4>1
      <4>4. Cat(Arrived', kernel') = Cat(Arrived, kernel)
        BY <2>3, <4>2, <4>3
      <4> QED
        BY <4>4 DEF Cat
    <3>7. FramesInv'
      BY <1>1, <1>3, <3>6 DEF ConnectionInv, FramesInv
    <3> QED
      BY <1>3, <2>4, <3>4, <3>5, <3>7 DEF ConnectionInv
  <2> QED
    BY <1>1, <2>6, <2>7, <2>8
<1>7. Len(kernel') <= Len(kernel) /\ ConnectionInv'
  BY <1>4, <1>5, <1>6 DEF ReadSome
<1> QED
  BY <1>3, <1>7

LEMMA ConnectionReceive ==
  ASSUME ConnectionInv, NEW m, Receive(m)
  PROVE  /\ ConnectionInv' /\ Rest' = Rest /\ kernel' = kernel
         /\ transit # <<>> /\ m = transit[1] /\ transit[1] \in Messages
         /\ transit' = Tail(transit)
<1>1. /\ receiving = "whole" /\ got = Data(m)
      /\ receiving' = "size" /\ wanted' = 2 /\ got' = <<>> /\ transit' = Tail(transit)
      /\ sending' = sending /\ unsent' = unsent /\ message' = message /\ kernel' = kernel
  BY DEF Receive, sendVars
<1>2. ConnectionTyped /\ SenderInv /\ ReceiverInv
  BY DEF ConnectionInv
<1>3. /\ transit # <<>> /\ transit[1] \in Messages /\ got = Data(transit[1])
      /\ transit[1].len > 0
  BY <1>1, WholeMessage
<1> DEFINE first == transit[1]
<1>4. m = first
  <2>1. first.len \in Nat /\ \A i \in 1 .. first.len : Data(first)[i] = [of |-> first, at |-> i]
    BY <1>3, DataLemma, MessageKinds
  <2>2. 1 \in 1 .. first.len
    BY <1>3, <2>1
  <2>3. got[1] = [of |-> first, at |-> 1]
    BY <1>3, <2>1, <2>2
  <2>4. 1 \in DOMAIN got
    <3>1. DOMAIN Data(first) = 1 .. first.len
      BY DEF Data
    <3> QED
      BY <1>3, <2>2, <3>1
  <2>5. DOMAIN Data(m) = 1 .. m.len
    BY DEF Data
  <2>6. 1 \in 1 .. m.len
    BY <1>1, <2>4, <2>5
  <2>7. Data(m)[1] = [of |-> m, at |-> 1]
    BY <2>6 DEF Data
  <2> QED
    BY <1>1, <2>3, <2>7
<1>5. /\ transit \in Seq(Messages) /\ kernel \in Seq(WireBytes) /\ got \in Seq(WireBytes)
      /\ Len(transit) \in Nat \ {0}
      /\ transit' \in Seq(Messages) /\ Len(transit') = Len(transit) - 1
      /\ \A i \in 1 .. Len(transit) - 1 : transit'[i] = transit[i + 1]
  <2>1. transit \in Seq(Messages) /\ kernel \in Seq(WireBytes) /\ got \in Seq(WireBytes)
    BY <1>2 DEF ConnectionTyped
  <2>2. Len(transit) \in Nat \ {0}
    BY <1>3, <2>1, EmptySeq
  <2> QED
    BY <1>1, <1>3, <2>1, <2>2, HeadTailProperties
<1>6. /\ Arrived \in Seq(WireBytes) /\ Len(Arrived) = 2 + first.len /\ first.len \in Nat
      /\ Rest \in Seq(WireBytes) /\ Len(Rest) \in Nat /\ Len(kernel) \in Nat
  <2>1. first.len \in Nat
    BY <1>3, MessageKinds
  <2>2. wanted = 0
    BY <1>1, <1>2 DEF ReceiverInv
  <2>3. /\ Arrived \in Seq(WireBytes) /\ Rest \in Seq(WireBytes)
        /\ Len(Arrived) = 2 + first.len - wanted
    BY <1>1, <1>2, OnTheWay
  <2> DEFINE l == first.len
  <2>4. l \in Nat /\ Len(Arrived) = 2 + l - 0
    BY <2>1, <2>2, <2>3
  <2> HIDE DEF l
  <2>5. Len(Arrived) = 2 + l
    BY <2>4
  <2> QED
    BY <1>5, <2>1, <2>3, <2>5 DEF l
<1> HIDE DEF first
<1>7. ConnectionTyped'
  BY <1>1, <1>2, <1>5, EmptySeq DEF ConnectionTyped
<1>8. SenderInv'
  <2>1. CASE Len(transit) = 1
    <3>1. Len(Arrived) + Len(kernel) + Len(Rest) = 2 + first.len
      BY <1>3, <2>1, ArrivedFrame DEF first
    <3>2. Len(Rest) = 0
      <4> DEFINE l == first.len
      <4>1. l \in Nat /\ Len(Arrived) = 2 + l /\ Len(Arrived) + Len(kernel) + Len(Rest) = 2 + l
        BY <1>6, <3>1
      <4> HIDE DEF l
      <4> QED
        BY <1>6, <4>1
    <3>3. sending = "idle"
      <4>1. CASE sending = "size"
        <5>1. Len(Rest) = Len(unsent) + message.len /\ message \in Messages
          BY <1>2, <4>1, OnTheWay
        <5>2. Len(unsent) \in 1 .. 2 /\ message.len \in Nat
          BY <1>2, <4>1, <5>1, MessageKinds DEF SenderInv
        <5> DEFINE l == message.len
        <5>3. l \in Nat /\ Len(Rest) = Len(unsent) + l /\ Len(unsent) \in 1 .. 2
          BY <5>1, <5>2
        <5> HIDE DEF l
        <5>4. FALSE
          BY <3>2, <5>3
        <5> QED
          BY <5>4
      <4>2. CASE sending = "data"
        <5>1. Len(unsent) = 0 /\ unsent \in Seq(WireBytes)
          BY <1>2, <3>2, <4>2, OnTheWay DEF ConnectionTyped
        <5>2. unsent = <<>>
          BY <5>1, EmptySeq
        <5>3. message.len = 0 /\ message = first
          BY <1>2, <2>1, <4>2, <5>2 DEF SenderInv, first
        <5> QED
          BY <1>3, <5>3 DEF first
      <4> QED
        BY <1>2, <4>1, <4>2 DEF ConnectionTyped
    <3> QED
      BY <1>1, <1>2, <3>3 DEF SenderInv
  <2>2. CASE Len(transit) # 1
    <3>1. Len(transit) - 1 \in 1 .. Len(transit) - 1 /\ Len(transit) - 1 + 1 = Len(transit)
      BY <1>5, <2>2
    <3>2. transit'[Len(transit')] = transit[Len(transit)]
      BY <1>5, <3>1
    <3>3. transit' # <<>>
      BY <1>5, <3>1, EmptySeq
    <3> QED
      BY <1>1, <1>2, <3>2, <3>3 DEF SenderInv
  <2> QED
    BY <2>1, <2>2
<1>9. ReceiverInv'
  <2>1. Len(got') = 0
    BY <1>1, EmptySeq
  <2> QED
    BY <1>1, <2>1 DEF ReceiverInv
<1>10. Rest' = Rest /\ Arrived' = <<>>
  BY <1>1 DEF Rest, Arrived
<1>11. FramesInv'
  <2> DEFINE rest == Cat(kernel, Rest)
  <2>1. rest \in Seq(WireBytes)
    BY <1>5, <1>6, ConcatProperties DEF Cat
  <2>2. \A r, s, t \in Seq(WireBytes) : Cat(Cat(r, s), t) = Cat(r, Cat(s, t))
    BY Associative DEF Cat
  <2>3. Cat(Cat(Arrived, kernel), Rest) = Cat(Arrived, rest)
    BY <1>5, <1>6, <2>2
  <2>4. <<>> \o kernel = kernel
    BY <1>5, ConcatEmptySeq
  <2>5. Arrived' \o kernel' \o Rest' = rest
    BY <1>1, <1>10, <2>4 DEF Cat
  <2>6. PICK starts : Framed(starts, transit, Arrived \o rest)
    BY <2>3 DEF ConnectionInv, FramesInv, Cat
  <2> HIDE DEF rest
  <2>7. \E t : Framed(t, Tail(transit), rest)
    BY <1>3, <1>5, <1>6, <2>1, <2>6, FrameTaken DEF first
  <2> QED
    BY <1>1, <2>5, <2>7 DEF FramesInv
<1> QED
  BY <1>1, <1>2, <1>3, <1>4, <1>7, <1>8, <1>9, <1>10, <1>11 DEF ConnectionInv, first

-------------------------------------------------------------------------------
(* The estimate of what has left the kernel                                *)

LEMMA EstimateInit ==
  ASSUME Init
  PROVE  EstimateInv
<1>1. Len(<<>>) = 0
  BY EmptySeq
<1>2. kernel = <<>> /\ Rest = <<>> /\ bytesSent = 0 /\ drained = 0 /\ frames = 0
  BY DEF Init, SocketInit, Rest
<1> QED
  BY <1>1, <1>2 DEF EstimateInv

LEMMA EstimateSends ==
  ASSUME ConnectionInv, EstimateInv, outbox \in Seq(Messages), Send \/ MeasureAndSend
  PROVE  EstimateInv'
<1> DEFINE m == Head(outbox)
           l == m.len
<1>1. outbox # <<>> /\ StartSend(m)
  BY DEF Send, MeasureAndSend
<1>2. m \in Messages
  BY <1>1, HeadTailProperties
<1>3. l \in Nat
  BY <1>2, MessageKinds
<1>4. Len(Rest') = 2 + l /\ Len(Rest) = 0 /\ kernel' = kernel
  BY <1>1, <1>2, ConnectionStartSend
<1>5. Len(kernel) \in Nat
  BY DEF ConnectionInv, ConnectionTyped
<1> HIDE DEF m
<1>6. CASE Send
  <2>1. bytesSent' = bytesSent + l /\ frames' = frames + 1 /\ drained' = drained
    BY <1>6 DEF Send, m
  <2> HIDE DEF l
  <2> QED
    BY <1>3, <1>4, <1>5, <2>1 DEF EstimateInv
<1>7. CASE MeasureAndSend
  <2>1. bytesSent' = Len(kernel) + l /\ frames' = 1 /\ drained' = 0
    BY <1>7 DEF MeasureAndSend, m
  <2> HIDE DEF l
  <2> QED
    BY <1>3, <1>4, <1>5, <2>1 DEF EstimateInv
<1> QED
  BY <1>6, <1>7

LEMMA EstimateWrites ==
  ASSUME ConnectionInv, EstimateInv, Write \/ Read
  PROVE  EstimateInv'
<1>1. Len(kernel) \in Nat /\ Len(Rest) \in Nat
  BY OnTheWay DEF ConnectionInv, ConnectionTyped
<1>2. ASSUME ConnectionInv'
      PROVE  Len(kernel') \in Nat /\ Len(Rest') \in Nat
  BY <1>2, OnTheWay DEF ConnectionInv, ConnectionTyped
<1>3. CASE Write
  <2>1. Len(kernel') + Len(Rest') = Len(kernel) + Len(Rest) /\ ConnectionInv'
    BY <1>3, ConnectionWriteSome DEF Write
  <2>2. bytesSent' = bytesSent /\ frames' = frames /\ drained' = drained
    BY <1>3 DEF Write, meterVars
  <2> QED
    BY <1>1, <1>2, <2>1, <2>2 DEF EstimateInv
<1>4. CASE Read
  <2>1. ConnectionInv' /\ Rest' = Rest /\ Len(kernel') <= Len(kernel)
    BY <1>4, ConnectionReadSome DEF Read
  <2>2. /\ bytesSent' = bytesSent /\ frames' = frames
        /\ drained' = drained + (Len(kernel) - Len(kernel'))
    BY <1>4 DEF Read
  <2>3. Len(kernel') \in Nat
    BY <2>1 DEF ConnectionInv, ConnectionTyped
  <2> QED
    BY <1>1, <2>1, <2>2, <2>3 DEF EstimateInv
<1> QED
  BY <1>3, <1>4

-------------------------------------------------------------------------------
(* The compressors                                                         *)

LEMMA RoundRobinLemma ==
  /\ RoundRobin \in Seq(Compressors) /\ Len(RoundRobin) \in Nat \ {0}
  /\ Adaptive \subseteq Compressors
<1> DEFINE Levels(codec) == [l \in 1 .. MaxLevel |-> <<codec, l>>]
           one(c) == <<c>>
<1>1. MaxLevel \in Nat
  BY CodecAssumption
<1>2. Codecs = {"ZLIB", "LZO", "BZIP2", "LZMA", "FPC", "SNAPPY"}
  BY DEF Codecs, Leveled
<1>3. ASSUME NEW codec \in Codecs
      PROVE  Levels(codec) \in Seq(Compressors)
  <2>1. \A l \in 1 .. MaxLevel : <<codec, l>> \in Compressors
    BY <1>1 DEF Compressors
  <2>2. Levels(codec) \in [1 .. MaxLevel -> Compressors]
    BY <2>1
  <2> QED
    BY <1>1, <2>2, SeqDef
<1>4. ASSUME NEW c \in Compressors
      PROVE  one(c) \in Seq(Compressors) /\ one(c) # <<>>
  OBVIOUS
<1>5. /\ <<"ZLIB", 0>> \in Compressors /\ <<"SNAPPY", -1>> \in Compressors
      /\ <<"COPY", -1>> \in Compressors
  BY <1>2 DEF Compressors, COPY
<1>6. /\ \A r, s \in Seq(Compressors) : Cat(r, s) \in Seq(Compressors)
      /\ \A r, s \in Seq(Compressors) : r # <<>> => Cat(r, s) # <<>>
  <2>1. \A r, s \in Seq(Compressors) : Cat(r, s) \in Seq(Compressors)
    BY ConcatProperties DEF Cat
  <2>2. ASSUME NEW r \in Seq(Compressors), NEW s \in Seq(Compressors), r # <<>>
        PROVE  Cat(r, s) # <<>>
    <3>1. Len(Cat(r, s)) = Len(r) + Len(s)
      BY ConcatProperties DEF Cat
    <3>2. Len(r) \in Nat \ {0} /\ Len(s) \in Nat
      BY <2>2, EmptySeq
    <3>3. Len(Cat(r, s)) # 0
      BY <3>1, <3>2
    <3> QED
      BY <3>3, EmptySeq
  <2> QED
    BY <2>1, <2>2
<1> DEFINE a == one(<<"ZLIB", 0>>)     b == Levels("ZLIB")   c == one(<<"SNAPPY", -1>>)
           d == Levels("LZO")          e == Levels("BZIP2")  f == Levels("LZMA")
           g == one(<<"COPY", -1>>)
<1>7. /\ a \in Seq(Compressors) /\ b \in Seq(Compressors) /\ c \in Seq(Compressors)
      /\ d \in Seq(Compressors) /\ e \in Seq(Compressors) /\ f \in Seq(Compressors)
      /\ g \in Seq(Compressors) /\ a # <<>>
  <2>1. {"ZLIB", "LZO", "BZIP2", "LZMA"} \subseteq Codecs
    BY <1>2
  <2> HIDE DEF Levels, one
  <2> QED
    BY <1>3, <1>4, <1>5, <2>1
<1>8. RoundRobin = Cat(Cat(Cat(Cat(Cat(Cat(a, b), c), d), e), f), g)
  BY DEF RoundRobin, Cat
<1> HIDE DEF a, b, c, d, e, f, g
<1>9. RoundRobin \in Seq(Compressors) /\ RoundRobin # <<>>
  <2>1. Cat(a, b) \in Seq(Compressors) /\ Cat(a, b) # <<>>
    BY <1>6, <1>7
  <2> DEFINE x == Cat(a, b)
  <2>2. x \in Seq(Compressors) /\ x # <<>>
    BY <2>1
  <2> HIDE DEF x
  <2>3. Cat(x, c) \in Seq(Compressors) /\ Cat(x, c) # <<>>
    BY <1>6, <1>7, <2>2
  <2>4. Cat(Cat(x, c), d) \in Seq(Compressors) /\ Cat(Cat(x, c), d) # <<>>
    BY <1>6, <1>7, <2>3
  <2>5. Cat(Cat(Cat(x, c), d), e) \in Seq(Compressors) /\ Cat(Cat(Cat(x, c), d), e) # <<>>
    BY <1>6, <1>7, <2>4
  <2>6. Cat(Cat(Cat(Cat(x, c), d), e), f) \in Seq(Compressors)
        /\ Cat(Cat(Cat(Cat(x, c), d), e), f) # <<>>
    BY <1>6, <1>7, <2>5
  <2> QED
    BY <1>6, <1>7, <1>8, <2>6 DEF x
<1>10. Len(RoundRobin) \in Nat \ {0}
  BY <1>9, EmptySeq
<1>11. Adaptive \subseteq Compressors
  BY <1>9, ElementOfSeq, LenProperties DEF Adaptive, Range
<1> QED
  BY <1>9, <1>10, <1>11

LEMMA BandwidthLemma ==
  ASSUME NEW n \in Nat
  PROVE  BandwidthLevel(n) \in 0 .. 58
<1>1. n < 100 => n \div 5 \in 0 .. 58
  BY Z3
<1>2. n < 1000 => n \div 100 \in 0 .. 9
  BY Z3
<1> DEFINE fifth == n \div 5
           hundredth == n \div 100
<1>3. (n < 100 => fifth \in 0 .. 58) /\ (n < 1000 => hundredth \in 0 .. 9)
  BY <1>1, <1>2
<1> SUFFICES (IF n < 100 THEN fifth ELSE IF n < 1000 THEN hundredth + 19 ELSE 58) \in 0 .. 58
  BY DEF BandwidthLevel
<1> HIDE DEF fifth, hundredth
<1> QED
  BY <1>3

\* A request's strategy takes a compressor that there is.
LEMMA ChosenLemma ==
  ASSUME ServerTyped, stage = "chunk"
  PROVE  Chosen \subseteq Compressors
<1>1. /\ request.mode \in {"copy", "auto", "compress", "train", "round robin"}
      /\ request.compressor \in Codecs \union {"COPY"} /\ request.level \in Int
  BY DEF ServerTyped
<1>2. COPY \in Compressors /\ COPY = <<"COPY", -1>>
  BY DEF Compressors, COPY
<1>3. CASE request.mode \in {"compress", "train"}
  <2>1. <<request.compressor, request.level>> \in Compressors
    <3>1. CASE request.compressor = "COPY"
      BY <1>2, <1>3, <3>1 DEF ServerTyped
    <3>2. CASE request.compressor \in Codecs
      BY <1>1, <3>2 DEF Compressors
    <3> QED
      BY <1>1, <3>1, <3>2
  <2> QED
    BY <1>2, <1>3, <2>1 DEF Chosen
<1>4. CASE request.mode = "copy"
  BY <1>2, <1>4 DEF Chosen
<1>5. CASE request.mode = "round robin"
  <2>1. RoundRobin[turn] \in Compressors
    BY RoundRobinLemma, ElementOfSeq DEF ServerTyped
  <2> QED
    BY <1>5, <2>1 DEF Chosen
<1>6. CASE request.mode = "auto"
  <2>1. <<"ZLIB", 3>> \in Compressors
    BY DEF Compressors, Codecs, Leveled
  <2>2. \A c : (IF c \in Adaptive THEN c ELSE <<"COPY", -1>>) \in Compressors
    BY <1>2, RoundRobinLemma
  <2>3. Decisions(bandwidth) \subseteq Compressors
    BY <1>2, <2>1, <2>2 DEF Decisions
  <2> QED
    BY <1>6, <2>3 DEF Chosen
<1> QED
  BY <1>1, <1>3, <1>4, <1>5, <1>6

LEMMA SizesLemma ==
  /\ CHUNK \in Nat \ {0} /\ DOUBLE \in Nat \ {0} /\ CHUNK % DOUBLE = 0
  /\ OUT \in Nat /\ CHUNK <= OUT /\ MODULUS \in Nat \ {0}
  /\ FILES \in Nat \ {0} /\ Sizes \subseteq Nat
<1> DEFINE square == BASE * BASE
<1>1. square \in Int
  BY SocketAssumption
<1>2. OUT \in CHUNK .. square - 1 /\ CHUNK \in Nat \ {0}
  BY DataAssumption
<1> HIDE DEF square
<1>3. OUT \in Nat /\ CHUNK <= OUT
  BY <1>1, <1>2
<1> QED
  BY <1>2, <1>3, DataAssumption, CodecAssumption

\* What a chunk is compressed to is a chunk of the same piece.
LEMMA ResultsLemma ==
  ASSUME ServerTyped, stage = "chunk", NEW piece \in Piece, NEW result \in Results(piece)
  PROVE  /\ result.chunk \in Chunks /\ result.chunk.piece = piece
         /\ result.chunk.by \in Codecs \union {"COPY"}
         /\ result.chunk.len \in 0 .. OUT
<1>1. \A c \in Chosen \ {COPY} : c[1] \in Codecs
  BY ChosenLemma DEF Compressors
<1>2. CASE \E t \in {c # COPY : c \in Chosen} : result = [chunk |-> Copied(piece), threw |-> t]
  <2>1. result.chunk = Copied(piece)
    BY <1>2
  <2>2. Copied(piece).piece = piece /\ Copied(piece).by = "COPY" /\ Copied(piece).len = piece.size
    BY DEF Copied
  <2>3. piece.size \in 0 .. OUT
    BY SizesLemma DEF Piece
  <2> QED
    BY <2>1, <2>2, <2>3 DEF Chunks
<1>3. ASSUME NEW c \in Chosen \ {COPY}, NEW z \in Compressed(c[1], piece, OUT),
             result = [chunk |-> z, threw |-> FALSE]
      PROVE  /\ result.chunk \in Chunks /\ result.chunk.piece = piece
             /\ result.chunk.by \in Codecs \union {"COPY"}
             /\ result.chunk.len \in 0 .. OUT
  <2>1. PICK n \in {l \in Lengths : l <= OUT} : z = [piece |-> piece, by |-> c[1], len |-> n]
    BY DEF Compressed
  <2>2. n \in 1 .. OUT
    BY CodecAssumption, SizesLemma
  <2>3. c[1] \in Codecs /\ result.chunk = [piece |-> piece, by |-> c[1], len |-> n]
    BY <1>1, <1>3, <2>1
  <2>4. result.chunk \in [piece : Piece, by : Codecs, len : 1 .. OUT]
    BY <2>2, <2>3
  <2> QED
    BY <2>2, <2>3, <2>4 DEF Chunks
<1>4. \/ \E t \in {c # COPY : c \in Chosen} : result = [chunk |-> Copied(piece), threw |-> t]
      \/ \E c \in Chosen \ {COPY} : \E z \in Compressed(c[1], piece, OUT) :
           result = [chunk |-> z, threw |-> FALSE]
  BY DEF Results
<1> QED
  BY <1>2, <1>3, <1>4

-------------------------------------------------------------------------------
(* The order of the messages                                               *)

LEMMA PlacedSame ==
  ASSUME NEW s, NEW t, NEW i \in Nat \ {0}, Placed(s, i), t[i] = s[i],
         i > 1 => t[i - 1] = s[i - 1], i > 2 => t[i - 2] = s[i - 2]
  PROVE  Placed(t, i)
<1>1. IsInitial(t[i]) => i = 1 \/ (i > 3 /\ IsChunk(t[i - 1]) /\ t[i - 2].last)
  BY DEF Placed
<1>2. IsHeader(t[i]) =>
        i > 1 /\ (IsInitial(t[i - 1]) \/ (i > 3 /\ IsChunk(t[i - 1]) /\ ~t[i - 2].last))
  BY DEF Placed
<1>3. ASSUME IsChunk(t[i])
      PROVE  /\ i > 2 /\ IsHeader(t[i - 1])
             /\ t[i - 1].by = t[i].chunk.by
             /\ ~t[i - 1].last => t[i].chunk.piece.size = CHUNK
             /\ IsInitial(t[i - 2]) =>
                  t[i].chunk.piece.from = 0 /\ t[i].chunk.piece.file = t[i - 2].file
             /\ IsChunk(t[i - 2]) =>
                  /\ t[i].chunk.piece.from = t[i - 2].chunk.piece.from + t[i - 2].chunk.piece.size
                  /\ t[i].chunk.piece.file = t[i - 2].chunk.piece.file
  <2>1. i > 2
    BY <1>3 DEF Placed
  <2>2. t[i] = s[i] /\ t[i - 1] = s[i - 1] /\ t[i - 2] = s[i - 2]
    BY <2>1
  <2> QED
    BY <1>3, <2>1, <2>2 DEF Placed
<1> QED
  BY <1>1, <1>2, <1>3 DEF Placed

\* A sequence of messages goes on with messages in their places.
LEMMA ShapedMore ==
  ASSUME NEW s \in Seq(Messages), NEW t \in Seq(Messages), Len(s) <= Len(t), Shaped(s),
         \A i \in 1 .. Len(s) : t[i] = s[i],
         \A i \in Len(s) + 1 .. Len(t) : Placed(t, i)
  PROVE  Shaped(t)
<1> SUFFICES ASSUME NEW i \in 1 .. Len(t), i <= Len(s)
             PROVE  Placed(t, i)
  BY DEF Shaped
<1>1. i \in 1 .. Len(s) /\ i \in Nat \ {0}
  OBVIOUS
<1>2. /\ Placed(s, i) /\ t[i] = s[i]
      /\ i > 1 => t[i - 1] = s[i - 1]
      /\ i > 2 => t[i - 2] = s[i - 2]
  BY <1>1 DEF Shaped
<1> QED
  BY <1>1, <1>2, PlacedSame

\* What is left from the beginning of a file is such a sequence again.
LEMMA ShapedRest ==
  ASSUME NEW s \in Seq(Messages), Shaped(s), NEW h \in Nat, h < Len(s),
         IsInitial(s[h + 1])
  PROVE  /\ SubSeq(s, h + 1, Len(s)) \in Seq(Messages)
         /\ Len(SubSeq(s, h + 1, Len(s))) = Len(s) - h
         /\ \A i \in 1 .. Len(s) - h : SubSeq(s, h + 1, Len(s))[i] = s[h + i]
         /\ Shaped(SubSeq(s, h + 1, Len(s)))
<1> DEFINE n == Len(s)
           t == SubSeq(s, h + 1, Len(s))
<1>1. n \in Nat
  OBVIOUS
<1>2. \A i \in h + 1 .. n : s[i] \in Messages
  BY ElementOfSeq
<1>3. /\ t \in Seq(Messages)
      /\ Len(t) = IF h + 1 <= n THEN n - (h + 1) + 1 ELSE 0
      /\ \A i \in 1 .. n - (h + 1) + 1 : t[i] = s[(h + 1) + i - 1]
  BY <1>1, <1>2, SubSeqProperties
<1> HIDE DEF t, n
<1>4. Len(t) = n - h /\ \A i \in 1 .. n - h : t[i] = s[h + i]
  <2>1. n - (h + 1) + 1 = n - h
    BY <1>1
  <2>2. Len(t) = n - h
    BY <1>1, <1>3 DEF n
  <2>3. ASSUME NEW i \in 1 .. n - h
        PROVE  t[i] = s[h + i]
    <3>1. (h + 1) + i - 1 = h + i
      BY <1>1
    <3> QED
      BY <1>3, <2>1, <3>1
  <2> QED
    BY <2>2, <2>3
<1>5. ASSUME NEW i \in 1 .. n - h
      PROVE  Placed(t, i)
  <2>1. h + i \in 1 .. n /\ i \in Nat \ {0}
    BY <1>1
  <2>2. Placed(s, h + i)
    BY <2>1 DEF Shaped, n
  <2>3. \A j \in 1 .. n - h : t[j] = s[h + j]
    BY <1>4
  <2>4. t[i] = s[h + i] /\ t[1] = s[h + 1] /\ 1 \in 1 .. n - h
    BY <1>1, <2>3
  <2>5. CASE i = 1
    <3>1. IsInitial(t[1])
      BY <2>4
    <3>2. ~IsHeader(t[1]) /\ ~IsChunk(t[1])
      BY <3>1 DEF IsInitial, IsHeader, IsChunk
    <3> QED
      BY <2>5, <3>2 DEF Placed
  <2>6. CASE i = 2
    <3>1. ~IsHeader(s[h + 1]) /\ ~IsChunk(s[h + 1])
      BY DEF IsInitial, IsHeader, IsChunk
    <3>2. (h + i) - 1 = h + 1 /\ i - 1 = 1
      BY <2>6
    <3>3. ~IsChunk(s[h + i])
      BY <2>2, <3>1, <3>2 DEF Placed
    <3>4. ~IsInitial(s[h + i])
      <4>1. h + i # 1
        BY <2>6
      <4> QED
        BY <2>2, <3>1, <3>2, <4>1 DEF Placed
    <3>5. IsInitial(t[i - 1])
      BY <2>4, <3>2
    <3> QED
      BY <2>4, <2>6, <3>3, <3>4, <3>5 DEF Placed
  <2>7. CASE i > 2
    <3>1. /\ i - 1 \in 1 .. n - h /\ i - 2 \in 1 .. n - h
          /\ h + (i - 1) = (h + i) - 1 /\ h + (i - 2) = (h + i) - 2
          /\ h + i # 1 /\ h + i > 2 /\ (h + i) - 1 \in 1 .. n
      BY <1>1, <2>1, <2>7
    <3>2. t[i - 1] = s[(h + i) - 1] /\ t[i - 2] = s[(h + i) - 2]
      BY <2>3, <3>1
    <3>3. CASE i = 3
      <4>1. (h + i) - 2 = h + 1 /\ ((h + i) - 1) - 1 = h + 1
        BY <3>3
      <4>2. ~IsChunk(s[(h + i) - 1])
        <5>1. ~IsHeader(s[h + 1])
          BY DEF IsInitial, IsHeader
        <5>2. Placed(s, (h + i) - 1)
          BY <3>1 DEF Shaped, n
        <5> HIDE DEF Shaped
        <5> QED
          BY <4>1, <5>1, <5>2 DEF Placed
      <4>3. ~IsInitial(s[h + i])
        BY <2>2, <3>1, <4>2 DEF Placed
      <4>4. IsHeader(s[h + i]) => IsInitial(s[(h + i) - 1])
        BY <2>2, <4>2 DEF Placed
      <4> QED
        BY <2>2, <2>4, <2>7, <3>2, <4>2, <4>3, <4>4 DEF Placed
    <3>4. CASE i > 3
      BY <2>2, <2>4, <2>7, <3>1, <3>2, <3>4 DEF Placed
    <3> QED
      BY <2>1, <2>7, <3>3, <3>4
  <2> QED
    BY <2>1, <2>5, <2>6, <2>7
<1>6. Shaped(t)
  BY <1>4, <1>5 DEF Shaped
<1> QED
  BY <1>3, <1>4, <1>6 DEF t, n

-------------------------------------------------------------------------------
(* The client while the server works                                       *)

LEMMA HandledLemma ==
  ASSUME PendingInv, source \in Seq(Messages), transit \in Seq(Messages),
         outbox \in Seq(Messages)
  PROVE  /\ Handled \in Nat /\ Handled <= Len(source)
         /\ Handled + Len(transit) + Len(outbox) = Len(source)
         /\ Len(source) \in Nat /\ Len(transit) \in Nat /\ Len(outbox) \in Nat
<1>1. Len(source) \in Nat /\ Len(transit) \in Nat /\ Len(outbox) \in Nat
  OBVIOUS
<1> QED
  BY <1>1 DEF PendingInv, Handled

LEMMA WrittenBounds ==
  ASSUME ClientTyped, ClientInv, Handled \in Nat
  PROVE  /\ Len(written) \in Nat /\ DOMAIN written = 1 .. Len(written)
         /\ Handled = 0 => Len(written) = 0
         /\ Handled > 0 => 2 * Len(written) + 1 <= Handled
         /\ \A k \in 1 .. Len(written) : 2 * k + 1 \in 1 .. Handled /\ 2 * k \in 1 .. Handled
<1>1. Len(written) \in Nat /\ DOMAIN written = 1 .. Len(written)
  BY LenProperties DEF ClientTyped
<1>2. expects \in {"initial", "header", "chunk"}
  BY DEF ClientTyped
<1>3. Handled > 0 => 2 * Len(written) + 1 <= Handled
  <2>1. CASE expects = "header"
    BY <1>1, <2>1 DEF ClientInv
  <2>2. CASE expects = "chunk"
    BY <1>1, <2>2 DEF ClientInv
  <2>3. CASE expects = "initial" /\ closed
    BY <1>1, <2>3 DEF ClientInv
  <2>4. CASE expects = "initial" /\ ~closed
    BY <1>1, <2>4 DEF ClientInv
  <2> QED
    BY <1>2, <2>1, <2>2, <2>3, <2>4
<1>4. Handled = 0 => Len(written) = 0
  <2>1. CASE expects = "header"
    BY <1>1, <2>1 DEF ClientInv
  <2>2. CASE expects = "chunk"
    BY <1>1, <2>2 DEF ClientInv
  <2>3. CASE expects = "initial" /\ closed
    BY <1>1, <2>3 DEF ClientInv
  <2>4. CASE expects = "initial" /\ ~closed
    BY <1>1, <2>4 DEF ClientInv
  <2> QED
    BY <1>2, <2>1, <2>2, <2>3, <2>4
<1> DEFINE n == Len(written)
<1>5. n \in Nat /\ (Handled = 0 => n = 0) /\ (Handled > 0 => 2 * n + 1 <= Handled)
  BY <1>1, <1>3, <1>4
<1> HIDE DEF n
<1>6. \A k \in 1 .. n : 2 * k + 1 \in 1 .. Handled /\ 2 * k \in 1 .. Handled
  BY <1>5
<1> QED
  BY <1>1, <1>5, <1>6 DEF n

\* What the server makes and sends changes nothing of what the client has dealt
\* with.
LEMMA ClientKept ==
  ASSUME ClientTyped, ClientInv, BufferInv, WrittenInv, Handled \in Nat,
         UNCHANGED clientVars, Handled' = Handled,
         \A i \in 1 .. Handled : source'[i] = source[i],
         source' \in Seq(Messages)
  PROVE  ClientTyped' /\ ClientInv' /\ BufferInv' /\ WrittenInv'
<1>1. /\ expects' = expects /\ header' = header /\ decompressed' = decompressed
      /\ current' = current /\ bytesReceived' = bytesReceived /\ written' = written
      /\ closed' = closed /\ corrupted' = corrupted
  BY DEF clientVars
<1>2. ClientTyped'
  BY <1>1 DEF ClientTyped
<1> DEFINE n == Len(written)
<1>3. /\ n \in Nat /\ DOMAIN written = 1 .. n
      /\ Handled = 0 => n = 0
      /\ Handled > 0 => 2 * n + 1 <= Handled
      /\ \A k \in 1 .. n : 2 * k + 1 \in 1 .. Handled /\ 2 * k \in 1 .. Handled
  BY WrittenBounds
<1>4. /\ expects = "header" => Handled = 2 * n + 1
      /\ expects = "chunk"  => Handled = 2 * n + 2
                               /\ header = [by |-> source[Handled].by, last |-> source[Handled].last]
      /\ expects = "initial" /\ closed  => Handled = 2 * n + 1 /\ n > 0 /\ source[2 * n].last
      /\ expects = "initial" /\ ~closed => Handled = 0 /\ n = 0
      /\ expects # "initial" => ~closed
      /\ Handled > 0 => IsInitial(source[1])
                        /\ current = [file |-> source[1].file, size |-> source[1].size]
      /\ \A k \in 1 .. n :
           /\ IsHeader(source[2 * k]) /\ IsChunk(source[2 * k + 1])
           /\ Chunk(k).piece.file = current.file
           /\ Chunk(k).piece.from = End(k - 1)
           /\ ~source[2 * k].last => written[k] = Chunk(k).piece
           /\ k < n \/ ~closed => ~source[2 * k].last
  BY DEF ClientInv
<1>5. Len(written') = n
  BY <1>1
<1> HIDE DEF n
<1>6. \A k \in 1 .. n : /\ source'[2 * k] = source[2 * k]
                        /\ source'[2 * k + 1] = source[2 * k + 1]
                        /\ Chunk(k)' = Chunk(k)
  BY <1>3 DEF Chunk
<1>7. \A k \in 0 .. n : End(k)' = End(k)
  <2>1. ASSUME NEW k \in 0 .. n
        PROVE  End(k)' = End(k)
    <3>1. CASE k = 0
      BY <3>1 DEF End
    <3>2. CASE k # 0
      <4>1. k \in 1 .. n
        BY <1>3, <3>2
      <4>2. Chunk(k)' = Chunk(k)
        BY <1>6, <4>1
      <4> QED
        BY <4>2 DEF End
    <3> QED
      BY <3>1, <3>2
  <2> QED
    BY <2>1
<1>8. ClientInv'
  <2>1. expects' = "chunk" => header' = [by |-> source'[Handled'].by, last |-> source'[Handled'].last]
    <3>1. ASSUME expects = "chunk"
          PROVE  source'[Handled] = source[Handled]
      <4>1. Handled \in 1 .. Handled
        BY <1>3, <1>4, <3>1
      <4> QED
        BY <4>1
    <3> QED
      BY <1>1, <1>4, <3>1
  <2>2. expects' = "initial" /\ closed' => Handled' = 2 * n + 1 /\ n > 0 /\ source'[2 * n].last
    <3>1. ASSUME expects = "initial", closed
          PROVE  source'[2 * n] = source[2 * n]
      <4>1. n \in 1 .. n
        BY <1>3, <1>4, <3>1
      <4> QED
        BY <1>6, <4>1
    <3> QED
      BY <1>1, <1>4, <3>1
  <2>3. Handled' > 0 => IsInitial(source'[1])
                        /\ current' = [file |-> source'[1].file, size |-> source'[1].size]
    <3>1. Handled > 0 => 1 \in 1 .. Handled
      OBVIOUS
    <3>2. Handled > 0 => source'[1] = source[1]
      BY <3>1
    <3> QED
      BY <1>1, <1>4, <3>2
  <2>4. ASSUME NEW k \in 1 .. n
        PROVE  /\ IsHeader(source'[2 * k]) /\ IsChunk(source'[2 * k + 1])
               /\ (Chunk(k)').piece.file = (current').file
               /\ (Chunk(k)').piece.from = End(k - 1)'
               /\ ~source'[2 * k].last => written'[k] = (Chunk(k)').piece
               /\ k < n \/ ~closed' => ~source'[2 * k].last
    <3>1. /\ source'[2 * k] = source[2 * k]
          /\ source'[2 * k + 1] = source[2 * k + 1]
          /\ Chunk(k)' = Chunk(k) /\ End(k - 1)' = End(k - 1)
      <4>1. k - 1 \in 0 .. n
        BY <1>3
      <4> QED
        BY <1>6, <1>7, <4>1
    <3> QED
      BY <1>1, <1>4, <3>1
  <2> QED
    BY <1>1, <1>4, <1>5, <2>1, <2>2, <2>3, <2>4 DEF ClientInv
<1>9. BufferInv'
  <2>1. n # 0 => source'[2 * n + 1] = source[2 * n + 1]
    <3>1. n # 0 => n \in 1 .. n
      BY <1>3
    <3> QED
      BY <1>6, <3>1
  <2>2. ~closed /\ Handled > 0 => bytesReceived = End(n)
    BY DEF BufferInv, n
  <2>3. n' = n
    BY <1>1 DEF n
  <2>4. End(n)' = End(n)
    BY <2>1, <2>3 DEF End, Chunk
  <2> QED
    BY <1>1, <2>2, <2>4 DEF BufferInv, n
<1>10. WrittenInv'
  <2>1. ASSUME NEW k \in DOMAIN written'
        PROVE  written'[k] = Left(k)'
    <3>1. k \in 1 .. n /\ written[k] = Left(k) /\ Chunk(k)' = Chunk(k)
      BY <1>1, <1>3, <1>6, <2>1 DEF WrittenInv
    <3>2. Left(k)' = Left(k)
      BY <1>1, <3>1 DEF Left
    <3> QED
      BY <1>1, <3>1, <3>2
  <2>2. ASSUME closed, ~corrupted
        PROVE  (Whole(written) \/ (n > 1 /\ Refused(Chunk(n))))'
    <3>1. Whole(written) \/ (n > 1 /\ Refused(Chunk(n)))
      BY <2>2 DEF WrittenInv, n
    <3>2. Whole(written)' <=> Whole(written)
      BY <1>1 DEF Whole
    <3>4. n' = n
      BY <1>1 DEF n
    <3>3. n > 1 => Chunk(n)' = Chunk(n)
      <4>1. n > 1 => n \in 1 .. n
        BY <1>3
      <4>2. n > 1 => source'[2 * n + 1] = source[2 * n + 1]
        BY <1>6, <4>1
      <4> QED
        BY <3>4, <4>2 DEF Chunk
    <3> QED
      BY <3>1, <3>2, <3>3, <3>4
  <2>3. n' = Len(written')
    BY DEF n
  <2> QED
    BY <1>1, <2>1, <2>2, <2>3 DEF WrittenInv, n
<1> QED
  BY <1>2, <1>8, <1>9, <1>10

-------------------------------------------------------------------------------
(* The steps of the server                                                 *)

LEMMA PathFacts ==
  ASSUME PathInv, ConnectionInv
  PROVE  /\ source \in Seq(Messages) /\ transit \in Seq(Messages) /\ outbox \in Seq(Messages)
         /\ Handled \in Nat /\ Handled <= Len(source)
         /\ Handled + Len(transit) + Len(outbox) = Len(source)
         /\ Len(source) \in Nat /\ Len(transit) \in Nat /\ Len(outbox) \in Nat
<1>1. source \in Seq(Messages) /\ transit \in Seq(Messages) /\ outbox \in Seq(Messages)
  BY DEF PathInv, ServerTyped, ClientTyped, ConnectionInv, ConnectionTyped
<1> QED
  BY <1>1, HandledLemma DEF PathInv

\* A step of the server alone: what it has to keep are its own invariants.
LEMMA PathServer ==
  ASSUME PathInv, ConnectionInv, UNCHANGED <<transit, outbox, clientVars, source>>,
         ServerTyped', ServerInv'
  PROVE  PathInv'
<1>1. transit' = transit /\ outbox' = outbox /\ source' = source /\ UNCHANGED clientVars
  OBVIOUS
<1>2. Handled' = Handled
  BY <1>1 DEF Handled
<1>3. PendingInv'
  BY <1>1, <1>2 DEF PathInv, PendingInv
<1>4. Shaped(source')
  BY <1>1 DEF PathInv
<1>5. ClientTyped' /\ ClientInv' /\ BufferInv' /\ WrittenInv'
  BY <1>1, <1>2, PathFacts, ClientKept DEF PathInv
<1> QED
  BY <1>3, <1>4, <1>5 DEF PathInv

LEMMA LevelLemma ==
  ASSUME NEW codec \in Codecs \union {"COPY"}, NEW level \in Int
  PROVE  /\ LevelOf(codec, level) \in Int
         /\ codec = "COPY" => LevelOf(codec, level) = -1
<1>1. codec \in Leveled => LevelRange[codec].default \in Int
  BY DEF Leveled, LevelRange
<1>2. "COPY" \notin Leveled
  BY DEF Leveled
<1> HIDE DEF LevelRange, Leveled
<1>3. CASE codec \notin Leveled
  BY <1>3 DEF LevelOf
<1>4. CASE codec \in Leveled /\ level = -1
  BY <1>1, <1>2, <1>4 DEF LevelOf
<1>5. CASE codec \in Leveled /\ level # -1
  BY <1>2, <1>5 DEF LevelOf
<1> QED
  BY <1>3, <1>4, <1>5

LEMMA PathConfigure ==
  ASSUME PathInv, ConnectionInv, Configure
  PROVE  PathInv'
<1>1. /\ stage = "configure" /\ turn' = turn /\ file' = file /\ size' = size
      /\ fileSize' = fileSize /\ readBytes' = readBytes /\ eof' = eof /\ outbox' = outbox
      /\ bandwidth' = bandwidth /\ source' = source
      /\ UNCHANGED <<transit, outbox, clientVars, source>>
  BY DEF Configure, socketVars, meterVars
<1>2. ServerTyped /\ ServerInv
  BY DEF PathInv
<1>3. /\ request.compressor \in Codecs \union {"COPY"} /\ request.level \in Int
      /\ request \in [mode : {"copy", "auto", "compress", "train", "round robin"},
                      compressor : Codecs \union {"COPY"}, level : Int]
  BY <1>2 DEF ServerTyped
<1>4. CASE request.mode \in {"compress", "train"}
  <2> DEFINE l == LevelOf(request.compressor, request.level)
  <2>1. /\ stage' \in {"file", "refused"} /\ request' = [request EXCEPT !.level = l]
    BY <1>4 DEF Configure
  <2>2. l \in Int /\ (request.compressor = "COPY" => l = -1)
    BY <1>3, LevelLemma
  <2> HIDE DEF l
  <2>3. /\ request' \in [mode : {"copy", "auto", "compress", "train", "round robin"},
                         compressor : Codecs \union {"COPY"}, level : Int]
    BY <1>3, <2>1, <2>2
  <2>4. request'.level = l /\ request'.compressor = request.compressor
    BY <1>3, <2>1
  <2>5. ServerTyped'
    BY <1>1, <1>2, <2>1, <2>2, <2>3, <2>4 DEF ServerTyped
  <2>6. ServerInv'
    BY <1>1, <1>2, <2>1 DEF ServerInv
  <2> QED
    BY <1>1, <2>5, <2>6, PathServer
<1>5. CASE request.mode \notin {"compress", "train"}
  <2>1. stage' = "file" /\ request' = request
    BY <1>5 DEF Configure
  <2>2. ServerTyped'
    BY <1>1, <1>2, <1>5, <2>1 DEF ServerTyped
  <2>3. ServerInv'
    BY <1>1, <1>2, <2>1 DEF ServerInv
  <2> QED
    BY <1>1, <2>2, <2>3, PathServer
<1> QED
  BY <1>4, <1>5

LEMMA PathResize ==
  ASSUME PathInv, ConnectionInv, Resize
  PROVE  PathInv'
<1>1. /\ size' \in Sizes /\ stage' = stage /\ request' = request /\ turn' = turn
      /\ file' = file /\ fileSize' = fileSize /\ readBytes' = readBytes /\ eof' = eof
      /\ outbox' = outbox /\ bandwidth' = bandwidth /\ source' = source
      /\ UNCHANGED <<transit, outbox, clientVars, source>>
  BY DEF Resize, socketVars, meterVars
<1>2. ServerTyped'
  BY <1>1 DEF PathInv, ServerTyped
<1>3. ServerInv'
  BY <1>1 DEF PathInv, ServerInv, HasNextChunk
<1> QED
  BY <1>1, <1>2, <1>3, PathServer

LEMMA PathEndOfFile ==
  ASSUME PathInv, ConnectionInv, EndOfFile
  PROVE  PathInv'
<1>1. /\ stage = "chunk" /\ ~HasNextChunk /\ stage' = "file"
      /\ size' = size /\ request' = request /\ turn' = turn
      /\ file' = file /\ fileSize' = fileSize /\ readBytes' = readBytes /\ eof' = eof
      /\ outbox' = outbox /\ bandwidth' = bandwidth /\ source' = source
      /\ UNCHANGED <<transit, outbox, clientVars, source>>
  BY DEF EndOfFile, socketVars, meterVars
<1>2. request.compressor = "COPY" /\ request.mode \in {"compress", "train"} => request.level = -1
  BY <1>1 DEF PathInv, ServerTyped
<1>3. ServerTyped'
  BY <1>1, <1>2 DEF PathInv, ServerTyped
<1>4. HasNextChunk' <=> HasNextChunk
  BY <1>1 DEF HasNextChunk
<1>5. ServerInv'
  BY <1>1, <1>4 DEF PathInv, ServerInv
<1> QED
  BY <1>1, <1>3, <1>5, PathServer

\* The messages that are made come behind all others, and wait.
LEMMA PathMade ==
  ASSUME PathInv, ConnectionInv, outbox = <<>>, outbox' \in Seq(Messages),
         source' = Cat(source, outbox'),
         UNCHANGED <<transit, clientVars>>,
         ServerTyped', ServerInv',
         \A i \in Len(source) + 1 .. Len(source) + Len(outbox') : Placed(source', i)
  PROVE  PathInv'
<1> DEFINE n == Len(source)
           o == Len(outbox')
<1>1. /\ source \in Seq(Messages) /\ transit \in Seq(Messages)
      /\ n \in Nat /\ o \in Nat /\ Len(transit) \in Nat /\ Len(outbox) = 0
      /\ Handled \in Nat /\ Handled + Len(transit) = n /\ Handled <= n
      /\ Len(transit') = Len(transit)
  <2>1. /\ source \in Seq(Messages) /\ transit \in Seq(Messages)
        /\ n \in Nat /\ o \in Nat /\ Len(transit) \in Nat /\ Len(outbox) = 0
        /\ Handled \in Nat /\ Handled + Len(transit) + Len(outbox) = n
        /\ Len(transit') = Len(transit)
    BY PathFacts, EmptySeq
  <2> HIDE DEF n, o
  <2> QED
    BY <2>1
<1>2. /\ source' \in Seq(Messages) /\ Len(source') = n + o
      /\ \A i \in 1 .. n + o : source'[i] = IF i <= n THEN source[i] ELSE outbox'[i - n]
  BY <1>1, ConcatProperties DEF Cat
<1> HIDE DEF n, o
<1>3. \A i \in 1 .. n : source'[i] = source[i]
  BY <1>1, <1>2
<1>4. Handled' = Handled
  BY <1>1, <1>2 DEF Handled, n, o
<1>5. PendingInv'
  <2>1. ASSUME NEW i \in 1 .. Len(transit')
        PROVE  transit'[i] = source'[Handled' + i]
    <3>1. i \in 1 .. Len(transit) /\ Handled + i \in 1 .. n
      BY <1>1, <2>1
    <3>2. transit[i] = source[Handled + i]
      BY <3>1 DEF PathInv, PendingInv
    <3> QED
      BY <1>3, <1>4, <3>1, <3>2
  <2>2. ASSUME NEW i \in 1 .. o
        PROVE  outbox'[i] = source'[Handled' + Len(transit') + i]
    <3>1. /\ Handled' + Len(transit') + i = n + i /\ n + i \in 1 .. n + o
          /\ ~(n + i <= n) /\ (n + i) - n = i
      <4> DEFINE h == Handled'
                 l == Len(transit')
      <4>1. /\ h \in Nat /\ l \in Nat /\ h + l = n /\ n \in Nat
            /\ o \in Nat /\ i \in 1 .. o
        BY <1>1, <1>4, <2>2
      <4> HIDE DEF h, l
      <4>2. h + l + i = n + i /\ n + i \in 1 .. n + o
            /\ ~(n + i <= n) /\ (n + i) - n = i
        BY <4>1
      <4> QED
        BY <4>2 DEF h, l
    <3> QED
      BY <1>2, <3>1
  <2>3. Len(transit') + o <= Len(source')
    BY <1>1, <1>2
  <2> QED
    BY <2>1, <2>2, <2>3 DEF PendingInv, o
<1>6. Shaped(source')
  <2>1. Shaped(source)
    BY DEF PathInv
  <2>2. \A i \in Len(source) + 1 .. Len(source') : Placed(source', i)
    BY <1>2 DEF n, o
  <2>3. Len(source) <= Len(source') /\ \A i \in 1 .. Len(source) : source'[i] = source[i]
    BY <1>1, <1>2, <1>3 DEF n
  <2> QED
    BY <1>1, <1>2, <2>1, <2>2, <2>3, ShapedMore
<1>7. ClientTyped' /\ ClientInv' /\ BufferInv' /\ WrittenInv'
  <2>1. \A i \in 1 .. Handled : source'[i] = source[i]
    BY <1>1, <1>3
  <2> QED
    BY <1>1, <1>2, <1>4, <2>1, ClientKept DEF PathInv
<1> QED
  BY <1>5, <1>6, <1>7 DEF PathInv

LEMMA PathOpenNextFile ==
  ASSUME PathInv, ConnectionInv, OpenNextFile
  PROVE  PathInv'
<1>1. /\ stage = "file" /\ outbox = <<>>
      /\ request' = request /\ turn' = turn /\ bandwidth' = bandwidth
      /\ UNCHANGED <<transit, clientVars>>
  BY DEF OpenNextFile, Idle, socketVars, meterVars
<1>2. ServerTyped /\ ServerInv
  BY DEF PathInv
<1>3. CASE file = FILES
  <2>1. /\ stage' = "done" /\ file' = file /\ size' = size /\ fileSize' = fileSize
        /\ readBytes' = readBytes /\ eof' = eof /\ outbox' = outbox /\ source' = source
    BY <1>3 DEF OpenNextFile
  <2>2. ServerTyped'
    BY <1>1, <1>2, <2>1 DEF ServerTyped
  <2>3. ServerInv'
    BY <1>1, <1>2, <2>1 DEF ServerInv, HasNextChunk
  <2> QED
    BY <1>1, <2>1, <2>2, <2>3, PathServer
<1>4. CASE file # FILES
  <2> DEFINE m == [kind |-> "initial", file |-> file', size |-> fileSize', len |-> 1]
             n == Len(source)
  <2>1. /\ stage' = "chunk" /\ file' = file + 1 /\ size' \in Sizes \ {0} /\ fileSize' = size'
        /\ readBytes' = 0 /\ eof' = FALSE
        /\ outbox' = <<m>> /\ source' = source \o outbox'
    BY <1>4 DEF OpenNextFile
  <2>2. /\ file' \in 1 .. FILES /\ size' \in Nat \ {0} /\ FILES \in Nat
    <3>1. file \in 0 .. FILES /\ FILES \in Nat /\ Sizes \subseteq Nat
      BY <1>2, SizesLemma DEF ServerTyped
    <3> QED
      BY <1>4, <2>1, <3>1
  <2>3. m \in Messages
    BY <2>1, <2>2 DEF Messages, InitialMessages
  <2>4. m.kind = "initial" /\ m.file = file'
    OBVIOUS
  <2> HIDE DEF m
  <2>5. outbox' \in Seq(Messages) /\ Len(outbox') = 1 /\ outbox'[1] = m
    BY <2>1, <2>3
  <2>6. source \in Seq(Messages) /\ n \in Nat
    BY PathFacts
  <2>7. /\ Len(source') = n + 1 /\ source'[n + 1] = m
        /\ \A i \in 1 .. n : source'[i] = source[i]
    <3>1. /\ Len(source') = n + 1
          /\ \A i \in 1 .. n + 1 : source'[i] = IF i <= n THEN source[i] ELSE outbox'[i - n]
      BY <2>1, <2>5, <2>6, ConcatProperties
    <3>2. n + 1 \in 1 .. n + 1 /\ ~(n + 1 <= n) /\ (n + 1) - n = 1
      BY <2>6
    <3> HIDE DEF n
    <3>3. \A i \in 1 .. n : source'[i] = source[i]
      BY <2>6, <3>1 DEF n
    <3> QED
      BY <2>5, <3>1, <3>2, <3>3
  <2>8. ServerTyped'
    <3>1. readBytes' <= fileSize' + CHUNK /\ fileSize' \in Nat /\ readBytes' \in Nat
      <4> DEFINE s == fileSize'
      <4>1. CHUNK \in Nat
        BY SizesLemma
      <4>2. readBytes' = 0 /\ s \in Nat
        BY <2>1, <2>2
      <4> HIDE DEF s
      <4>3. 0 <= s + CHUNK
        BY <4>1, <4>2
      <4> QED
        BY <4>2, <4>3 DEF s
    <3>2. file' \in 0 .. FILES
      BY <2>2
    <3>2a. size' \in Sizes \union {0} /\ eof' \in BOOLEAN
      BY <2>1
    <3>3. request.compressor = "COPY" /\ request.mode \in {"compress", "train"} => request.level = -1
      BY <1>1, <1>2 DEF ServerTyped
    <3>4. Len(outbox') <= 2 /\ stage' = "chunk"
      BY <2>1, <2>5
    <3> QED
      BY <1>1, <1>2, <2>5, <3>1, <3>2, <3>2a, <3>3, <3>4 DEF ServerTyped
  <2>9. ServerInv'
    <3>1. HasNextChunk'
      BY <2>1, <2>2 DEF HasNextChunk
    <3>2. IsInitial(source'[n + 1]) /\ source'[n + 1].file = file'
      BY <2>4, <2>7 DEF IsInitial
    <3>3. ~IsHeader(source'[n + 1]) /\ ~IsChunk(source'[n + 1])
      BY <3>2 DEF IsInitial, IsHeader, IsChunk
    <3>4. file' # 0 /\ n + 1 > 0
      BY <2>2, <2>6
    <3> HIDE DEF n
    <3> QED
      BY <2>1, <2>7, <3>1, <3>2, <3>3, <3>4 DEF ServerInv
  <2>10. Placed(source', n + 1)
    <3>1. ~IsHeader(m) /\ ~IsChunk(m)
      BY <2>4 DEF IsHeader, IsChunk
    <3>2. CASE n = 0
      BY <2>7, <3>1, <3>2 DEF Placed
    <3>3. CASE n # 0
      <4>1. n > 0 /\ n \in 1 .. n /\ ~IsHeader(source[n]) /\ ~IsInitial(source[n])
        BY <1>1, <1>2, <2>6, <3>3 DEF ServerInv
      <4>2. source[n] \in Messages
        BY <2>6, <4>1, ElementOfSeq
      <4>3. IsChunk(source[n])
        BY <4>1, <4>2, MessageKinds DEF IsInitial, IsHeader, IsChunk
      <4>4. source[n - 1].last
        BY <1>1, <1>2, <4>1, <4>3 DEF ServerInv
      <4>5. Placed(source, n)
        BY <4>1 DEF PathInv, Shaped
      <4>6. n > 2
        BY <4>3, <4>5 DEF Placed
      <4>7. /\ (n + 1) - 1 = n /\ (n + 1) - 2 = n - 1 /\ n - 1 \in 1 .. n /\ n + 1 > 3
        BY <2>6, <4>6
      <4>8. source'[(n + 1) - 1] = source[n] /\ source'[(n + 1) - 2] = source[n - 1]
        BY <2>7, <4>1, <4>7
      <4> QED
        BY <2>7, <3>1, <4>3, <4>4, <4>7, <4>8 DEF Placed
    <3> QED
      BY <3>2, <3>3
  <2>11. \A i \in Len(source) + 1 .. Len(source) + Len(outbox') : Placed(source', i)
    <3>1. \A i \in n + 1 .. n + 1 : i = n + 1
      BY <2>6
    <3> QED
      BY <2>5, <2>10, <3>1
  <2> QED
    <3>1. source' = Cat(source, outbox')
      BY <2>1 DEF Cat
    <3> QED
      BY <1>1, <2>5, <2>8, <2>9, <2>11, <3>1, PathMade
<1> QED
  BY <1>3, <1>4

LEMMA PathGetNextChunk ==
  ASSUME PathInv, ConnectionInv, GetNextChunk
  PROVE  PathInv'
<1> DEFINE count == IF size <= readBytes THEN 0
                    ELSE IF size - readBytes < CHUNK THEN size - readBytes ELSE CHUNK
           piece == [file |-> file, from |-> readBytes, size |-> count]
           n == Len(source)
<1>1. /\ stage = "chunk" /\ outbox = <<>> /\ HasNextChunk
      /\ readBytes' = readBytes + count /\ eof' = (count < CHUNK)
      /\ request' = request /\ stage' = stage /\ file' = file /\ size' = size
      /\ fileSize' = fileSize /\ bandwidth' = bandwidth
      /\ UNCHANGED <<transit, clientVars>>
  BY DEF GetNextChunk, Idle, socketVars, meterVars
<1>2. PICK result \in Results(piece) :
        /\ outbox' = <<[kind |-> "header", by |-> result.chunk.by,
                        last |-> eof' \/ readBytes' >= fileSize, len |-> 1],
                       [kind |-> "chunk", chunk |-> result.chunk, len |-> result.chunk.len]>>
        /\ source' = source \o outbox'
        /\ turn' = IF request.mode # "round robin" \/ result.threw THEN turn ELSE NextTurn
  BY DEF GetNextChunk
<1>3. ServerTyped /\ ServerInv
  BY DEF PathInv
<1>4. /\ CHUNK \in Nat \ {0} /\ size \in Nat /\ readBytes \in Nat /\ fileSize \in Nat
      /\ file \in 0 .. FILES /\ readBytes < fileSize
  <2>1. size \in Nat
    <3>1. size \in Sizes \union {0}
      BY <1>3 DEF ServerTyped
    <3>2. Sizes \subseteq Nat
      BY SizesLemma
    <3> QED
      BY <3>1, <3>2
  <2>2. readBytes \in Nat /\ fileSize \in Nat /\ file \in 0 .. FILES
    BY <1>3 DEF ServerTyped
  <2> QED
    BY <1>1, <2>1, <2>2, SizesLemma DEF HasNextChunk
<1>5. count \in 0 .. CHUNK
  <2> DEFINE c == CHUNK
  <2>1. c \in Nat
    BY <1>4
  <2> SUFFICES (IF size <= readBytes THEN 0
                ELSE IF size - readBytes < c THEN size - readBytes ELSE c) \in 0 .. c
    OBVIOUS
  <2> HIDE DEF c
  <2> QED
    BY <1>4, <2>1
<1> HIDE DEF count
<1>6. /\ piece \in Piece
      /\ piece.file = file /\ piece.from = readBytes /\ piece.size = count
  BY <1>4, <1>5 DEF Piece
<1> HIDE DEF piece
<1> DEFINE chunk == result.chunk
           isLast == eof' \/ readBytes' >= fileSize
           h == [kind |-> "header", by |-> chunk.by, last |-> isLast, len |-> 1]
           m == [kind |-> "chunk", chunk |-> chunk, len |-> chunk.len]
<1>7. /\ chunk \in Chunks /\ chunk.piece = piece /\ chunk.by \in Codecs \union {"COPY"}
      /\ chunk.len \in 0 .. OUT
  BY <1>1, <1>2, <1>3, <1>6, ResultsLemma
<1>8. outbox' = <<h, m>> /\ source' = source \o outbox'
  BY <1>2
<1>9. isLast \in BOOLEAN
  OBVIOUS
<1>10. isLast <=> ~HasNextChunk'
  <2>1. readBytes' \in Nat /\ fileSize' = fileSize
    BY <1>1, <1>4, <1>5
  <2> QED
    BY <1>4, <2>1 DEF HasNextChunk
<1>11. ~isLast => count = CHUNK
  <2>1. ~isLast => ~(count < CHUNK)
    BY <1>1
  <2> HIDE DEF isLast
  <2> QED
    BY <1>4, <1>5, <2>1
<1> HIDE DEF chunk, isLast
<1>12. h \in Messages /\ h.kind = "header" /\ h.by = chunk.by /\ h.last = isLast
  <2>1. h \in ChunkHeaders
    BY <1>7, <1>9 DEF ChunkHeaders
  <2> QED
    BY <2>1 DEF Messages
<1>13. m \in Messages /\ m.kind = "chunk" /\ m.chunk = chunk
  <2>1. m \in [kind : {"chunk"}, chunk : Chunks, len : 0 .. OUT] /\ m.len = m.chunk.len
    BY <1>7
  <2>2. m \in ChunkMessages
    BY <2>1 DEF ChunkMessages
  <2> QED
    BY <2>2 DEF Messages
<1> HIDE DEF h, m
<1>14. outbox' \in Seq(Messages) /\ Len(outbox') = 2 /\ outbox'[1] = h /\ outbox'[2] = m
  BY <1>8, <1>12, <1>13
<1>15. source \in Seq(Messages) /\ n \in Nat
  BY PathFacts
<1>16. /\ Len(source') = n + 2 /\ source'[n + 1] = h /\ source'[n + 2] = m
       /\ \A i \in 1 .. n : source'[i] = source[i]
  <2>1. /\ Len(source') = n + 2
        /\ \A i \in 1 .. n + 2 : source'[i] = IF i <= n THEN source[i] ELSE outbox'[i - n]
    BY <1>8, <1>14, <1>15, ConcatProperties
  <2>2. /\ n + 1 \in 1 .. n + 2 /\ ~(n + 1 <= n) /\ (n + 1) - n = 1
        /\ n + 2 \in 1 .. n + 2 /\ ~(n + 2 <= n) /\ (n + 2) - n = 2
    BY <1>15
  <2> HIDE DEF n
  <2>3. \A i \in 1 .. n : source'[i] = source[i]
    BY <1>15, <2>1 DEF n
  <2> QED
    BY <1>14, <2>1, <2>2, <2>3
<1> USE DEF IsInitial, IsHeader, IsChunk
<1>17. /\ n > 0 /\ n \in 1 .. n /\ source[n] \in Messages
       /\ IsInitial(source[n]) \/ IsChunk(source[n])
  <2>1. n > 0 /\ ~IsHeader(source[n])
    BY <1>1, <1>3 DEF ServerInv
  <2>2. n \in 1 .. n
    BY <1>15, <2>1
  <2>3. source[n] \in Messages
    BY <1>15, <2>2, ElementOfSeq
  <2> QED
    BY <2>1, <2>2, <2>3, MessageKinds
<1>18. ServerTyped'
  <2>1. turn' \in 1 .. Len(RoundRobin)
    <3>1. turn \in 1 .. Len(RoundRobin) /\ Len(RoundRobin) \in Nat
      BY <1>3, RoundRobinLemma DEF ServerTyped
    <3>2. NextTurn \in 1 .. Len(RoundRobin)
      BY <3>1 DEF NextTurn
    <3> QED
      BY <1>2, <3>1, <3>2
  <2>2. readBytes' \in Nat /\ readBytes' <= fileSize' + CHUNK
    <3> DEFINE c == CHUNK
    <3>1. /\ c \in Nat /\ count \in 0 .. c /\ readBytes' = readBytes + count
          /\ fileSize' = fileSize
      BY <1>1, <1>4, <1>5
    <3> HIDE DEF c
    <3>2. readBytes' \in Nat /\ readBytes' <= fileSize' + c
      BY <1>4, <3>1
    <3> QED
      BY <3>2 DEF c
  <2>3. eof' \in BOOLEAN
    BY <1>1
  <2>4. outbox' \in Seq(Messages) /\ Len(outbox') <= 2
    BY <1>14
  <2>5. /\ stage' = stage /\ file' = file /\ size' = size /\ fileSize' = fileSize
        /\ request' = request /\ bandwidth' = bandwidth
    BY <1>1
  <2> QED
    BY <1>3, <2>1, <2>2, <2>3, <2>4, <2>5 DEF ServerTyped
<1>19. ServerInv'
  <2>1. (n + 2) - 1 = n + 1 /\ n + 2 > 0
    BY <1>15
  <2>2. file # 0 /\ stage' = "chunk" /\ file' = file
    BY <1>1, <1>3, <1>17 DEF ServerInv
  <2>3. IsChunk(source'[n + 2]) /\ ~IsHeader(source'[n + 2]) /\ ~IsInitial(source'[n + 2])
    BY <1>13, <1>16
  <2>4. source'[n + 1].last <=> ~HasNextChunk'
    BY <1>10, <1>12, <1>16
  <2>5. /\ source'[n + 2].chunk.piece.file = file
        /\ source'[n + 2].chunk.piece.from + source'[n + 2].chunk.piece.size = readBytes'
    BY <1>1, <1>6, <1>7, <1>13, <1>16
  <2> HIDE DEF n
  <2> QED
    BY <1>16, <2>1, <2>2, <2>3, <2>4, <2>5 DEF ServerInv
<1>20. Placed(source', n + 1)
  <2>1. ~IsInitial(h) /\ ~IsChunk(h) /\ n + 1 > 1 /\ (n + 1) - 1 = n
    BY <1>12, <1>15, <1>17
  <2>2. source'[n] = source[n]
    BY <1>16, <1>17
  <2>3. CASE IsInitial(source[n])
    BY <1>16, <2>1, <2>2, <2>3 DEF Placed
  <2>4. CASE IsChunk(source[n])
    <3>1. ~source[n - 1].last
      BY <1>1, <1>3, <1>17, <2>4 DEF ServerInv
    <3>2. Placed(source, n)
      BY <1>17 DEF PathInv, Shaped
    <3>3. n > 2
      BY <2>4, <3>2 DEF Placed
    <3>4. n + 1 > 3 /\ (n + 1) - 2 = n - 1 /\ n - 1 \in 1 .. n
      BY <1>15, <3>3
    <3>5. source'[n - 1] = source[n - 1]
      BY <1>16, <3>4
    <3> QED
      BY <1>16, <2>1, <2>2, <2>4, <3>1, <3>4, <3>5 DEF Placed
  <2> QED
    BY <1>17, <2>3, <2>4
<1>21. Placed(source', n + 2)
  <2>1. /\ ~IsInitial(m) /\ ~IsHeader(m) /\ IsHeader(h) /\ n + 2 > 2
        /\ (n + 2) - 1 = n + 1 /\ (n + 2) - 2 = n
    BY <1>12, <1>13, <1>15, <1>17
  <2>2. source'[n] = source[n]
    BY <1>16, <1>17
  <2>3. /\ h.by = m.chunk.by
        /\ ~h.last => m.chunk.piece.size = CHUNK
        /\ m.chunk.piece.from = readBytes /\ m.chunk.piece.file = file
    BY <1>6, <1>7, <1>11, <1>12, <1>13
  <2>4. IsInitial(source[n]) => readBytes = 0 /\ source[n].file = file
    BY <1>3, <1>17 DEF ServerInv
  <2>5. IsChunk(source[n]) =>
          /\ source[n].chunk.piece.file = file
          /\ source[n].chunk.piece.from + source[n].chunk.piece.size = readBytes
    BY <1>3, <1>17 DEF ServerInv
  <2> HIDE DEF n, IsInitial, IsHeader, IsChunk
  <2> QED
    BY <1>16, <2>1, <2>2, <2>3, <2>4, <2>5 DEF Placed
<1>22. \A i \in Len(source) + 1 .. Len(source) + Len(outbox') : Placed(source', i)
  <2>1. \A i \in n + 1 .. n + 2 : i = n + 1 \/ i = n + 2
    BY <1>15
  <2> QED
    BY <1>14, <1>20, <1>21, <2>1
<1>23. source' = Cat(source, outbox')
  BY <1>8 DEF Cat
<1> QED
  BY <1>1, <1>14, <1>18, <1>19, <1>22, <1>23, PathMade

-------------------------------------------------------------------------------
(* The steps of the connection                                             *)

\* A message is on its way instead of waiting.
LEMMA PathSends ==
  ASSUME PathInv, ConnectionInv, EstimateInv, Send \/ MeasureAndSend
  PROVE  PathInv'
<1> DEFINE m == Head(outbox)
           n == Len(source)
           t == Len(transit)
           o == Len(outbox)
<1>1. /\ outbox # <<>> /\ transit' = Append(transit, m) /\ outbox' = Tail(outbox)
      /\ UNCHANGED <<serverVars, clientVars, source>>
  BY DEF Send, MeasureAndSend, StartSend
<1>2. /\ source \in Seq(Messages) /\ transit \in Seq(Messages) /\ outbox \in Seq(Messages)
      /\ n \in Nat /\ t \in Nat /\ o \in Nat /\ Handled \in Nat
      /\ Handled + t + o = n
  BY PathFacts
<1>3. o \in Nat \ {0} /\ m = outbox[1] /\ m \in Messages
      /\ outbox' \in Seq(Messages) /\ Len(outbox') = o - 1
      /\ \A i \in 1 .. o - 1 : outbox'[i] = outbox[i + 1]
  BY <1>1, <1>2, HeadTailProperties, EmptySeq
<1>4. /\ transit' \in Seq(Messages) /\ Len(transit') = t + 1
      /\ \A i \in 1 .. t : transit'[i] = transit[i]
      /\ transit'[t + 1] = m
  BY <1>1, <1>2, <1>3, AppendProperties
<1> HIDE DEF m
<1>5. Handled' = Handled
  <2>1. source' = source /\ Len(source') = n
    BY <1>1
  <2>2. Handled' = n - (t + 1) - (o - 1)
    BY <1>3, <1>4, <2>1 DEF Handled
  <2> HIDE DEF n, t, o
  <2> QED
    BY <1>2, <1>3, <2>2
<1>6. PendingInv'
  <2>1. source' = source /\ Len(source') = n
    BY <1>1
  <2>2. \A i \in 1 .. t : transit[i] = source[Handled + i]
    BY DEF PathInv, PendingInv
  <2>3. \A i \in 1 .. o : outbox[i] = source[Handled + t + i]
    BY DEF PathInv, PendingInv
  <2> HIDE DEF n, t, o
  <2>4. ASSUME NEW i \in 1 .. t + 1
        PROVE  transit'[i] = source[Handled + i]
    <3>1. CASE i = t + 1
      <4>1. 1 \in 1 .. o /\ Handled + t + 1 = Handled + i
        BY <1>2, <1>3, <3>1
      <4> QED
        BY <1>3, <1>4, <2>3, <3>1, <4>1
    <3>2. CASE i \in 1 .. t
      BY <1>4, <2>2, <3>2
    <3> QED
      BY <1>2, <3>1, <3>2
  <2>5. ASSUME NEW i \in 1 .. o - 1
        PROVE  outbox'[i] = source[Handled + (t + 1) + i]
    <3>1. i + 1 \in 1 .. o /\ Handled + t + (i + 1) = Handled + (t + 1) + i
      BY <1>2, <1>3
    <3>2. outbox'[i] = outbox[i + 1]
      BY <1>3
    <3>3. outbox[i + 1] = source[Handled + t + (i + 1)]
      BY <2>3, <3>1
    <3> QED
      BY <3>1, <3>2, <3>3
  <2>6. (t + 1) + (o - 1) <= n
    BY <1>2, <1>3
  <2> QED
    BY <1>3, <1>4, <1>5, <2>1, <2>4, <2>5, <2>6 DEF PendingInv
<1>7. bandwidth' \in 0 .. 58
  <2>1. CASE Send
    BY <2>1 DEF Send, PathInv, ServerTyped
  <2>2. CASE MeasureAndSend
    <3> DEFINE left == (bytesSent - Len(kernel)) % MODULUS
    <3>1. bandwidth' = BandwidthLevel(left)
      BY <2>2 DEF MeasureAndSend
    <3>2. left \in Nat
      <4>1. bytesSent - Len(kernel) \in Int
        BY DEF EstimateInv, ConnectionInv, ConnectionTyped
      <4>2. MODULUS \in Nat \ {0}
        BY SizesLemma
      <4> QED
        BY <4>1, <4>2, Z3
    <3> HIDE DEF left
    <3> QED
      BY <3>1, <3>2, BandwidthLemma
  <2> QED
    BY <2>1, <2>2
<1>8. ServerTyped'
  <2>1. Len(outbox') <= 2
    <3>1. o <= 2
      BY DEF PathInv, ServerTyped
    <3> HIDE DEF o
    <3> QED
      BY <1>3, <3>1
  <2> QED
    BY <1>1, <1>3, <1>7, <2>1 DEF PathInv, ServerTyped, serverVars
<1>9. ServerInv' /\ Shaped(source')
  BY <1>1 DEF PathInv, ServerInv, HasNextChunk, serverVars
<1>10. ClientTyped' /\ ClientInv' /\ BufferInv' /\ WrittenInv'
  BY <1>1, <1>2, <1>5, ClientKept DEF PathInv
<1> QED
  BY <1>6, <1>8, <1>9, <1>10 DEF PathInv

LEMMA PathMoves ==
  ASSUME PathInv, ConnectionInv, Write \/ Read
  PROVE  PathInv'
<1>1. /\ transit' = transit /\ outbox' = outbox /\ source' = source
      /\ bandwidth' = bandwidth
      /\ UNCHANGED <<serverVars, clientVars, source>>
      /\ UNCHANGED <<transit, outbox, clientVars, source>>
  BY DEF Write, Read, WriteSome, ReadSome, meterVars
<1>2. ServerTyped'
  BY <1>1 DEF PathInv, ServerTyped, serverVars
<1>3. ServerInv'
  BY <1>1 DEF PathInv, ServerInv, HasNextChunk, serverVars
<1> QED
  BY <1>1, <1>2, <1>3, PathServer

-------------------------------------------------------------------------------
(* The steps of the client                                                 *)

LEMMA ReceivedLemma ==
  ASSUME PathInv, ConnectionInv, NEW m, Receive(m)
  PROVE  /\ Handled + 1 \in 1 .. Len(source)
         /\ m = source[Handled + 1] /\ m \in Messages
         /\ transit # <<>> /\ transit' \in Seq(Messages)
         /\ Len(transit) \in Nat \ {0} /\ Len(transit') = Len(transit) - 1
         /\ \A i \in 1 .. Len(transit') : transit'[i] = source[(Handled + 1) + i]
<1>1. transit # <<>> /\ m = transit[1] /\ m \in Messages /\ transit' = Tail(transit)
  BY ConnectionReceive
<1> DEFINE t == Len(transit)
<1>2. /\ transit \in Seq(Messages) /\ Handled \in Nat /\ t \in Nat
      /\ Len(outbox) \in Nat /\ Len(source) \in Nat
      /\ Handled + t + Len(outbox) = Len(source)
  BY PathFacts
<1>3. /\ t \in Nat \ {0} /\ transit' \in Seq(Messages) /\ Len(transit') = t - 1
      /\ \A i \in 1 .. t - 1 : transit'[i] = transit[i + 1]
  BY <1>1, <1>2, EmptySeq, HeadTailProperties
<1>4. \A i \in 1 .. t : transit[i] = source[Handled + i]
  BY DEF PathInv, PendingInv
<1> HIDE DEF t
<1>5. Handled + 1 \in 1 .. Len(source) /\ 1 \in 1 .. t
  BY <1>2, <1>3
<1>6. m = source[Handled + 1]
  BY <1>1, <1>4, <1>5
<1>7. \A i \in 1 .. t - 1 : transit'[i] = source[(Handled + 1) + i]
  <2> TAKE i \in 1 .. t - 1
  <2>1. i + 1 \in 1 .. t /\ Handled + (i + 1) = (Handled + 1) + i
    BY <1>2, <1>3
  <2>2. transit[i + 1] = source[Handled + (i + 1)]
    BY <1>4, <2>1
  <2> QED
    BY <1>3, <2>1, <2>2
<1> QED
  BY <1>1, <1>3, <1>5, <1>6, <1>7 DEF t

\* What comes next is what the client expects.
LEMMA ExpectedLemma ==
  ASSUME PathInv, Handled \in Nat, Handled + 1 \in 1 .. Len(source), source \in Seq(Messages)
  PROVE  /\ expects = "initial" => IsInitial(source[Handled + 1])
         /\ expects = "header"  => IsHeader(source[Handled + 1])
         /\ expects = "chunk"   => IsHeader(source[Handled]) /\ IsChunk(source[Handled + 1])
<1> DEFINE n == Len(written)
<1>1. /\ n \in Nat
      /\ Handled > 0 => 2 * n + 1 <= Handled
  BY WrittenBounds DEF PathInv
<1>2. /\ expects = "header" => Handled = 2 * n + 1
      /\ expects = "chunk"  => Handled = 2 * n + 2
      /\ expects = "initial" /\ closed  => Handled = 2 * n + 1 /\ n > 0 /\ source[2 * n].last
      /\ expects = "initial" /\ ~closed => Handled = 0 /\ n = 0
      /\ expects # "initial" => ~closed
      /\ Handled > 0 => IsInitial(source[1])
      /\ \A k \in 1 .. n :
           /\ IsHeader(source[2 * k]) /\ IsChunk(source[2 * k + 1])
           /\ k < n \/ ~closed => ~source[2 * k].last
  BY DEF PathInv, ClientInv
<1> HIDE DEF n
<1>3. ASSUME NEW i \in 1 .. Len(source)
      PROVE  /\ Placed(source, i)
             /\ IsInitial(source[i]) \/ IsHeader(source[i]) \/ IsChunk(source[i])
             /\ ~(IsInitial(source[i]) /\ IsHeader(source[i]))
             /\ ~(IsInitial(source[i]) /\ IsChunk(source[i]))
             /\ ~(IsHeader(source[i]) /\ IsChunk(source[i]))
  <2>1. source[i] \in Messages
    BY ElementOfSeq
  <2>2. source[i].kind \in {"initial", "header", "chunk"}
    BY <2>1, MessageKinds
  <2> QED
    BY <2>2 DEF PathInv, Shaped, IsInitial, IsHeader, IsChunk
<1>4. ASSUME expects = "initial"
      PROVE  IsInitial(source[Handled + 1])
  <2>1. CASE ~closed
    <3>1. Handled + 1 = 1
      BY <1>2, <1>4, <2>1
    <3>2. ~IsHeader(source[Handled + 1]) /\ ~IsChunk(source[Handled + 1])
      BY <1>3, <3>1 DEF Placed
    <3> QED
      BY <1>3, <3>2
  <2>2. CASE closed
    <3>1. Handled = 2 * n + 1 /\ n \in 1 .. n /\ source[2 * n].last
      BY <1>1, <1>2, <1>4, <2>2
    <3>2. /\ IsChunk(source[Handled]) /\ (Handled + 1) - 1 = Handled
          /\ (Handled + 1) - 2 = 2 * n /\ Handled \in 1 .. Len(source)
      BY <1>1, <1>2, <3>1
    <3>3. ~IsInitial(source[Handled]) /\ ~IsHeader(source[Handled])
      BY <1>3, <3>2
    <3>4. Placed(source, Handled + 1)
      BY <1>3
    <3>5. ~IsHeader(source[Handled + 1])
      BY <3>1, <3>2, <3>3, <3>4 DEF Placed
    <3>6. ~IsChunk(source[Handled + 1])
      BY <3>2, <3>3, <3>4 DEF Placed
    <3> QED
      BY <1>3, <3>5, <3>6
  <2> QED
    BY <2>1, <2>2
<1>5. ASSUME 2 * n + 2 \in 1 .. Len(source), ~closed, Handled > 0
      PROVE  IsHeader(source[2 * n + 2])
  <2> DEFINE i == 2 * n + 2
  <2>1. i - 1 = 2 * n + 1 /\ i - 2 = 2 * n /\ i - 1 \in 1 .. Len(source)
    BY <1>1, <1>5
  <2>2. Placed(source, i)
    BY <1>3, <1>5
  <2>3. CASE n = 0
    <3>1. i - 1 = 1 /\ i = 2
      BY <2>3
    <3>2. IsInitial(source[i - 1]) /\ ~IsHeader(source[i - 1]) /\ ~IsChunk(source[i - 1])
      BY <1>2, <1>3, <1>5, <2>1, <3>1
    <3> HIDE DEF i
    <3>3. ~IsInitial(source[i]) /\ ~IsChunk(source[i])
      BY <2>2, <3>1, <3>2 DEF Placed
    <3> QED
      BY <1>3, <1>5, <3>3 DEF i
  <2>4. CASE n # 0
    <3>1. n \in 1 .. n
      BY <1>1, <2>4
    <3>2. IsChunk(source[i - 1]) /\ ~source[i - 2].last
      BY <1>2, <1>5, <2>1, <3>1
    <3>3. ~IsHeader(source[i - 1]) /\ i # 1
      BY <1>1, <1>3, <2>1, <3>2
    <3> HIDE DEF i
    <3>4. ~IsInitial(source[i]) /\ ~IsChunk(source[i])
      BY <2>2, <3>2, <3>3 DEF Placed
    <3> QED
      BY <1>3, <1>5, <3>4 DEF i
  <2> QED
    BY <2>3, <2>4
<1>6. ASSUME expects = "header"
      PROVE  IsHeader(source[Handled + 1])
  <2>1. Handled + 1 = 2 * n + 2 /\ ~closed /\ Handled > 0
    BY <1>1, <1>2, <1>6
  <2> QED
    BY <1>5, <2>1
<1>7. ASSUME expects = "chunk"
      PROVE  IsHeader(source[Handled]) /\ IsChunk(source[Handled + 1])
  <2>1. Handled = 2 * n + 2 /\ ~closed /\ Handled > 0 /\ Handled \in 1 .. Len(source)
    BY <1>1, <1>2, <1>7
  <2>2. IsHeader(source[Handled])
    BY <1>5, <2>1
  <2>3. /\ ~IsInitial(source[Handled]) /\ ~IsChunk(source[Handled])
        /\ (Handled + 1) - 1 = Handled /\ Handled + 1 # 1
    BY <1>3, <2>1, <2>2
  <2>4. Placed(source, Handled + 1)
    BY <1>3
  <2>5. ~IsInitial(source[Handled + 1]) /\ ~IsHeader(source[Handled + 1])
    BY <2>3, <2>4 DEF Placed
  <2> QED
    BY <1>3, <2>2, <2>5
<1> QED
  BY <1>4, <1>6, <1>7

LEMMA PathReceiveInitial ==
  ASSUME PathInv, ConnectionInv, NEW m, ReceiveInitial(m)
  PROVE  PathInv'
<1> DEFINE n == Len(source)
           s == SubSeq(source, Handled + 1, n)
<1>1. /\ Receive(m) /\ expects = "initial"
      /\ decompressed' = [capacity |-> CHUNK, piece |-> Nothing]
      /\ current' = [file |-> m.file, size |-> m.size] /\ bytesReceived' = 0
      /\ written' = <<>> /\ closed' = FALSE /\ corrupted' = FALSE
      /\ source' = s /\ expects' = "header"
      /\ outbox' = outbox /\ header' = header /\ bandwidth' = bandwidth
      /\ UNCHANGED serverVars
  BY DEF ReceiveInitial, meterVars
<1>2. /\ source \in Seq(Messages) /\ Handled \in Nat /\ n \in Nat
      /\ Len(transit) \in Nat /\ Len(outbox) \in Nat /\ outbox \in Seq(Messages)
      /\ Handled + Len(transit) + Len(outbox) = n
  BY PathFacts
<1>3. /\ Handled + 1 \in 1 .. n
      /\ m = source[Handled + 1] /\ m \in Messages
      /\ transit' \in Seq(Messages)
      /\ Len(transit) \in Nat \ {0} /\ Len(transit') = Len(transit) - 1
      /\ \A i \in 1 .. Len(transit') : transit'[i] = source[(Handled + 1) + i]
  BY <1>1, ReceivedLemma
<1>4. IsInitial(m)
  BY <1>1, <1>2, <1>3, ExpectedLemma
<1>5. m \in InitialMessages /\ m.file \in Nat /\ m.size \in Nat
  <2>1. m \in InitialMessages
    BY <1>3, <1>4, MessageKinds DEF IsInitial
  <2> QED
    BY <2>1, SizesLemma DEF InitialMessages
<1> DEFINE h == Handled
<1>6. /\ s \in Seq(Messages) /\ Len(s) = n - h
      /\ \A i \in 1 .. n - h : s[i] = source[h + i]
      /\ Shaped(s)
  <2>1. h < n /\ IsInitial(source[h + 1]) /\ Shaped(source)
    BY <1>2, <1>3, <1>4 DEF PathInv
  <2> HIDE DEF h
  <2> QED
    BY <1>2, <2>1, ShapedRest DEF h
<1>7. h \in Nat /\ h + 1 \in 1 .. n /\ h + Len(transit) + Len(outbox) = n
  BY <1>2, <1>3
<1>8. Len(source') = n - h /\ \A i \in 1 .. n - h : source'[i] = source[h + i]
  BY <1>1, <1>6
<1> HIDE DEF s, n
<1>9. Handled' = 1
  <2>1. Handled' = (n - h) - (Len(transit) - 1) - Len(outbox)
    BY <1>1, <1>3, <1>8 DEF Handled
  <2> HIDE DEF h
  <2> QED
    BY <1>2, <1>7, <2>1
<1>10. source'[1] = m
  <2>1. 1 \in 1 .. n - h
    <3> HIDE DEF h
    <3> QED
      BY <1>2, <1>7
  <2> QED
    BY <1>3, <1>8, <2>1
<1> HIDE DEF h
<1>11. PendingInv'
  <2>1. ASSUME NEW i \in 1 .. Len(transit')
        PROVE  transit'[i] = source'[1 + i]
    <3>1. 1 + i \in 1 .. n - h /\ h + (1 + i) = (h + 1) + i
      BY <1>2, <1>3, <1>7
    <3>2. transit'[i] = source[(h + 1) + i]
      BY <1>3 DEF h
    <3> QED
      BY <1>8, <3>1, <3>2
  <2>2. ASSUME NEW i \in 1 .. Len(outbox)
        PROVE  outbox[i] = source'[1 + Len(transit') + i]
    <3>1. /\ 1 + Len(transit') + i \in 1 .. n - h
          /\ h + (1 + Len(transit') + i) = h + Len(transit) + i
      BY <1>2, <1>3, <1>7
    <3>2. outbox[i] = source[h + Len(transit) + i]
      BY DEF h, PathInv, PendingInv
    <3>3. source'[1 + Len(transit') + i] = source[h + (1 + Len(transit') + i)]
      BY <1>8, <3>1
    <3> QED
      BY <3>1, <3>2, <3>3
  <2>3. Len(transit') + Len(outbox) <= n - h
    BY <1>2, <1>3, <1>7
  <2> QED
    BY <1>1, <1>8, <1>9, <2>1, <2>2, <2>3 DEF PendingInv
<1>12. ServerTyped'
  BY <1>1 DEF PathInv, ServerTyped, serverVars
<1>13. ServerInv'
  <2>1. /\ n - h \in 1 .. n /\ h + (n - h) = n
        /\ n - h # 1 => n - h - 1 \in 1 .. n - h /\ h + (n - h - 1) = n - 1
    BY <1>2, <1>7
  <2>2. source'[n - h] = source[n]
    BY <1>8, <2>1
  <2>3. IsChunk(source[n]) => source'[n - h - 1] = source[n - 1]
    <3>1. n - h # 1 => source'[n - h - 1] = source[n - 1]
      BY <1>8, <2>1
    <3>2. n - h = 1 => ~IsChunk(source[n])
      <4>1. n - h = 1 => source[n] = m
        BY <1>10, <2>2
      <4> QED
        BY <1>4, <4>1 DEF IsInitial, IsChunk
    <3> QED
      BY <3>1, <3>2
  <2>4. ServerInv /\ n > 0
    <3>1. n > 0
      BY <1>2, <1>7
    <3> QED
      BY <3>1 DEF PathInv
  <2>5. HasNextChunk' <=> HasNextChunk
    BY <1>1 DEF HasNextChunk, serverVars
  <2>6. stage' = stage /\ file' = file /\ readBytes' = readBytes
    BY <1>1 DEF serverVars
  <2>7. /\ ~(stage \in {"configure", "refused"} \/ file = 0)
        /\ ~IsHeader(source[n])
        /\ IsInitial(source[n]) =>
             /\ stage = "chunk" /\ HasNextChunk
             /\ readBytes = 0 /\ source[n].file = file
        /\ IsChunk(source[n]) =>
             /\ source[n - 1].last <=> ~HasNextChunk
             /\ stage # "chunk" => source[n - 1].last
             /\ source[n].chunk.piece.file = file
             /\ source[n].chunk.piece.from + source[n].chunk.piece.size = readBytes
    BY <2>4 DEF ServerInv, n
  <2>8. n - h > 0
    BY <2>1
  <2> QED
    BY <1>8, <2>2, <2>3, <2>5, <2>6, <2>7, <2>8 DEF ServerInv
<1>14. Len(written') = 0 /\ DOMAIN written' = {} /\ written' \in Seq(Piece)
  BY <1>1, EmptySeq, EmptyLemma
<1>15. ClientTyped'
  <2>1. Nothing \in Piece /\ Nothing.size = 0
    BY SizesLemma DEF Nothing, Piece
  <2>2. decompressed' \in [capacity : Nat, piece : Piece]
        /\ decompressed'.piece.size <= decompressed'.capacity
    BY <1>1, <2>1, SizesLemma
  <2>3. current' \in [file : Nat, size : Nat]
    BY <1>1, <1>5
  <2>4. source' \in Seq(Messages)
    BY <1>1, <1>6
  <2> QED
    BY <1>1, <1>14, <2>2, <2>3, <2>4 DEF PathInv, ClientTyped
<1>16. ClientInv'
  <2>1. 1 = 2 * 0 + 1
    OBVIOUS
  <2> QED
    BY <1>1, <1>4, <1>9, <1>10, <1>14, <2>1 DEF ClientInv
<1>17. BufferInv'
  BY <1>1, <1>14 DEF BufferInv, End
<1>18. WrittenInv'
  BY <1>1, <1>14 DEF WrittenInv
<1>19. Shaped(source')
  BY <1>1, <1>6
<1> QED
  BY <1>11, <1>12, <1>13, <1>15, <1>16, <1>17, <1>18, <1>19 DEF PathInv

\* The server while the client deals with a message of a file.
LEMMA PathReceived ==
  ASSUME PathInv, ConnectionInv, NEW m, Receive(m), outbox' = outbox, source' = source,
         UNCHANGED serverVars, bandwidth' = bandwidth
  PROVE  /\ Handled' = Handled + 1
         /\ PendingInv' /\ ServerTyped' /\ ServerInv' /\ Shaped(source')
<1>1. /\ Handled \in Nat /\ Len(source) \in Nat
      /\ Len(transit) \in Nat /\ Len(outbox) \in Nat
      /\ Handled + Len(transit) + Len(outbox) = Len(source)
  BY PathFacts
<1>2. /\ Len(transit) \in Nat \ {0} /\ Len(transit') = Len(transit) - 1
      /\ \A i \in 1 .. Len(transit') : transit'[i] = source[(Handled + 1) + i]
  BY ReceivedLemma
<1>3. Handled' = Handled + 1
  <2>1. Handled' = Len(source) - (Len(transit) - 1) - Len(outbox)
    BY <1>2 DEF Handled
  <2> DEFINE h == Handled'
             t == Len(transit)
             o == Len(outbox)
             n == Len(source)
  <2>2. /\ h = n - (t - 1) - o /\ Handled + t + o = n
        /\ Handled \in Nat /\ t \in Nat /\ o \in Nat /\ n \in Nat
    BY <1>1, <2>1
  <2> HIDE DEF h, t, o, n
  <2>3. h = Handled + 1
    BY <2>2
  <2> QED
    BY <2>3 DEF h
<1>4. PendingInv'
  <2>1. ASSUME NEW i \in 1 .. Len(outbox)
        PROVE  outbox[i] = source[(Handled + 1) + Len(transit') + i]
    <3>1. (Handled + 1) + Len(transit') + i = Handled + Len(transit) + i
      BY <1>1, <1>2
    <3>2. outbox[i] = source[Handled + Len(transit) + i]
      BY DEF PathInv, PendingInv
    <3> QED
      BY <3>1, <3>2
  <2>2. Len(transit') + Len(outbox) <= Len(source)
    BY <1>1, <1>2
  <2> QED
    BY <1>2, <1>3, <2>1, <2>2 DEF PendingInv
<1>5. ServerTyped'
  BY DEF PathInv, ServerTyped, serverVars
<1>6. ServerInv' /\ Shaped(source')
  BY DEF PathInv, ServerInv, HasNextChunk, serverVars
<1> QED
  BY <1>3, <1>4, <1>5, <1>6

LEMMA PathReceiveHeader ==
  ASSUME PathInv, ConnectionInv, NEW m, ReceiveHeader(m)
  PROVE  PathInv'
<1> DEFINE n == Len(written)
<1>1. /\ Receive(m) /\ expects = "header" /\ expects' = "chunk"
      /\ header' = [by |-> m.by, last |-> m.last]
      /\ decompressed' = decompressed /\ current' = current
      /\ bytesReceived' = bytesReceived /\ written' = written
      /\ closed' = closed /\ corrupted' = corrupted
      /\ source' = source /\ outbox' = outbox /\ bandwidth' = bandwidth
      /\ UNCHANGED serverVars
  BY DEF ReceiveHeader, meterVars
<1>2. /\ Handled' = Handled + 1
      /\ PendingInv' /\ ServerTyped' /\ ServerInv' /\ Shaped(source')
  BY <1>1, PathReceived
<1>3. /\ Handled \in Nat /\ source \in Seq(Messages) /\ Handled + 1 \in 1 .. Len(source)
      /\ m = source[Handled + 1] /\ m \in Messages
  BY <1>1, PathFacts, ReceivedLemma
<1>4. IsHeader(m)
  BY <1>1, <1>3, ExpectedLemma
<1>5. m.by \in Codecs \union {"COPY"} /\ m.last \in BOOLEAN
  <2>1. m \in ChunkHeaders
    BY <1>3, <1>4, MessageKinds DEF IsHeader
  <2> QED
    BY <2>1 DEF ChunkHeaders
<1>6. ClientTyped'
  <2>1. header' \in [by : Codecs \union {"COPY"}, last : BOOLEAN]
    BY <1>1, <1>5
  <2> QED
    BY <1>1, <2>1 DEF PathInv, ClientTyped
<1>7. ClientInv /\ BufferInv /\ WrittenInv /\ Len(written) \in Nat
  BY DEF PathInv, ClientTyped
<1>8. Handled = 2 * n + 1 /\ Handled > 0 /\ Handled' = 2 * n + 2 /\ Handled' > 0
  <2>1. Handled = 2 * n + 1
    BY <1>1, <1>7 DEF ClientInv
  <2> HIDE DEF n
  <2> QED
    BY <1>2, <1>3, <1>7, <2>1 DEF n
<1>9. header' = [by |-> source'[Handled'].by, last |-> source'[Handled'].last]
  BY <1>1, <1>2, <1>3
<1>10. \A k : End(k)' = End(k) /\ Chunk(k)' = Chunk(k) /\ Left(k)' = Left(k)
  BY <1>1 DEF End, Chunk, Left
<1>11. ClientInv'
  BY <1>1, <1>7, <1>8, <1>9, <1>10 DEF ClientInv
<1>12. BufferInv'
  BY <1>1, <1>7, <1>8 DEF BufferInv, End, Chunk
<1>13. WrittenInv'
  BY <1>1, <1>7 DEF WrittenInv, Left, Whole, Chunk
<1> QED
  BY <1>2, <1>6, <1>11, <1>12, <1>13 DEF PathInv

\* What decompress() restores of a chunk, and which chunks FPC restores.
LEMMA RestoredLemma ==
  ASSUME NEW c \in Chunks
  PROVE  /\ c.piece \in Piece
         /\ c.by = "COPY" => c.len = c.piece.size
         /\ Restored(c) \in Piece
         /\ Restored(c).file = c.piece.file /\ Restored(c).from = c.piece.from
         /\ Restored(c).size <= c.piece.size
         /\ ~Broken(c) => Restored(c) = c.piece
         /\ c.piece.size = CHUNK => ~Broken(c) /\ ~Refused(c)
         /\ Refused(c) => c.by # "COPY"
<1> DEFINE s == c.piece.size
           r == s - (s % DOUBLE)
<1>1. c.piece \in Piece /\ (c.by = "COPY" => c.len = c.piece.size)
  <2>1. CASE \E p \in Piece : c = Copied(p)
    BY <2>1 DEF Copied
  <2>2. CASE c \in [piece : Piece, by : Codecs, len : 1 .. OUT]
    <3>1. c.by # "COPY"
      BY <2>2 DEF Codecs, Leveled
    <3> QED
      BY <2>2, <3>1
  <2> QED
    BY <2>1, <2>2 DEF Chunks
<1>2. s \in 0 .. CHUNK /\ CHUNK \in Nat \ {0} /\ DOUBLE \in Nat \ {0} /\ CHUNK % DOUBLE = 0
  BY <1>1, SizesLemma DEF Piece
<1>3. c.piece = [file |-> c.piece.file, from |-> c.piece.from, size |-> s]
      /\ c.piece.file \in 0 .. FILES /\ c.piece.from \in Nat
  BY <1>1 DEF Piece
<1>4. Restored(c) = IF c.by = "FPC" THEN [c.piece EXCEPT !.size = r] ELSE c.piece
  BY <1>1 DEF Restored, Piece
<1>5. Broken(c) <=> c.by = "FPC" /\ s % DOUBLE # 0
  BY DEF Broken
<1>6. Refused(c) <=> c.by = "FPC" /\ s < DOUBLE
  BY DEF Refused
<1> HIDE DEF s
<1>7. r \in 0 .. s /\ (s % DOUBLE = 0 => r = s)
  <2>1. (s % DOUBLE) \in 0 .. s
    <3>1. s \in Nat
      BY <1>2
    <3> QED
      BY <1>2, <3>1, Z3
  <2> DEFINE q == s % DOUBLE
  <2>2. q \in 0 .. s
    BY <2>1
  <2> SUFFICES s - q \in 0 .. s /\ (q = 0 => s - q = s)
    OBVIOUS
  <2> HIDE DEF q
  <2> QED
    BY <1>2, <2>2
<1>8. s = CHUNK => s % DOUBLE = 0 /\ ~(s < DOUBLE)
  BY <1>2, Z3
<1> HIDE DEF r
<1>9. CASE c.by = "FPC"
  <2>1. Restored(c) = [file |-> c.piece.file, from |-> c.piece.from, size |-> r]
    BY <1>3, <1>4, <1>9
  <2>2. r \in 0 .. CHUNK
    BY <1>2, <1>7
  <2>3. Restored(c) \in Piece
    BY <1>3, <2>1, <2>2 DEF Piece
  <2>4. c.by # "COPY"
    BY <1>9
  <2>5. s % DOUBLE = 0 => Restored(c) = c.piece
    BY <1>3, <1>7, <2>1
  <2>6. Restored(c).size <= s
    BY <1>7, <2>1
  <2>7. Restored(c).file = c.piece.file /\ Restored(c).from = c.piece.from
    BY <2>1
  <2>8. ~Broken(c) => Restored(c) = c.piece
    BY <1>5, <1>9, <2>5
  <2>9. s = CHUNK => ~Broken(c) /\ ~Refused(c)
    BY <1>5, <1>6, <1>8
  <2>10. c.piece.size = s
    BY DEF s
  <2> QED
    BY <1>1, <2>3, <2>4, <2>6, <2>7, <2>8, <2>9, <2>10
<1>10. CASE c.by # "FPC"
  <2>1. Restored(c) = c.piece /\ c.piece.size <= c.piece.size
    BY <1>2, <1>4, <1>10 DEF s
  <2> QED
    BY <1>1, <1>5, <1>6, <1>10, <2>1
<1> QED
  BY <1>9, <1>10

\* What the client's buffer holds after a chunk is what the chunk leaves in the file.
LEMMA BufferLemma ==
  ASSUME NEW c \in Chunks, NEW len, NEW b, NEW d,
         b \in [capacity : Nat, piece : Piece], b.capacity = CHUNK, len = c.len,
         d = IF c.by = "COPY"
             THEN [capacity |-> len,
                   piece |-> IF c.by = "COPY" THEN c.piece ELSE Nothing]
             ELSE IF Decompresses(c.by, c, b.capacity)
             THEN [b EXCEPT !.piece = Restored(c)]
             ELSE b
  PROVE  /\ d \in [capacity : Nat, piece : Piece] /\ d.piece.size <= d.capacity
         /\ c.piece.size = CHUNK => d.capacity = CHUNK
         /\ d.piece = IF Refused(c) THEN b.piece
                      ELSE IF Broken(c) THEN Restored(c) ELSE c.piece
<1> DEFINE s == c.piece.size
           r == Restored(c).size
<1>1. /\ c.piece \in Piece /\ (c.by = "COPY" => len = s)
      /\ Restored(c) \in Piece /\ r <= s
      /\ ~Broken(c) => Restored(c) = c.piece
      /\ Refused(c) => c.by # "COPY"
  BY RestoredLemma
<1>2. s \in 0 .. CHUNK /\ r \in 0 .. CHUNK /\ CHUNK \in Nat
  BY <1>1, SizesLemma DEF Piece
<1>3. b.piece \in Piece /\ b.piece.size <= CHUNK
  BY SizesLemma DEF Piece
<1>4. Decompresses(c.by, c, CHUNK) <=> ~Refused(c)
  <2>1. Decompresses(c.by, c, CHUNK) <=> (r <= CHUNK /\ (c.by = "FPC" => s >= DOUBLE))
    BY DEF Decompresses
  <2>2. Refused(c) <=> c.by = "FPC" /\ s < DOUBLE
    BY DEF Refused
  <2>3. DOUBLE \in Nat
    BY SizesLemma
  <2> HIDE DEF s, r
  <2>4. r <= CHUNK /\ (s >= DOUBLE <=> ~(s < DOUBLE))
    BY <1>2, <2>3
  <2> QED
    BY <2>1, <2>2, <2>4
<1>5. CASE c.by = "COPY"
  <2>1. d = [capacity |-> s, piece |-> c.piece]
    BY <1>1, <1>5
  <2>2. ~Refused(c) /\ ~Broken(c)
    BY <1>1, <1>5 DEF Broken
  <2>3. d \in [capacity : Nat, piece : Piece] /\ d.capacity = s /\ d.piece = c.piece
    BY <1>1, <1>2, <2>1
  <2>4. s <= s
    BY <1>2
  <2> QED
    BY <2>2, <2>3, <2>4
<1>6. CASE c.by # "COPY" /\ ~Refused(c)
  <2>1. d = [b EXCEPT !.piece = Restored(c)]
    BY <1>4, <1>6
  <2>2. d \in [capacity : Nat, piece : Piece] /\ d.capacity = CHUNK /\ d.piece = Restored(c)
    BY <1>1, <2>1
  <2>3. r <= CHUNK
    BY <1>2
  <2> QED
    BY <1>1, <1>6, <2>2, <2>3
<1>7. CASE c.by # "COPY" /\ Refused(c)
  <2>1. d = b
    BY <1>4, <1>7
  <2> QED
    BY <1>3, <1>7, <2>1
<1> QED
  BY <1>1, <1>5, <1>6, <1>7

LEMMA PathReceiveChunk ==
  ASSUME PathInv, ConnectionInv, NEW m, ReceiveChunk(m)
  PROVE  PathInv'
<1> DEFINE n == Len(written)
           c == m.chunk
           d == decompressed'
<1>1. /\ Receive(m) /\ expects = "chunk"
      /\ written' = Append(written, d.piece)
      /\ bytesReceived' = bytesReceived + d.piece.size
      /\ closed' = header.last
      /\ corrupted' = (header.last /\ bytesReceived' # current.size)
      /\ expects' = IF header.last THEN "initial" ELSE "header"
      /\ header' = header /\ current' = current
      /\ source' = source /\ outbox' = outbox /\ bandwidth' = bandwidth
      /\ UNCHANGED serverVars
  BY DEF ReceiveChunk, meterVars
<1>2. /\ Handled' = Handled + 1
      /\ PendingInv' /\ ServerTyped' /\ ServerInv' /\ Shaped(source')
  BY <1>1, PathReceived
<1>3. /\ Handled \in Nat /\ source \in Seq(Messages) /\ Handled + 1 \in 1 .. Len(source)
      /\ m = source[Handled + 1] /\ m \in Messages
  BY <1>1, PathFacts, ReceivedLemma
<1>4. IsHeader(source[Handled]) /\ IsChunk(m)
  BY <1>1, <1>3, ExpectedLemma
<1>5. ClientTyped /\ ClientInv /\ BufferInv /\ WrittenInv
  BY DEF PathInv
<1>6. /\ n \in Nat /\ DOMAIN written = 1 .. n /\ written \in Seq(Piece)
      /\ header \in [by : Codecs \union {"COPY"}, last : BOOLEAN]
      /\ decompressed \in [capacity : Nat, piece : Piece]
      /\ bytesReceived \in Nat
  BY <1>5, LenProperties DEF ClientTyped
<1>7. /\ Handled = 2 * n + 2 /\ ~closed
      /\ header.by = source[Handled].by /\ header.last = source[Handled].last
      /\ current = [file |-> source[1].file, size |-> source[1].size]
      /\ IsInitial(source[1])
  <2>1. /\ Handled = 2 * n + 2 /\ ~closed
        /\ header = [by |-> source[Handled].by, last |-> source[Handled].last]
    BY <1>1, <1>5 DEF ClientInv
  <2>2. Handled > 0
    <3> HIDE DEF n
    <3> QED
      BY <1>6, <2>1
  <2>3. IsInitial(source[1]) /\ current = [file |-> source[1].file, size |-> source[1].size]
    BY <1>5, <2>2 DEF ClientInv
  <2> QED
    BY <2>1, <2>3
<1>8. \A k \in 1 .. n :
        /\ IsHeader(source[2 * k]) /\ IsChunk(source[2 * k + 1])
        /\ Chunk(k).piece.file = current.file
        /\ Chunk(k).piece.from = End(k - 1)
        /\ ~source[2 * k].last
        /\ written[k] = Chunk(k).piece
  BY <1>5, <1>7 DEF ClientInv
<1>9. m.len = c.len /\ c \in Chunks
  <2>1. m \in ChunkMessages
    BY <1>3, <1>4, MessageKinds DEF IsChunk
  <2> QED
    BY <2>1 DEF ChunkMessages
<1>10. Chunk(n + 1) = c /\ 2 * (n + 1) = Handled /\ 2 * (n + 1) + 1 = Handled + 1
  <2>1. 2 * (n + 1) = Handled /\ 2 * (n + 1) + 1 = Handled + 1
    <3> HIDE DEF n
    <3> QED
      BY <1>6, <1>7
  <2> QED
    BY <1>3, <2>1 DEF Chunk
<1>11. /\ header.by = c.by
       /\ ~header.last => c.piece.size = CHUNK
       /\ c.piece.from = End(n) /\ c.piece.file = current.file
  <2>1. Placed(source, Handled + 1)
    BY <1>3 DEF PathInv, Shaped
  <2>2. (Handled + 1) - 1 = Handled /\ (Handled + 1) - 2 = 2 * n + 1
    <3> HIDE DEF n
    <3> QED
      BY <1>3, <1>6, <1>7
  <2>3. /\ source[Handled].by = c.by
        /\ ~source[Handled].last => c.piece.size = CHUNK
        /\ IsInitial(source[2 * n + 1]) =>
             c.piece.from = 0 /\ c.piece.file = source[2 * n + 1].file
        /\ IsChunk(source[2 * n + 1]) =>
             /\ c.piece.from = source[2 * n + 1].chunk.piece.from + source[2 * n + 1].chunk.piece.size
             /\ c.piece.file = source[2 * n + 1].chunk.piece.file
    BY <1>3, <1>4, <2>1, <2>2 DEF Placed
  <2>4. CASE n = 0
    <3>1. 2 * n + 1 = 1
      BY <2>4
    <3> QED
      BY <1>7, <2>3, <2>4, <3>1 DEF End
  <2>5. CASE n # 0
    <3>1. n \in 1 .. n
      BY <1>6, <2>5
    <3>2. IsChunk(source[2 * n + 1]) /\ Chunk(n).piece.file = current.file
      BY <1>8, <3>1
    <3> QED
      BY <1>7, <2>3, <2>5, <3>2 DEF End, Chunk
  <2> QED
    BY <2>4, <2>5
<1>12. /\ decompressed.capacity = CHUNK
       /\ decompressed.piece = IF n = 0 THEN Nothing ELSE written[n]
       /\ bytesReceived = End(n)
  <2>1. Handled > 0
    <3> HIDE DEF n
    <3> QED
      BY <1>6, <1>7
  <2>2. written = <<>> <=> n = 0
    BY <1>6, EmptySeq
  <2> QED
    BY <1>5, <1>7, <2>1, <2>2 DEF BufferInv
<1>13. /\ d \in [capacity : Nat, piece : Piece] /\ d.piece.size <= d.capacity
       /\ c.piece.size = CHUNK => d.capacity = CHUNK
       /\ d.piece = IF Refused(c) THEN decompressed.piece
                    ELSE IF Broken(c) THEN Restored(c) ELSE c.piece
  <2>1. d = IF c.by = "COPY"
            THEN [capacity |-> m.len,
                  piece |-> IF c.by = "COPY" THEN c.piece ELSE Nothing]
            ELSE IF Decompresses(c.by, c, decompressed.capacity)
            THEN [decompressed EXCEPT !.piece = Restored(c)]
            ELSE decompressed
    BY <1>11 DEF ReceiveChunk
  <2> HIDE DEF c, d
  <2> QED
    BY <1>6, <1>9, <1>12, <2>1, BufferLemma
<1>14. c.piece.size = CHUNK => d.piece = c.piece /\ d.capacity = CHUNK
  BY <1>9, <1>13, RestoredLemma
<1> HIDE DEF n, c, d
<1>15. /\ written' \in Seq(Piece) /\ Len(written') = n + 1
       /\ DOMAIN written' = 1 .. n + 1
       /\ \A k \in 1 .. n : written'[k] = written[k]
       /\ written'[n + 1] = d.piece
  <2>1. /\ written' \in Seq(Piece) /\ Len(written') = n + 1
        /\ \A k \in 1 .. n : written'[k] = written[k]
        /\ written'[n + 1] = d.piece
    BY <1>1, <1>6, <1>13, AppendProperties DEF n
  <2> QED
    BY <2>1, LenProperties
<1>16. \A k : End(k)' = End(k) /\ Chunk(k)' = Chunk(k)
  BY <1>1 DEF End, Chunk
<1>17. /\ d.piece.size \in 0 .. CHUNK /\ CHUNK \in Nat
       /\ c.piece.size \in 0 .. CHUNK /\ c.piece.from \in Nat
  BY <1>9, <1>13, SizesLemma, RestoredLemma DEF Piece
<1>18. ClientTyped'
  <2>1. bytesReceived' \in Nat
    <3> DEFINE s == d.piece.size
    <3>1. s \in 0 .. CHUNK /\ bytesReceived' = bytesReceived + s /\ CHUNK \in Nat
      BY <1>1, <1>17
    <3> HIDE DEF s
    <3> QED
      BY <1>6, <3>1
  <2>2. closed' \in BOOLEAN /\ corrupted' \in BOOLEAN
    BY <1>1, <1>6
  <2>3. expects' \in {"initial", "header", "chunk"}
    BY <1>1
  <2>4. decompressed' \in [capacity : Nat, piece : Piece]
        /\ decompressed'.piece.size <= decompressed'.capacity
    BY <1>13 DEF d
  <2> QED
    BY <1>1, <1>5, <1>6, <1>15, <2>1, <2>2, <2>3, <2>4 DEF ClientTyped
<1>19. /\ Handled' = 2 * (n + 1) + 1 /\ Handled' > 0 /\ n + 1 > 0
       /\ (n + 1) - 1 = n /\ n + 1 # 0 /\ (n + 1 > 1 <=> n # 0)
  BY <1>2, <1>6, <1>10 DEF n
<1>20. header.last = source[2 * (n + 1)].last /\ closed' = header.last
  BY <1>1, <1>7, <1>10
<1>21. ASSUME NEW k \in 1 .. n + 1
       PROVE  /\ IsHeader(source[2 * k]) /\ IsChunk(source[2 * k + 1])
              /\ Chunk(k).piece.file = current.file
              /\ Chunk(k).piece.from = End(k - 1)
              /\ ~source[2 * k].last => written'[k] = Chunk(k).piece
              /\ k < n + 1 \/ ~closed' => ~source[2 * k].last
  <2>1. CASE k = n + 1
    <3>1. /\ IsHeader(source[2 * k]) /\ IsChunk(source[2 * k + 1])
          /\ Chunk(k) = c /\ End(k - 1) = End(n)
      BY <1>3, <1>4, <1>10, <1>19, <2>1
    <3>2. ~source[2 * k].last => written'[k] = c.piece
      BY <1>11, <1>14, <1>15, <1>20, <2>1
    <3>3. ~(k < n + 1)
      BY <1>6, <2>1 DEF n
    <3> QED
      BY <1>11, <1>20, <2>1, <3>1, <3>2, <3>3
  <2>2. CASE k # n + 1
    <3>1. k \in 1 .. n
      BY <1>6, <2>2 DEF n
    <3> QED
      BY <1>8, <1>15, <3>1
  <2> QED
    BY <2>1, <2>2
<1>22. ClientInv'
  <2>1. IsInitial(source[1]) /\ current = [file |-> source[1].file, size |-> source[1].size]
    BY <1>7
  <2>2. expects' = "header" => ~closed'
    BY <1>1
  <2>3. expects' = "initial" => closed'
    BY <1>1
  <2>4. expects' # "chunk" /\ (expects' # "initial" => expects' = "header")
    BY <1>1
  <2> QED
    BY <1>1, <1>15, <1>16, <1>19, <1>20, <1>21, <2>1, <2>2, <2>3, <2>4 DEF ClientInv
<1>23. bytesReceived' = End(n) + d.piece.size
  BY <1>1, <1>12
<1>24. End(n + 1) = c.piece.from + c.piece.size
  BY <1>10, <1>19 DEF End
<1>25. BufferInv'
  <2> SUFFICES ASSUME ~closed' PROVE BufferInv'
    BY DEF BufferInv
  <2>1. d.piece = c.piece /\ d.capacity = CHUNK
    BY <1>11, <1>14, <1>20
  <2>2. bytesReceived' = End(n + 1)
    BY <1>11, <1>23, <1>24, <2>1
  <2>3. written' # <<>>
    BY <1>15, <1>19, EmptySeq
  <2> QED
    BY <1>15, <1>16, <2>1, <2>2, <2>3 DEF d, BufferInv
<1>26. ASSUME NEW k \in 1 .. n + 1
       PROVE  written'[k] = Left(k)'
  <2>1. CASE k = n + 1
    <3>1. written'[k - 1] = written[n] \/ n = 0
      BY <1>6, <1>15, <1>19, <2>1 DEF n
    <3>2. k = 1 <=> n = 0
      BY <1>6, <2>1 DEF n
    <3>3. Left(k)' = IF Refused(c) THEN (IF k = 1 THEN Nothing ELSE written'[k - 1])
                     ELSE IF Broken(c) THEN Restored(c) ELSE c.piece
      BY <1>1, <1>10, <2>1 DEF Left, Chunk
    <3> QED
      BY <1>12, <1>13, <1>15, <2>1, <3>1, <3>2, <3>3
  <2>2. CASE k # n + 1
    <3>1. k \in 1 .. n /\ (k = 1 \/ k - 1 \in 1 .. n)
      BY <1>6, <2>2 DEF n
    <3>2. written[k] = Left(k)
      BY <1>5, <1>6, <3>1 DEF WrittenInv
    <3>3. Left(k)' = Left(k)
      BY <1>1, <1>15, <3>1 DEF Left, Chunk
    <3> QED
      BY <1>15, <3>1, <3>2, <3>3
  <2> QED
    BY <2>1, <2>2
<1>27. ASSUME closed', ~corrupted', Refused(c)
       PROVE  n # 0
  <2> SUFFICES ASSUME n = 0 PROVE FALSE
    OBVIOUS
  <2>1. d.piece = Nothing
    BY <1>12, <1>13, <1>27
  <2>2. bytesReceived' = 0
    BY <1>23, <2>1 DEF End, Nothing
  <2>3. current.size = 0
    BY <1>1, <1>20, <1>27, <2>2
  <2>4. 1 \in 1 .. Len(source)
    BY <1>3
  <2>5. source[1] \in Messages
    BY <1>3, <2>4, ElementOfSeq
  <2>6. source[1] \in InitialMessages
    BY <1>7, <2>5, MessageKinds DEF IsInitial
  <2>7. source[1].size \in Nat \ {0}
    BY <2>6 DEF InitialMessages
  <2> QED
    BY <1>7, <2>3, <2>7
<1>28. ASSUME closed', ~corrupted', ~Refused(c)
       PROVE  Whole(written)'
  <2> DEFINE end(k) == IF k = 0 THEN 0 ELSE written'[k].from + written'[k].size
  <2>1. /\ written'[n + 1] = IF Broken(c) THEN Restored(c) ELSE c.piece
        /\ d.piece = written'[n + 1]
    BY <1>13, <1>15, <1>28
  <2>2. /\ written'[n + 1].file = current.file
        /\ written'[n + 1].from = End(n)
    BY <1>9, <1>11, <2>1, RestoredLemma
  <2>3. end(n + 1) = current.size
    BY <1>1, <1>19, <1>20, <1>23, <1>28, <2>1, <2>2
  <2>4. ASSUME NEW k \in 1 .. n
        PROVE  /\ written'[k].file = current.file
               /\ written'[k].from = End(k - 1)
               /\ end(k) = End(k)
    BY <1>8, <1>15, <2>4 DEF End
  <2>5. \A k \in 0 .. n : end(k) = End(k)
    <3> HIDE DEF end
    <3> SUFFICES ASSUME NEW k \in 0 .. n PROVE end(k) = End(k)
      OBVIOUS
    <3>1. CASE k = 0
      BY <3>1 DEF End, end
    <3>2. CASE k # 0
      <4>1. k \in 1 .. n
        BY <1>6, <3>2 DEF n
      <4> QED
        BY <2>4, <4>1
    <3> QED
      BY <3>1, <3>2
  <2>6. ASSUME NEW k \in 1 .. n + 1
        PROVE  written'[k].file = current.file /\ written'[k].from = end(k - 1)
    <3> HIDE DEF end
    <3>1. CASE k = n + 1
      <4>1. n \in 0 .. n /\ k - 1 = n
        BY <1>6, <3>1 DEF n
      <4> QED
        BY <2>2, <2>5, <3>1, <4>1
    <3>2. CASE k # n + 1
      <4>1. k \in 1 .. n /\ k - 1 \in 0 .. n
        BY <1>6, <3>2 DEF n
      <4> QED
        BY <2>4, <2>5, <4>1
    <3> QED
      BY <3>1, <3>2
  <2>7. current' = current
    BY <1>1
  <2>8. (\A k \in DOMAIN written' : written'[k].file = current.file
                                     /\ written'[k].from = end(k - 1))
        /\ end(Len(written')) = current.size
    BY <1>15, <2>3, <2>6
  <2> QED
    BY <2>7, <2>8 DEF Whole
<1>29. WrittenInv'
  <2>1. Len(written)' = n + 1 /\ Chunk(Len(written))' = c
    BY <1>1, <1>10, <1>15 DEF Chunk
  <2>2. \A k \in DOMAIN written' : written'[k] = Left(k)'
    BY <1>15, <1>26
  <2>3. closed' /\ ~corrupted' =>
          Whole(written)' \/ (Len(written)' > 1 /\ Refused(Chunk(Len(written)))')
    <3>1. Refused(c) => Refused(Chunk(Len(written)))'
      BY <2>1 DEF Refused
    <3>2. n # 0 => Len(written)' > 1
      BY <1>19, <2>1
    <3> QED
      BY <1>27, <1>28, <3>1, <3>2
  <2> QED
    BY <2>2, <2>3 DEF WrittenInv
<1> QED
  BY <1>2, <1>18, <1>22, <1>25, <1>29 DEF PathInv

-------------------------------------------------------------------------------
(* The inductive invariant                                                 *)

IInv == ConnectionInv /\ EstimateInv /\ PathInv

LEMMA PathInit ==
  ASSUME Init
  PROVE  PathInv
<1>1. /\ stage = "configure" /\ request \in Requests
      /\ turn \in IF request.mode = "round robin" THEN Turns ELSE {1}
  BY DEF Init
<1>2. /\ file = 0 /\ size = 0 /\ fileSize = 0 /\ readBytes = 0 /\ bytesReceived = 0
      /\ bandwidth = 0
  BY DEF Init
<1>3. eof = FALSE /\ closed = FALSE /\ corrupted = FALSE
  BY DEF Init
<1>4. outbox = <<>> /\ written = <<>> /\ source = <<>> /\ transit = <<>>
  BY DEF Init, SocketInit
<1>5. expects = "initial" /\ header = [by |-> "COPY", last |-> FALSE]
  BY DEF Init
<1>6. /\ decompressed = [capacity |-> 0, piece |-> Nothing]
      /\ current = [file |-> 0, size |-> 0]
  BY DEF Init
<1>7. /\ outbox \in Seq(Messages) /\ written \in Seq(Piece) /\ source \in Seq(Messages)
      /\ Len(outbox) = 0 /\ Len(written) = 0 /\ Len(source) = 0 /\ Len(transit) = 0
  BY <1>4, EmptySeq
<1>8. Handled = 0
  BY <1>7 DEF Handled
<1>9. ServerTyped
  <2>1. /\ Requests \subseteq [mode : {"copy", "auto", "compress", "train", "round robin"},
                               compressor : Codecs \union {"COPY"}, level : Int]
        /\ Turns \subseteq 1 .. Len(RoundRobin)
    BY DataAssumption
  <2>2. turn \in 1 .. Len(RoundRobin)
    <3>1. turn \in Turns \/ turn = 1
      BY <1>1
    <3>2. 1 \in 1 .. Len(RoundRobin)
      BY RoundRobinLemma
    <3> QED
      BY <2>1, <3>1, <3>2
  <2>3. /\ file \in 0 .. FILES /\ fileSize \in Nat /\ readBytes \in Nat
        /\ readBytes <= fileSize + CHUNK /\ bandwidth \in 0 .. 58
        /\ size \in Sizes \union {0}
    BY <1>2, SizesLemma
  <2>4. eof \in BOOLEAN
    BY <1>3
  <2>5. outbox \in Seq(Messages) /\ Len(outbox) <= 2
    BY <1>7
  <2>6. stage \in {"configure", "file", "chunk", "refused", "done"} /\ stage \notin {"file", "chunk"}
    BY <1>1
  <2>7. request \in [mode : {"copy", "auto", "compress", "train", "round robin"},
                     compressor : Codecs \union {"COPY"}, level : Int]
    BY <1>1, <2>1
  <2> QED
    BY <2>2, <2>3, <2>4, <2>5, <2>6, <2>7 DEF ServerTyped
<1>10. ClientTyped
  <2>1. Nothing \in Piece /\ Nothing.size = 0
    BY SizesLemma DEF Nothing, Piece
  <2>2. decompressed \in [capacity : Nat, piece : Piece]
        /\ decompressed.piece.size <= decompressed.capacity
    BY <1>6, <2>1
  <2>3. header \in [by : Codecs \union {"COPY"}, last : BOOLEAN]
    BY <1>5
  <2>4. current \in [file : Nat, size : Nat]
    BY <1>6
  <2>5. expects \in {"initial", "header", "chunk"}
    BY <1>5
  <2>6. closed \in BOOLEAN /\ corrupted \in BOOLEAN
    BY <1>3
  <2>7. bytesReceived \in Nat
    BY <1>2
  <2> QED
    BY <1>7, <2>2, <2>3, <2>4, <2>5, <2>6, <2>7 DEF ClientTyped
<1>11. PendingInv
  BY <1>7 DEF PendingInv
<1>12. Shaped(source)
  BY <1>7 DEF Shaped
<1>13. ServerInv
  <2>1. stage = "configure" /\ file = 0
    BY <1>1, <1>2
  <2>2. Len(source) = 0 /\ ~(Len(source) > 0)
    BY <1>7
  <2>3. stage # "chunk"
    BY <2>1
  <2> QED
    BY <2>1, <2>2, <2>3 DEF ServerInv
<1>14. ClientInv
  BY <1>3, <1>5, <1>7, <1>8 DEF ClientInv
<1>15. BufferInv
  BY <1>8 DEF BufferInv
<1>16. WrittenInv
  <2>1. DOMAIN written = {}
    BY <1>4
  <2> QED
    BY <1>3, <2>1 DEF WrittenInv
<1> QED
  BY <1>9, <1>10, <1>11, <1>12, <1>13, <1>14, <1>15, <1>16 DEF PathInv

LEMMA InitIInv == Init => IInv
<1> SUFFICES ASSUME Init PROVE IInv
  OBVIOUS
<1>1. ConnectionInv
  BY ConnectionInit DEF Init
<1> QED
  BY <1>1, EstimateInit, PathInit DEF IInv

\* A step that moves no byte.
LEMMA ConnectionStays ==
  ASSUME ConnectionInv, UNCHANGED socketVars
  PROVE  ConnectionInv' /\ Rest' = Rest /\ kernel' = kernel
<1>1. /\ sending' = sending /\ unsent' = unsent /\ message' = message /\ kernel' = kernel
      /\ receiving' = receiving /\ wanted' = wanted /\ got' = got /\ transit' = transit
  BY DEF socketVars, sendVars, receiveVars
<1>2. Rest' = Rest /\ Arrived' = Arrived
  BY <1>1 DEF Rest, Arrived
<1>3. ConnectionTyped' /\ SenderInv' /\ ReceiverInv'
  BY <1>1 DEF ConnectionInv, ConnectionTyped, SenderInv, ReceiverInv
<1>4. FramesInv'
  BY <1>1, <1>2 DEF ConnectionInv, FramesInv
<1> QED
  BY <1>1, <1>2, <1>3, <1>4 DEF ConnectionInv

LEMMA EstimateStays ==
  ASSUME EstimateInv, Rest' = Rest, kernel' = kernel, UNCHANGED meterVars
  PROVE  EstimateInv'
BY DEF EstimateInv, meterVars

LEMMA NextIInv == IInv /\ [Next]_vars => IInv'
<1> SUFFICES ASSUME IInv, [Next]_vars PROVE IInv'
  OBVIOUS
<1>1. ConnectionInv /\ EstimateInv /\ PathInv
  BY DEF IInv
<1>2. CASE Configure
  <2>1. UNCHANGED socketVars /\ UNCHANGED meterVars
    BY <1>2 DEF Configure
  <2> QED
    BY <1>1, <1>2, <2>1, ConnectionStays, EstimateStays, PathConfigure DEF IInv
<1>3. CASE OpenNextFile
  <2>1. UNCHANGED socketVars /\ UNCHANGED meterVars
    BY <1>3 DEF OpenNextFile
  <2> QED
    BY <1>1, <1>3, <2>1, ConnectionStays, EstimateStays, PathOpenNextFile DEF IInv
<1>4. CASE Resize
  <2>1. UNCHANGED socketVars /\ UNCHANGED meterVars
    BY <1>4 DEF Resize
  <2> QED
    BY <1>1, <1>4, <2>1, ConnectionStays, EstimateStays, PathResize DEF IInv
<1>5. CASE GetNextChunk
  <2>1. UNCHANGED socketVars /\ UNCHANGED meterVars
    BY <1>5 DEF GetNextChunk
  <2> QED
    BY <1>1, <1>5, <2>1, ConnectionStays, EstimateStays, PathGetNextChunk DEF IInv
<1>6. CASE EndOfFile
  <2>1. UNCHANGED socketVars /\ UNCHANGED meterVars
    BY <1>6 DEF EndOfFile
  <2> QED
    BY <1>1, <1>6, <2>1, ConnectionStays, EstimateStays, PathEndOfFile DEF IInv
<1>7. CASE Send \/ MeasureAndSend
  <2>1. outbox \in Seq(Messages) /\ outbox # <<>> /\ StartSend(Head(outbox))
    BY <1>1, <1>7, PathFacts DEF Send, MeasureAndSend
  <2>2. Head(outbox) \in Messages
    BY <2>1, HeadTailProperties
  <2>3. ConnectionInv'
    BY <1>1, <2>1, <2>2, ConnectionStartSend
  <2> QED
    BY <1>1, <1>7, <2>1, <2>3, EstimateSends, PathSends DEF IInv
<1>8. CASE Write \/ Read
  <2>1. ConnectionInv'
    BY <1>1, <1>8, ConnectionWriteSome, ConnectionReadSome DEF Write, Read
  <2> QED
    BY <1>1, <1>8, <2>1, EstimateWrites, PathMoves DEF IInv
<1>9. ASSUME NEW m, ReceiveInitial(m) \/ ReceiveHeader(m) \/ ReceiveChunk(m)
      PROVE  IInv'
  <2>1. Receive(m) /\ UNCHANGED meterVars
    BY <1>9 DEF ReceiveInitial, ReceiveHeader, ReceiveChunk
  <2>2. ConnectionInv' /\ Rest' = Rest /\ kernel' = kernel
    BY <1>1, <2>1, ConnectionReceive
  <2>3. EstimateInv'
    BY <1>1, <2>1, <2>2, EstimateStays
  <2>4. PathInv'
    BY <1>1, <1>9, PathReceiveInitial, PathReceiveHeader, PathReceiveChunk
  <2> QED
    BY <2>2, <2>3, <2>4 DEF IInv
<1>10. CASE UNCHANGED vars
  <2>1. /\ UNCHANGED socketVars /\ UNCHANGED meterVars /\ UNCHANGED serverVars
        /\ UNCHANGED clientVars /\ outbox' = outbox /\ source' = source
        /\ bandwidth' = bandwidth
    BY <1>10 DEF vars, meterVars
  <2>2. transit' = transit
    BY <2>1 DEF socketVars
  <2>3. /\ request' = request /\ stage' = stage /\ turn' = turn /\ file' = file /\ size' = size
        /\ fileSize' = fileSize /\ readBytes' = readBytes /\ eof' = eof
    BY <2>1 DEF serverVars
  <2>4. ServerTyped'
    BY <1>1, <2>1, <2>3 DEF PathInv, ServerTyped
  <2>5. ServerInv'
    BY <1>1, <2>1, <2>3 DEF PathInv, ServerInv, HasNextChunk
  <2>6. PathInv'
    BY <1>1, <2>1, <2>2, <2>4, <2>5, PathServer
  <2> QED
    BY <1>1, <2>1, <2>6, ConnectionStays, EstimateStays DEF IInv
<1> QED
  BY <1>2, <1>3, <1>4, <1>5, <1>6, <1>7, <1>8, <1>9, <1>10 DEF Next

LEMMA Invariance == Spec => []IInv
BY InitIInv, NextIInv, PTL DEF Spec

-------------------------------------------------------------------------------
(* What it implies                                                         *)

LEMMA SocketTyped ==
  ASSUME ConnectionInv
  PROVE  SocketTypeOK
<1>1. ConnectionTyped /\ SenderInv /\ ReceiverInv
  BY DEF ConnectionInv
<1> DEFINE u == Len(unsent)
           w == wanted
           square == BASE * BASE
           l == message.len
<1>2. u \in Nat /\ w \in Nat
  BY <1>1 DEF ConnectionTyped
<1>3. sending = "idle" => u = 0
  BY <1>1, EmptySeq DEF SenderInv
<1>4. u <= IF sending = "data" THEN l ELSE 2
  <2>1. sending = "data" => u <= l
    BY <1>1 DEF SenderInv
  <2>2. sending = "size" => u \in 1 .. 2
    BY <1>1 DEF SenderInv
  <2>3. sending \in {"idle", "size", "data"}
    BY <1>1 DEF ConnectionTyped
  <2> HIDE DEF u, l
  <2> QED
    BY <1>2, <1>3, <2>1, <2>2, <2>3
<1>5. w \in 0 .. square - 1
  <2>1. square \in Int /\ 4 <= square
    <3>1. \A b \in Nat : b >= 2 => b * b >= 4 /\ b * b \in Nat
      BY Z3
    <3>2. BASE \in Nat /\ BASE >= 2
      BY SocketAssumption
    <3> QED
      BY <3>1, <3>2
  <2>2. CASE receiving = "size"
    <3>1. Len(got) \in Nat /\ Len(got) + w = 2
      BY <1>1, <2>2 DEF ReceiverInv, ConnectionTyped
    <3> HIDE DEF w, square
    <3> QED
      BY <1>2, <2>1, <3>1
  <2>3. CASE receiving # "size"
    <3> DEFINE k == transit[1].len
    <3>1. transit[1] \in Messages /\ Len(got) \in Nat /\ Len(got) + w = k
      BY <1>1, <2>3, OnTheWay DEF ReceiverInv, ConnectionTyped
    <3>2. k \in 0 .. square - 1
      BY <3>1, MessageKinds
    <3> HIDE DEF w, square, k
    <3> QED
      BY <1>2, <2>1, <3>1, <3>2
  <2> QED
    BY <2>2, <2>3
<1> QED
  BY <1>1, <1>4, <1>5 DEF SocketTypeOK, ConnectionTyped

\* Whatever the bounds, the buffers and the strategy are: every variable stays in its
\* range; in particular the loops of send() and receive() have no more than a
\* message's bytes before them, and a buffer holds no more than its capacity.
THEOREM DataPathTyping == Spec => []TypeOK
<1>1. ASSUME IInv
      PROVE  TypeOK
  <2>1. ConnectionInv /\ EstimateInv /\ PathInv
    BY <1>1 DEF IInv
  <2>2. ServerTyped /\ ClientTyped /\ ClientInv
    BY <2>1 DEF PathInv
  <2>3. request.mode \in {"copy", "auto", "compress", "train", "round robin"}
    BY <2>2 DEF ServerTyped
  <2>4. decompressed.piece \in Piece
    BY <2>2 DEF ClientTyped
  <2>5. 2 * Len(written) <= Len(source)
    <3> DEFINE n == Len(written)
    <3>1. /\ n \in Nat /\ Handled \in Nat /\ Len(source) \in Nat /\ Handled <= Len(source)
          /\ Handled = 0 => n = 0
          /\ Handled > 0 => 2 * n + 1 <= Handled
      BY <2>1, <2>2, PathFacts, WrittenBounds
    <3> DEFINE h == Handled
               l == Len(source)
    <3>2. /\ n \in Nat /\ h \in Nat /\ l \in Nat /\ h <= l
          /\ h = 0 => n = 0
          /\ h > 0 => 2 * n + 1 <= h
      BY <3>1
    <3> HIDE DEF n, h, l
    <3>3. 2 * n <= l
      BY <3>2
    <3> QED
      BY <3>3 DEF n, l
  <2> QED
    BY <2>1, <2>2, <2>3, <2>4, <2>5, SocketTyped
       DEF TypeOK, ServerTyped, ClientTyped, EstimateInv
<1> QED
  BY <1>1, Invariance, PTL

\* Whatever sizes the files, the chunks and the buffers have, and wherever the writes
\* and the reads cut the bytes: the client has the chunks that the server read, in
\* order, except for what FPC loses; a file that it closes and takes for right is
\* whole, but for the one exception; and receive() returns the message that is due,
\* or fails on the copy of nothing.
THEOREM DataPathRestores == Spec => []FilesRestored
<1>1. ASSUME IInv
      PROVE  FilesRestored
  <2>1. ConnectionInv /\ PathInv /\ WrittenInv
    BY <1>1 DEF IInv, PathInv
  <2>2. /\ \A i \in 1 .. Len(transit) : transit[i] = source[Handled + i]
        /\ transit \in Seq(Messages)
    BY <2>1, PathFacts DEF PathInv, PendingInv
  <2>3. transit # <<>> => transit[1] = source[Handled + 1] /\ transit[1] \in Messages
    <3>1. transit # <<>> => 1 \in 1 .. Len(transit)
      BY <2>2, EmptySeq
    <3> QED
      BY <2>2, <3>1, ElementOfSeq
  <2>4. receiving = "whole" => got = Data(source[Handled + 1])
    BY <2>1, <2>3, WholeMessage
  <2>5. ASSUME receiving = "failed", NEW m, m = source[Handled + 1]
        PROVE  m.kind = "chunk" /\ m.chunk = Copied(m.chunk.piece) /\ m.chunk.piece.size = 0
    <3>1. transit # <<>> /\ transit[1].len = 0
      BY <2>1, <2>5 DEF ConnectionInv, ReceiverInv
    <3>2. m \in Messages /\ m.len = 0
      BY <2>3, <2>5, <3>1
    <3>3. m \in ChunkMessages
      BY <3>2 DEF Messages, InitialMessages, ChunkHeaders
    <3>4. m.kind = "chunk" /\ m.chunk \in Chunks /\ m.chunk.len = 0
      BY <3>2, <3>3 DEF ChunkMessages
    <3>5. m.chunk \notin [piece : Piece, by : Codecs, len : 1 .. OUT]
      BY <3>4
    <3>6. PICK p \in Piece : m.chunk = Copied(p)
      BY <3>4, <3>5 DEF Chunks
    <3>7. m.chunk.piece = p /\ p.size = 0
      BY <3>4, <3>6 DEF Copied
    <3> QED
      BY <3>4, <3>6, <3>7
  <2> QED
    BY <2>1, <2>4, <2>5 DEF FilesRestored, WrittenInv
<1> QED
  BY <1>1, Invariance, PTL

\* When a message has been sent, what the next measurement will find is what left
\* the kernel since the last one, less two for each prefix.
THEOREM DataPathEstimate == Spec => []EstimateDrained
<1>1. ASSUME IInv
      PROVE  EstimateDrained
  <2>1. ConnectionInv /\ EstimateInv
    BY <1>1 DEF IInv
  <2>2. sending = "idle" => Len(Rest) = 0
    BY <2>1, EmptySeq DEF ConnectionInv, SenderInv, Rest
  <2>3. Len(kernel) \in Nat
    BY <2>1 DEF ConnectionInv, ConnectionTyped
  <2> QED
    BY <2>1, <2>2, <2>3 DEF EstimateInv, EstimateDrained
<1> QED
  BY <1>1, Invariance, PTL
===============================================================================
