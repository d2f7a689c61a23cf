----------------------------- MODULE FPCCompressor -----------------------------
(***************************************************************************)
(* FPCCompressor: the one codec that is written in this repository, as     *)
(* operators.  The input is cut into blocks of doubles; each double is     *)
(* predicted twice, xored with the nearer prediction, and what is left of  *)
(* it is stored without its leading zero bytes.  Two doubles share a byte  *)
(* of codes.                                                               *)
(*                                                                         *)
(* A double is a word of 8 * w bits: a "byte" of a residual has w bits, so *)
(* the code of a residual, its length in bytes (4 stands for 5), is that   *)
(* of the program for any w.  The bytes of the stream are numbers: level,  *)
(* counts, codes and residual bytes.  The packing of a residual into two   *)
(* aligned 64-bit stores is appending its bytes.  A tail of fewer than 8   *)
(* bytes is dropped by intot /= 8 and is no part of an input.              *)
(***************************************************************************)
EXTENDS Integers, Sequences, SequencesExt, Bitwise

CONSTANTS
  w,            \* bits of a byte of a double (8 in the program)
  BLOCK_SIZE,   \* doubles of a block, an even number (32768)
  HashShift, HashDrop,      \* << 6 and >> 48 of the first predictor
  StrideShift, StrideDrop,  \* << 2 and >> 40 of the second
  Doubles,      \* the words to explore
  MaxDoubles    \* bound: doubles of an input to explore

Byte == 2 ^ w
Word == 0 .. 2 ^ (8 * w) - 1

ASSUME FPCAssumption ==
  /\ w \in Nat \ {0}
  /\ BLOCK_SIZE \in Nat \ {0} /\ BLOCK_SIZE % 2 = 0
  /\ Doubles \subseteq Word

Inputs == UNION {[1 .. n -> Doubles] : n \in 0 .. MaxDoubles}

-------------------------------------------------------------------------------
(* The predictors                                                          *)

Fresh(level) ==
  [entries |-> 2 ^ level, hash |-> 0, dhash |-> 0, lastval |-> 0,
   pred1 |-> 0, pred2 |-> 0,
   fcm  |-> [h \in 0 .. 2 ^ level - 1 |-> 0],
   dfcm |-> [h \in 0 .. 2 ^ level - 1 |-> 0]]

\* What a hash becomes: shifted left, xored with a word's high bits, masked.
Hashed(hash, shift, word, drop, entries) ==
  ((hash * 2 ^ shift) ^^ (word \div 2 ^ drop)) % entries

\* Both predictors learn val, and predict the next double.
Learn(p, val) ==
  LET fcm    == [p.fcm EXCEPT ![p.hash] = val]
      hash   == Hashed(p.hash, HashShift, val, HashDrop, p.entries)
      stride == (val - p.lastval) % 2 ^ (8 * w)
      dfcm   == [p.dfcm EXCEPT ![p.dhash] = stride]
      dhash  == Hashed(p.dhash, StrideShift, stride, StrideDrop, p.entries)
  IN  [p EXCEPT !.hash = hash, !.dhash = dhash, !.lastval = val,
                !.pred1 = fcm[hash], !.pred2 = (val + dfcm[dhash]) % 2 ^ (8 * w),
                !.fcm = fcm, !.dfcm = dfcm]

-------------------------------------------------------------------------------
(* compress()                                                              *)

\* The number of bytes that a code stands for, and the least code whose bytes
\* hold a residual.
Bytes(bcode) == bcode + bcode \div 4

Bcode(residual) ==
  CHOOSE b \in 0 .. 7 : /\ residual < Byte ^ Bytes(b)
                        /\ \A c \in 0 .. b - 1 : residual >= Byte ^ Bytes(c)

\* One double: its code, in which 8 marks the second predictor, and the bytes of
\* its residual.
Encode(e, val) ==
  LET xor1 == val ^^ e.p.pred1
      xor2 == val ^^ e.p.pred2
      residual == IF xor1 > xor2 THEN xor2 ELSE xor1
      bcode == Bcode(residual)
  IN  [p |-> Learn(e.p, val),
       codes |-> Append(e.codes, bcode + (IF xor1 > xor2 THEN 8 ELSE 0)),
       residuals |-> e.residuals \o
         [k \in 1 .. Bytes(bcode) |-> (residual \div Byte ^ (k - 1)) % Byte]]

\* A number in the stream has three bytes.
Number(n) == <<n % 256, (n \div 256) % 256, n \div 65536>>
Valued(bytes) == bytes[1] + 256 * bytes[2] + 65536 * bytes[3]

PairsOf(codes) ==
  [k \in 1 .. Len(codes) \div 2 |-> 16 * codes[2 * k - 1] + codes[2 * k]]

\* A block: its header, codes and residuals.  An odd number of doubles is filled
\* up with what inbuf holds after them, whose residual is not kept.
EncodeBlock(s, doubles, dummy) ==
  LET odd  == Len(doubles) % 2 = 1
      e    == FoldLeft(Encode, [p |-> s.p, codes |-> <<>>, residuals |-> <<>>],
                       IF odd THEN Append(doubles, dummy) ELSE doubles)
      kept == Len(e.residuals) - (IF odd THEN Bytes(Last(e.codes) % 8) ELSE 0)
      body == PairsOf(e.codes) \o SubSeq(e.residuals, 1, kept)
  IN  [p |-> e.p,
       stream |-> s.stream \o Number(Len(doubles)) \o Number(6 + Len(body)) \o body]

BlocksOf(input) ==
  [b \in 1 .. (Len(input) + BLOCK_SIZE - 1) \div BLOCK_SIZE |->
     SubSeq(input, (b - 1) * BLOCK_SIZE + 1,
            IF b * BLOCK_SIZE < Len(input) THEN b * BLOCK_SIZE ELSE Len(input))]

\* The stream; it is refused, when a block does not fit the output buffer.
FPCCompressed(level, input, dummy) ==
  FoldLeft(LAMBDA s, doubles : EncodeBlock(s, doubles, dummy),
           [p |-> Fresh(level), stream |-> <<level>>], BlocksOf(input)).stream

-------------------------------------------------------------------------------
(* decompress()                                                            *)

\* The code of the block's double number i, from 0.
CodeAt(inbuf, i) ==
  LET pair == inbuf[i \div 2 + 1] IN IF i % 2 = 0 THEN pair \div 16 ELSE pair % 16

\* The residual at in; past the block it is whatever inbuf holds.
ResidualAt(inbuf, in, bytes, garbage) ==
  IF in + bytes <= Len(inbuf)
  THEN FoldFunction(+, 0, [k \in 1 .. bytes |-> inbuf[in + k] * Byte ^ (k - 1)])
  ELSE garbage % Byte ^ bytes

Decode_PredictorsSwapped(d, i, inbuf, garbage) ==
  LET code  == CodeAt(inbuf, i)
      bytes == Bytes(code % 8)
      val   == ResidualAt(inbuf, d.in, bytes, garbage)
                 ^^ (IF code >= 8 THEN d.p.pred1 ELSE d.p.pred2)
  IN  [p |-> Learn(d.p, val), in |-> d.in + bytes, outbuf |-> Append(d.outbuf, val)]

\* One double.
Decode(d, i, inbuf, garbage) ==
  LET code  == CodeAt(inbuf, i)
      bytes == Bytes(code % 8)
      val   == ResidualAt(inbuf, d.in, bytes, garbage)
                 ^^ (IF code >= 8 THEN d.p.pred2 ELSE d.p.pred1)
  IN  [p |-> Learn(d.p, val), in |-> d.in + bytes, outbuf |-> Append(d.outbuf, val)]

\* The blocks from a position of the stream on.  As many bytes are read as the
\* block has with its header, which was read before: the block's rest, and the
\* header of the next one when six bytes are left.
RECURSIVE DecodeBlocks(_, _, _, _, _, _)
DecodeBlocks(stream, next, p, intot, in, garbage) ==
  LET end   == IF Len(stream) - next < in THEN Len(stream) - next ELSE in
      inbuf == SubSeq(stream, next + 1, next + end)
      pairs == (intot + 1) \div 2
      d     == FoldLeft(LAMBDA s, i : Decode(s, i, inbuf, garbage),
                        [p |-> p, in |-> pairs, outbuf |-> <<>>],
                        [i \in 1 .. 2 * pairs |-> i - 1])
      more  == IF end - 6 >= d.in THEN Valued(SubSeq(inbuf, d.in + 1, d.in + 3)) ELSE 0
  IN  SubSeq(d.outbuf, 1, intot) \o
      (IF more = 0 THEN <<>>
       ELSE DecodeBlocks(stream, next + end, d.p, more,
                         Valued(SubSeq(inbuf, d.in + 4, d.in + 6)), garbage))

\* A stream of fewer than 7 bytes, of an input without a double, is refused.
FPCAccepts(stream) == Len(stream) >= 7

FPCDecompressed(stream, garbage) ==
  DecodeBlocks(stream, 7, Fresh(stream[1]), Valued(SubSeq(stream, 2, 4)),
               Valued(SubSeq(stream, 5, 7)), garbage)
===============================================================================
