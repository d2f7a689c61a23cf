------------------------------ MODULE Compression ------------------------------
(***************************************************************************)
(* The codecs and the strategies that choose among them, as operators: the *)
(* ranges of the levels, what a request's parameters configure, the        *)
(* decision tree, the round-robin order, and what compressing and          *)
(* decompressing a chunk can give.                                         *)
(*                                                                         *)
(* A piece is a stretch of a file; compressing it gives a record that says *)
(* by which codec and how long the result is.  zlib, snappy, lzo, bzip2    *)
(* and lzma are libraries: they restore what they compressed, or report an *)
(* error.  FPC is modelled in FPCCompressor; of its results the chunks     *)
(* here keep that a piece which is no whole number of doubles loses its    *)
(* end.                                                                    *)
(***************************************************************************)
EXTENDS Integers, Sequences, Functions

CONSTANTS
  MaxLevel,     \* the highest level of zlib, lzo, bzip2 and lzma (9)
  DOUBLE,       \* length of a double (8 bytes)
  Lengths,      \* lengths of compressed chunks to explore
  tree,         \* the decision tree's nodes
  labels        \* and the compressors its values stand for

ASSUME CodecAssumption ==
  /\ MaxLevel \in Nat \ {0}
  /\ DOUBLE \in Nat \ {0}
  /\ Lengths \subseteq Nat \ {0}
  /\ \A i \in DOMAIN tree :
       tree[i].left # tree[i].right => {tree[i].left, tree[i].right} \subseteq i + 1 .. Len(tree)

Leveled == {"ZLIB", "LZO", "BZIP2", "LZMA", "FPC"}
Codecs  == Leveled \union {"SNAPPY"}

LevelRange ==
  [ZLIB |-> [min |-> 0, max |-> MaxLevel, default |-> 6],
   LZO  |-> [min |-> 1, max |-> MaxLevel, default |-> 3],
   BZIP2 |-> [min |-> 1, max |-> MaxLevel, default |-> 9],
   LZMA |-> [min |-> 0, max |-> MaxLevel, default |-> 6],
   FPC  |-> [min |-> 1, max |-> 28, default |-> 20]]

\* setCompressor(): whether it takes the level; -1 asks for the default.
Accepts(codec, level) ==
  \/ codec \notin Leveled
  \/ level = -1
  \/ level \in LevelRange[codec].min .. LevelRange[codec].max

\* The level that is then used.
LevelOf(codec, level) ==
  IF codec \notin Leveled THEN -1
  ELSE IF level = -1 THEN LevelRange[codec].default
  ELSE level

\* The compressors of the round robin, by their numbers and then as inserted.
RoundRobin ==
  LET Levels(codec) == [l \in 1 .. MaxLevel |-> <<codec, l>>]
  IN  <<<<"ZLIB", 0>>>> \o Levels("ZLIB") \o <<<<"SNAPPY", -1>>>>
        \o Levels("LZO") \o Levels("BZIP2") \o Levels("LZMA") \o <<<<"COPY", -1>>>>

\* Those of the adaptive compressor, which carries out a decision to copy itself.
Adaptive == Range(RoundRobin) \ {<<"COPY", -1>>}

-------------------------------------------------------------------------------
(* The decision tree                                                       *)

Leaf(node) == node.left = node.right

\* classify(): from the root to a leaf.
Classify(point) ==
  LET walk[i \in DOMAIN tree] ==
        IF Leaf(tree[i]) THEN tree[i].value
        ELSE walk[IF point[tree[i].feature] <= tree[i].threshold
                  THEN tree[i].left ELSE tree[i].right]
  IN  labels[walk[1]]

CPULoadLevel(percent) == percent \div 10

BandwidthLevel(mbits) ==
  IF mbits < 100 THEN mbits \div 5
  ELSE IF mbits < 1000 THEN mbits \div 100 + 19
  ELSE 58

BytecountingLevel(count) == count \div 10

\* What the adaptive compressor may do with a chunk: an incompressible one is
\* copied, in a hurry zlib is used, otherwise the tree decides; a decision that
\* is not in its table makes a copy.
Decisions(bandwidthLevel) ==
  LET points == {<<CPULoadLevel(c), bandwidthLevel, BytecountingLevel(n)>> :
                 c \in {0, 50, 100}, n \in {0, 50, 100}}
      carried(d) == IF d \in Adaptive THEN d ELSE <<"COPY", -1>>
  IN  {<<"COPY", -1>>, <<"ZLIB", 3>>} \union {carried(Classify(p)) : p \in points}

-------------------------------------------------------------------------------
(* The codecs                                                              *)

\* compress() into a buffer of some capacity: it throws, or gives a chunk that
\* fits.  (FPC and the libraries check the capacity; setSize() does it again.)
Compressed(codec, piece, capacity) ==
  {[piece |-> piece, by |-> codec, len |-> n] : n \in {l \in Lengths : l <= capacity}}

\* A copy is the piece itself.
Copied(piece) == [piece |-> piece, by |-> "COPY", len |-> piece.size]

\* What decompress() restores of a chunk that its codec compressed.
Restored(chunk) ==
  IF chunk.by = "FPC"
  THEN [chunk.piece EXCEPT !.size = @ - (@ % DOUBLE)]
  ELSE chunk.piece

\* decompress() throws when that does not fit, when another codec has made the
\* chunk, and FPC when it has no double.
Decompresses(codec, chunk, capacity) ==
  /\ chunk.by = codec
  /\ Restored(chunk).size <= capacity
  /\ chunk.by = "FPC" => chunk.piece.size >= DOUBLE
===============================================================================
