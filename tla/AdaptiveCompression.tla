-------------------------- MODULE AdaptiveCompression --------------------------
(***************************************************************************)
(* What concurrent requests share while they compress: the statics of the  *)
(* adaptive compressor and the performance log (AsynchronousLog).          *)
(*                                                                         *)
(* The adaptive compressor keeps the bytes left before its next decision,  *)
(* the bytes to send uncompressed and the last byte count in function      *)
(* statics, which all requests update without a lock.  An update x -= n    *)
(* loads x and stores it later, and the load may be the one the test made  *)
(* or a second one.                                                        *)
(*                                                                         *)
(* The data decides by its byte count alone: at most 100 is "low", more is *)
(* "high".  Any chunk may count high: a dense one, one of less than 2560   *)
(* bytes (256 / 256 of nothing is reached by every byte), and any while    *)
(* another request counts, for bytecounting() counts in one static array.  *)
(* Sizes are in bytes.  A chunk has CHUNK of them or less: the last one of *)
(* a file is as long as what is left, and may have none if the file was    *)
(* cut.  The size, the count and the load of the socket are choices, each  *)
(* made where it is first used; what the codecs make of the chunk is       *)
(* DataPath's subject.                                                     *)
(***************************************************************************)
EXTENDS AsynchronousLog, Integers

CONSTANTS
  Requests,     \* the users of the log that compress; the server is one more
  WINDOW,       \* bytesToSendUncompressed, bytesToSendBeforeCalculatingAgaing
  CHUNK,        \* chunkSizeBytes
  CHUNKS,       \* bound: chunks of all requests
  Strategies    \* the assignments of "auto" or "train" to requests to explore

ASSUME CompressionAssumption ==
  /\ Requests \subseteq Users /\ Requests # {} /\ IsFiniteSet(Requests)
  /\ WINDOW \in Nat \ {0}
  /\ CHUNK \in Nat \ {0}
  /\ CHUNKS \in Nat \ {0}
  /\ Strategies \subseteq [Requests -> {"auto", "train"}]

VARIABLES
  strategy,         \* the compressor each request was configured with
  at,               \* where each request is in compress(), "idle" between two
  left,             \* bound: chunks that may still be read
  local,            \* the value a request loaded for an update
  toSend,           \* static remainingBytesToSendUncompressed
  toCalculate,      \* static remainingBytesToCalculateAgain
  counted,          \* static currentBytecounting
  since,            \* history: bytes since the adaptive compressor last looked
  torn,             \* history: it looked with a window of copies open, which this
                    \* request had found closed, or an update has been lost since
  overlap           \* history: the last examination overlapped a decision

statics == <<toSend, toCalculate, counted>>
history == <<since, torn, overlap>>
compressionVars == <<strategy, at, left, local, statics, history>>
vars == <<logVars, compressionVars>>

TypeOK ==
  /\ LogTypeOK
  /\ strategy \in Strategies
  /\ at \in [Requests -> {"idle", "enter", "copying", "test", "deciding", "count",
                          "copyOn", "decideOn", "load", "logged"}]
  /\ left \in 0 .. CHUNKS
  /\ local \in [Requests -> 0 .. WINDOW]
  /\ toSend \in 1 - CHUNK * Cardinality(Requests) .. WINDOW
  /\ toCalculate \in 1 - CHUNK * Cardinality(Requests) .. WINDOW
  /\ counted \in {"low", "high"}
  /\ since \in 0 .. CHUNK * CHUNKS
  /\ torn \in BOOLEAN
  /\ overlap \in BOOLEAN

Init ==
  /\ LogInit
  /\ strategy \in Strategies
  /\ at = [r \in Requests |-> "idle"]
  /\ left = CHUNKS
  /\ local = [r \in Requests |-> 0]
  /\ toSend = 0
  /\ toCalculate = 0
  /\ counted = "low"
  /\ since = 0
  /\ torn = FALSE
  /\ overlap = FALSE

Goto(r, place) == at' = [at EXCEPT ![r] = place]

\* compress() returns, with a compressor or COPY.
Return(r) == Goto(r, "idle")

\* The next chunk is read and compress() is called.
ReadChunk(r) ==
  /\ at[r] = "idle"
  /\ left > 0
  /\ left' = left - 1
  /\ Goto(r, "enter")
  /\ UNCHANGED <<logVars, strategy, local, statics, history>>

-------------------------------------------------------------------------------
(* AutoCompCompressor::compress()                                          *)

Examining == {r \in Requests : at[r] \in {"count", "copyOn", "decideOn"}}

\* The requests whose next decision depends on what was last counted.
Inside == Examining \union {r \in Requests : at[r] \in {"deciding", "load"}}

\* inData.getSize(): a short read makes it less than CHUNK.
Sizes == 0 .. CHUNK

\* x -= size, after x was loaded once for the test: the store uses that load or
\* a new one.
Lowered(x, loaded, size) == {x - size, loaded - size}

Enter(r) ==
  /\ at[r] = "enter"
  /\ strategy[r] = "auto"
  /\ local' = [local EXCEPT ![r] = IF toSend > 0 THEN toSend ELSE 0]
  /\ Goto(r, IF toSend > 0 THEN "copying" ELSE "test")
  /\ UNCHANGED <<logVars, strategy, left, statics, history>>

CopyInWindow_NoDecrement(r) ==
  /\ at[r] = "copying"
  /\ \E size \in Sizes : since' = since + size
  /\ local' = [local EXCEPT ![r] = 0]
  /\ Return(r)
  /\ UNCHANGED <<logVars, strategy, left, statics, torn, overlap>>

\* remainingBytesToSendUncompressed > 0: less of it, and COPY.
CopyInWindow(r) ==
  /\ at[r] = "copying"
  /\ \E size \in Sizes :
       /\ toSend' \in Lowered(toSend, local[r], size)
       /\ torn' = (torn \/ toSend' # toSend - size)
       /\ since' = since + size
  /\ local' = [local EXCEPT ![r] = 0]
  /\ Return(r)
  /\ UNCHANGED <<logVars, strategy, left, toCalculate, counted, overlap>>

\* remainingBytesToCalculateAgain <= 0: the chunk is examined.
Test(r) ==
  /\ at[r] = "test"
  /\ IF toCalculate <= 0
     THEN /\ Goto(r, "count")
          /\ since' = 0
          /\ torn' = (toSend > 0)
          /\ overlap' = (Inside # {})
          /\ UNCHANGED local
     ELSE /\ local' = [local EXCEPT ![r] = toCalculate]
          /\ Goto(r, "deciding")
          /\ overlap' = (overlap \/ Examining # {})
          /\ UNCHANGED <<since, torn>>
  /\ UNCHANGED <<logVars, strategy, left, statics>>

\* getBytecounting(): what it returns is stored in the static and compared.
Count(r) ==
  /\ at[r] = "count"
  /\ counted' \in {"low", "high"}
  /\ Goto(r, IF counted' = "high" THEN "copyOn" ELSE "decideOn")
  /\ UNCHANGED <<logVars, strategy, left, local, toSend, toCalculate, history>>

CopyOn_BothWindows(r) ==
  /\ at[r] = "copyOn"
  /\ toSend' = WINDOW
  /\ toCalculate' = WINDOW
  /\ Return(r)
  /\ UNCHANGED <<logVars, strategy, left, local, counted, history>>

\* Incompressible: a window of copies is opened, this chunk is one more.
CopyOn(r) ==
  /\ at[r] = "copyOn"
  /\ toSend' = WINDOW
  /\ Return(r)
  /\ UNCHANGED <<logVars, strategy, left, local, toCalculate, counted, history>>

DecideOn(r) ==
  /\ at[r] = "decideOn"
  /\ toCalculate' = WINDOW
  /\ Goto(r, "load")
  /\ UNCHANGED <<logVars, strategy, left, local, toSend, counted, history>>

\* remainingBytesToCalculateAgain > 0: less of it, and the tree is asked.
Deciding(r) ==
  /\ at[r] = "deciding"
  /\ \E size \in Sizes :
       /\ toCalculate' \in Lowered(toCalculate, local[r], size)
       /\ torn' = (torn \/ toCalculate' # toCalculate - size)
       /\ since' = since + size
  /\ local' = [local EXCEPT ![r] = 0]
  /\ Goto(r, "load")
  /\ UNCHANGED <<logVars, strategy, left, toSend, counted, overlap>>

\* The socket's send buffer is nearly empty: zlib level 3, no line.
Hurry(r) ==
  /\ at[r] = "load"
  /\ Return(r)
  /\ UNCHANGED <<logVars, strategy, left, local, statics, history>>

\* The tree decides, and its decision is logged before it is carried out.
Decide(r) ==
  /\ at[r] = "load"
  /\ Write(r)
  /\ Goto(r, "logged")
  /\ UNCHANGED <<strategy, left, local, statics, history>>

\* write() has returned: the chunk is compressed, or copied.
Logged(r) ==
  /\ at[r] = "logged"
  /\ step[r] = "out"
  /\ Return(r)
  /\ UNCHANGED <<logVars, strategy, left, local, statics, history>>

-------------------------------------------------------------------------------
(* TrainingCompressor::compress()                                          *)

\* An incompressible chunk, or one whose compression fails, leaves no line.
TrainCopy(r) ==
  /\ at[r] = "enter"
  /\ strategy[r] = "train"
  /\ Return(r)
  /\ UNCHANGED <<logVars, strategy, left, local, statics, history>>

\* The other chunks are compressed, and their cost is logged.
TrainWrite(r) ==
  /\ at[r] = "enter"
  /\ strategy[r] = "train"
  /\ Write(r)
  /\ Goto(r, "logged")
  /\ UNCHANGED <<strategy, left, local, statics, history>>

-------------------------------------------------------------------------------

Compress(r) ==
  \/ Enter(r) \/ CopyInWindow(r) \/ Test(r) \/ Count(r) \/ CopyOn(r)
  \/ DecideOn(r) \/ Deciding(r) \/ Hurry(r) \/ Decide(r) \/ Logged(r)
  \/ TrainCopy(r) \/ TrainWrite(r)

\* A request lets go of the writer between two chunks; Server::shutdown() has
\* joined the threads that run the requests before it resets its pointer.
LetGo(u) ==
  /\ Release(u)
  /\ IF u \in Requests THEN at[u] = "idle" ELSE users \intersect Requests = {}

LogStep ==
  /\ \/ \E u \in Users : WriteStep(u) \/ LetGo(u)
     \/ WorkerStep \/ SpuriousWake \/ DestructorStep
  /\ UNCHANGED compressionVars

Next ==
  \/ \E r \in Requests \intersect users : ReadChunk(r) \/ Compress(r)
  \/ LogStep

\* The log's thread is scheduled, and so is the one that destroys the log.
Fairness == /\ WF_vars(WorkerStep /\ UNCHANGED compressionVars)
            /\ WF_vars(DestructorStep /\ UNCHANGED compressionVars)

Spec == Init /\ [][Next]_vars /\ Fairness

-------------------------------------------------------------------------------
(* Properties                                                              *)

\* Only lost updates, overlapping examinations, and one that a request made after
\* another had opened a window since it looked, let the shared windows grow: without
\* them the adaptive compressor looks at the data again after WINDOW bytes of
\* whatever requests, and the chunks under way: the one that each other request had
\* when the window was opened, and the one that each request has when it ends.
ExaminedInTime ==
  ~torn /\ ~overlap => since < WINDOW + CHUNK * (2 * Cardinality(Requests) - 1)

\* The tree is asked about data that was found incompressible only when the
\* examination of one request overlapped another request's decision: in any
\* other order a count above 100 leads to a window of copies and a new count.
DecidedOnCompressible ==
  \A r \in Requests : at[r] = "load" /\ counted = "high" => overlap
===============================================================================
