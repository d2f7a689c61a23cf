----------------------------- MODULE FileProcessing -----------------------------
(***************************************************************************)
(* The file processors of requests served at one time: FileProcessor, and  *)
(* PreCompressingFileProcessor, which has a script compress each file into *)
(* a temporary file beside it, sends that one and removes it.  The loops   *)
(* over files and chunks are those of Server::processRequest.              *)
(*                                                                         *)
(* A file's content is its size; what the chunks hold is the subject of    *)
(* DataPath.  A script writes what the compressor makes of its input, or   *)
(* the part it had room for: it exits with 0 either way.                   *)
(***************************************************************************)
EXTENDS DirectoryExplorer

CONSTANTS
  Trees,            \* the files there may be at first, with their sizes
  Asked,            \* what may be requested: a path and a mode of each request,
                    \* "plain", "copy" (PRE_COMPRESS with COPY) or "script"
  Tools,            \* what compressors make of a size
  CHUNK,            \* bytes of a chunk
  MaxExtensions     \* bound: a file with so many extensions is not compressed

ASSUME FileAssumption ==
  /\ CHUNK \in Nat \ {0} /\ MaxExtensions \in Nat
  /\ \A fs \in Trees :
       /\ IsFiniteSet(DOMAIN fs) /\ 1 .. Cardinality(DOMAIN fs) \subseteq Inodes
       /\ \A f \in DOMAIN fs :
            f \in Name /\ f # NoFile /\ f \notin Subdirectories /\ fs[f] \in Nat
  /\ Asked \subseteq [Requests -> [path : Name, mode : {"plain", "copy", "script"}]]

VARIABLES
  files,       \* the files there were at first
  tool,        \* what the compressor makes of a size
  asked,       \* of the requests
  stage,       \* of each request; "loop" is hasNextFile() of processRequest
  current,     \* currentFileName, and the local of getNextFileName() before
  source,      \* the inode the stream source has open, 0 when it is closed
  input,       \* the inode the script reads, 0 when none runs
  output,      \* the inode the script writes, 0 when none runs
  fileSize,    \* currentFileSize, compressedFileSize and currentFileReadBytes
  compressedSize,
  readBytes,
  eof,         \* eofbit and failbit of source
  \* history, of each request
  offered,     \* files that getNextFileName() returned
  outcome,     \* of the last file: "none", "whole", "cut", "unended", "failed"
  disturbed,   \* whether another request's script wrote to it
  undelivered  \* files whose outcome was another than "whole"

fileVarsOf   == <<current, source, input, output, fileSize, compressedSize, readBytes, eof>>
historyVars  == <<offered, outcome, disturbed, undelivered>>
requestVars  == <<files, tool, asked>>
vars == <<fileVars, explorerVars, requestVars, stage, fileVarsOf, historyVars>>

path(r) == asked[r].path
mode(r) == asked[r].mode

Of(value) == [r \in Requests |-> value]

Init ==
  /\ files \in Trees /\ tool \in Tools /\ asked \in Asked
  /\ tree = CHOOSE t \in [DOMAIN files -> 1 .. Cardinality(DOMAIN files)] : IsInjective(t)
  /\ disk = [i \in Inodes |->
               IF i \in Range(tree) THEN files[CHOOSE f \in DOMAIN files : tree[f] = i] ELSE 0]
  /\ InitExplorer
  /\ stage = Of("prepare")
  /\ current = Of(NoFile) /\ source = Of(0) /\ input = Of(0) /\ output = Of(0)
  /\ fileSize = Of(0) /\ compressedSize = Of(0) /\ readBytes = Of(0) /\ eof = Of(FALSE)
  /\ offered = Of(<<>>) /\ outcome = Of("none") /\ disturbed = Of(FALSE)
  /\ undelivered = Of({})

-------------------------------------------------------------------------------
(* preparePath() and openNextFile()                                        *)

To(r, label) == stage' = [stage EXCEPT ![r] = label]

\* The inodes held open, and those that are when request r has closed its source.
Held           == Range(source) \cup Range(input) \cup Range(output)
HeldWithout(r) == {source[q] : q \in Requests \ {r}} \cup Range(input) \cup Range(output)

Compressed(r) == IF mode(r) = "script" THEN CompressedName(current[r]) ELSE current[r]

preparePath(r) ==
  /\ stage[r] = "prepare" /\ search[r] = "none"
  /\ \/ ConstructFile(r, path(r)) /\ To(r, "loop")
     \/ ConstructDirectory(r, path(r)) /\ UNCHANGED stage
     \/ ConstructFails(r, path(r)) /\ To(r, "rejected")
  /\ UNCHANGED <<fileVars, requestVars, fileVarsOf, historyVars>>

\* What openNextFile() does with a file name: compress it first, or open it.
Proceed(r, f) ==
  /\ current' = [current EXCEPT ![r] = f]
  /\ offered' = [offered EXCEPT ![r] = Append(@, f)]
  /\ outcome' = [outcome EXCEPT ![r] = "none"]
  /\ disturbed' = [disturbed EXCEPT ![r] = FALSE]
  /\ To(r, IF mode(r) = "script" THEN "compress" ELSE "open")
  /\ UNCHANGED <<undelivered, requestVars, input, output, fileSize, compressedSize, readBytes>>

\* The source of the last file is closed, and a new one without error bits.
openNextFile(r) ==
  /\ stage[r] = "loop" /\ hasNextFile(r)
  /\ Close(HeldWithout(r))
  /\ source' = [source EXCEPT ![r] = 0]
  /\ getNextFileName(r)
  /\ IF explorer[r].rootIsFile
     THEN Proceed(r, explorer[r].nextFile) /\ UNCHANGED eof
     ELSE /\ current' = [current EXCEPT ![r] = explorer[r].nextFile]
          /\ To(r, "search")
          /\ UNCHANGED <<requestVars, input, output, fileSize, compressedSize, readBytes, eof,
                         historyVars>>

\* A file, or the end, was found: the constructor or getNextFileName() returns.
Found(r) ==
  /\ \/ findNextFile_End(r)
     \/ \E entry \in DOMAIN tree : findNextFile_File(r, entry)
  /\ IF search[r] = "construct"
     THEN To(r, "loop") /\ UNCHANGED <<requestVars, fileVarsOf, historyVars>>
     ELSE Proceed(r, current[r]) /\ UNCHANGED <<source, eof>>
  /\ UNCHANGED fileVars

Searches(r) ==
  /\ findNextFile_Directory(r) \/ findNextFile_NextDirectory(r)
  /\ UNCHANGED <<fileVars, requestVars, stage, fileVarsOf, historyVars>>

\* IOError: the request is refused, or an error message sent and the loop goes on.
SearchThrows(r) ==
  /\ \E entry \in explorer[r].directory.buffer : findNextFile_Throws(r, entry)
  /\ To(r, IF search[r] = "construct" THEN "rejected" ELSE "loop")
  /\ UNCHANGED <<fileVars, requestVars, fileVarsOf, historyVars>>

-------------------------------------------------------------------------------
(* compressFile()                                                          *)

\* IOError and CompressionError of openNextFile(): an error message is sent.
Fails(r) ==
  /\ outcome' = [outcome EXCEPT ![r] = "failed"]
  /\ undelivered' = [undelivered EXCEPT ![r] = @ \cup {current[r]}]
  /\ To(r, "loop")
  /\ UNCHANGED <<offered, disturbed>>

\* The script cannot be forked or executed, or ends by a signal.
CompressionError(r) ==
  /\ stage[r] = "compress"
  /\ Fails(r)
  /\ UNCHANGED <<fileVars, explorerVars, requestVars, fileVarsOf>>

\* The requests that read an inode, except for r, are disturbed.
Disturb(r, i) ==
  disturbed' = [q \in Requests |-> disturbed[q] \/ (q # r /\ source[q] = i)]

\* The script opens its input, and creates or empties its output.
ScriptStarts(r) ==
  LET f == CompressedName(current[r])
  IN  /\ stage[r] = "compress" /\ Exists(current[r])
      /\ f.extensions <= MaxExtensions
      /\ Create(f, Held)
      /\ input' = [input EXCEPT ![r] = tree[current[r]]]
      /\ output' = [output EXCEPT ![r] = tree'[f]]
      /\ Disturb(r, tree'[f])
      /\ To(r, "script")
      /\ UNCHANGED <<explorerVars, requestVars, current, source, fileSize, compressedSize,
                     readBytes, eof, offered, outcome, undelivered>>

\* Without its input it creates nothing, and still exits with 0.
ScriptWithoutInput(r) ==
  /\ stage[r] = "compress" /\ ~Exists(current[r])
  /\ To(r, "open")
  /\ UNCHANGED <<fileVars, explorerVars, requestVars, fileVarsOf, historyVars>>

\* The script ends, having written all or a part, over what another one wrote.
ScriptEnds(r) ==
  LET others == Range(source) \cup UNION {{input[q], output[q]} : q \in Requests \ {r}}
      written(n) == [disk EXCEPT ![output[r]] = IF n > @ THEN n ELSE @]
  IN  /\ stage[r] = "script"
      /\ \E n \in 0 .. tool[disk[input[r]]] :
           disk' = [i \in Inodes |->
                      IF i \in others \cup Range(tree) THEN written(n)[i] ELSE 0]
      /\ input' = [input EXCEPT ![r] = 0]
      /\ output' = [output EXCEPT ![r] = 0]
      /\ Disturb(r, output[r])
      /\ To(r, "open")
      /\ UNCHANGED <<tree, explorerVars, requestVars, current, source, fileSize,
                     compressedSize, readBytes, eof, offered, outcome, undelivered>>

-------------------------------------------------------------------------------
(* The rest of openNextFile()                                              *)

OpenFails(r) ==
  /\ stage[r] = "open" /\ ~Exists(Compressed(r))
  /\ Fails(r)
  /\ UNCHANGED <<fileVars, explorerVars, requestVars, fileVarsOf>>

\* The file is opened and its size taken; FileProcessor sends this one.
Open(r) ==
  LET f == Compressed(r)
  IN  /\ stage[r] = "open" /\ Exists(f)
      /\ source' = [source EXCEPT ![r] = tree[f]]
      /\ eof' = [eof EXCEPT ![r] = FALSE]
      /\ fileSize' = [fileSize EXCEPT ![r] = Size(f)]
      /\ compressedSize' = [compressedSize EXCEPT ![r] = Size(f)]
      /\ readBytes' = [readBytes EXCEPT ![r] = 0]
      /\ To(r, IF mode(r) = "plain" THEN "chunks" ELSE "size")
      /\ UNCHANGED <<fileVars, explorerVars, requestVars, current, input, output, historyVars>>

\* PreCompressingFileProcessor announces the size of the original.
calculateFileSize(r) ==
  /\ stage[r] = "size" /\ Exists(current[r])
  /\ fileSize' = [fileSize EXCEPT ![r] = Size(current[r])]
  /\ To(r, "chunks")
  /\ UNCHANGED <<fileVars, explorerVars, requestVars, current, source, input, output,
                 compressedSize, readBytes, eof, historyVars>>

calculateFileSizeFails(r) ==
  /\ stage[r] = "size" /\ ~Exists(current[r])
  /\ Fails(r)
  /\ UNCHANGED <<fileVars, explorerVars, requestVars, fileVarsOf>>

-------------------------------------------------------------------------------
(* The loop over the chunks                                                *)

\* FileProcessingStrategy::hasNextChunk, which processRequest calls in any mode.
HasNextChunk_OffByOne(r) == ~eof[r] /\ readBytes[r] <= fileSize[r]

HasNextChunk(r) == ~eof[r] /\ readBytes[r] < fileSize[r]

\* The hasNextChunk that the processor's own getNextChunk() calls.
HasNextChunkOfSource(r) ==
  IF mode(r) = "plain" THEN HasNextChunk(r) ELSE ~eof[r] /\ readBytes[r] < compressedSize[r]

\* Ends the file: the loop goes on with the next one.
Ends(r, result) ==
  /\ outcome' = [outcome EXCEPT ![r] = result]
  /\ undelivered' = [undelivered EXCEPT
       ![r] = IF result = "whole" THEN @ \ {current[r]} ELSE @ \cup {current[r]}]
  /\ To(r, "loop")
  /\ UNCHANGED <<offered, disturbed>>

\* A file without a chunk; and getNextChunk() of PreCompressingFileProcessor,
\* whose own hasNextChunk counts the compressed file, throws an IOError.
NoChunk(r) ==
  /\ stage[r] = "chunks"
  /\ \/ ~HasNextChunk(r)
     \/ source[r] = 0
     \/ ~HasNextChunkOfSource(r)
  /\ Ends(r, "unended")
  /\ UNCHANGED <<fileVars, explorerVars, requestVars, fileVarsOf>>

\* After its last chunk the compressed file is closed, and its name removed.
CloseAndRemove_Original(r) ==
  /\ source' = [source EXCEPT ![r] = 0]
  /\ IF mode(r) = "script"
     THEN Remove(current[r], HeldWithout(r))
     ELSE Close(HeldWithout(r))

CloseAndRemove(r) ==
  /\ source' = [source EXCEPT ![r] = 0]
  /\ IF mode(r) = "script"
     THEN Remove(Compressed(r), HeldWithout(r))
     ELSE Close(HeldWithout(r))

getNextChunk(r) ==
  LET left == IF disk[source[r]] > readBytes[r] THEN disk[source[r]] - readBytes[r] ELSE 0
      n    == IF left < CHUNK THEN left ELSE CHUNK
  IN  /\ stage[r] = "chunks" /\ HasNextChunk(r)
      /\ source[r] # 0 /\ HasNextChunkOfSource(r)
      /\ readBytes' = [readBytes EXCEPT ![r] = @ + n]
      /\ eof' = [eof EXCEPT ![r] = n < CHUNK]
      /\ UNCHANGED <<explorerVars, requestVars, current, input, output, fileSize,
                     compressedSize>>
      /\ IF mode(r) # "plain" /\ ~HasNextChunkOfSource(r)'
         THEN CloseAndRemove(r)
         ELSE UNCHANGED <<source, fileVars>>
      /\ IF HasNextChunk(r)'
         THEN UNCHANGED <<stage, historyVars>>
         ELSE Ends(r, IF readBytes'[r] = compressedSize[r] THEN "whole" ELSE "cut")

\* No file is left: the processor goes, and its source with it.
Finish(r) ==
  /\ stage[r] = "loop" /\ ~hasNextFile(r)
  /\ source' = [source EXCEPT ![r] = 0]
  /\ Close(HeldWithout(r))
  /\ To(r, "done")
  /\ UNCHANGED <<explorerVars, requestVars, current, input, output, fileSize,
                 compressedSize, readBytes, eof, historyVars>>

Next ==
  \E r \in Requests :
    \/ preparePath(r)      \/ openNextFile(r)       \/ Found(r)
    \/ Searches(r)         \/ SearchThrows(r)       \/ CompressionError(r)
    \/ ScriptStarts(r)     \/ ScriptWithoutInput(r) \/ ScriptEnds(r)
    \/ Open(r)             \/ OpenFails(r)          \/ calculateFileSize(r)
    \/ calculateFileSizeFails(r) \/ NoChunk(r)      \/ getNextChunk(r)
    \/ Finish(r)

Spec == Init /\ [][Next]_vars

-------------------------------------------------------------------------------
(* Properties                                                              *)

Originals == DOMAIN files

\* Files that a request overwrites and removes, as they are named like the
\* compressed file of one it was given.
Overwritten ==
  {f \in Originals :
     \E r \in Requests : mode(r) = "script" /\
       \E i \in DOMAIN offered[r] : f = CompressedName(offered[r][i])}

\* The directories below the one that was asked for, without those that could not be
\* opened.
Reached(r, dir) ==
  \A D \in SUBSET {d.base : d \in Subdirectories} :
    /\ path(r).base \in D
    /\ \A d \in Subdirectories :
         d.dir \in D /\ d.base \notin explorer[r].skipped => d.base \in D
    => dir \in D

\* The files that were asked for.
Below(r) ==
  {f \in Originals :
     IF path(r) \in Subdirectories THEN Reached(r, f.dir) ELSE f = path(r)}

Times(r, f) == Cardinality({i \in DOMAIN offered[r] : offered[r][i] = f})

\* getNextFileName() gives no file twice, and when the walk is over it gave every
\* file of the tree, however many temporary files of its own and of other requests
\* came and went meanwhile and made findNextFile() throw; it leaves out what is in
\* a directory that could not be opened, and what was overwritten as if it were a
\* temporary file.
OfferedOnce ==
  \A r \in Requests : \A f \in Originals \ Overwritten :
    /\ Times(r, f) <= 1
    /\ stage[r] = "done" /\ f \in Below(r) => Times(r, f) = 1

\* The chunks of a file are all of the file that was opened, the last one of them
\* marked, exactly when the last chunk of the compressed file starts before the
\* original's size is reached, and is a short one or one that reaches it: the loop
\* counts bytes of the compressed file against the size of the original.
Covered(r) ==
  /\ compressedSize[r] > 0
  /\ ((compressedSize[r] - 1) \div CHUNK) * CHUNK < fileSize[r]
  /\ compressedSize[r] % CHUNK # 0 \/ compressedSize[r] >= fileSize[r]

ChunksCoverFile ==
  \A r \in Requests :
    outcome[r] \in {"whole", "cut", "unended"} /\ ~disturbed[r] =>
      (outcome[r] = "whole" <=> Covered(r))

\* When no request is served, every file there was is as it was, unless it was
\* overwritten as a temporary file, and a temporary file is left only of a file that
\* some request did not deliver whole.
TreeRestored ==
  (\A r \in Requests : stage[r] \in {"done", "rejected"}) =>
    /\ \A f \in Originals \ Overwritten : Exists(f) /\ Size(f) = files[f]
    /\ \A f \in DOMAIN tree \ Originals :
         \E r \in Requests : mode(r) = "script" /\
           \E g \in undelivered[r] : f = CompressedName(g)
===============================================================================
