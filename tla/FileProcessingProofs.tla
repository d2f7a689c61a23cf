-------------------------- MODULE FileProcessingProofs --------------------------
(***************************************************************************)
(* Theorems about FileProcessing, for any number of requests, any files in *)
(* any directories, any sizes and whatever the compressors make of them.   *)
(***************************************************************************)
EXTENDS FileProcessing, QueueLemmas, FiniteSetTheorems, FunctionTheorems

-------------------------------------------------------------------------------
(* The inductive invariant                                                 *)

Modes  == {"plain", "copy", "script"}
Stages == {"prepare", "rejected", "loop", "search", "compress", "script", "open", "size",
           "chunks", "done"}

\* The stages in which a request deals with a file it was given.
Busy == {"compress", "script", "open", "size", "chunks"}

\* A name a file may have.
FileName == Name \ ({NoFile} \cup Subdirectories)

TreeTyped ==
  /\ tree \in [DOMAIN tree -> Inodes]
  /\ IsInjective(tree)
  /\ DOMAIN tree \subseteq FileName
  /\ disk \in [Inodes -> Nat]

RequestTyped ==
  /\ files \in Trees /\ tool \in Tools /\ asked \in Asked
  /\ stage \in [Requests -> Stages]
  /\ current \in [Requests -> Name]
  /\ source \in [Requests -> Inodes \cup {0}]
  /\ input \in [Requests -> Inodes \cup {0}]
  /\ output \in [Requests -> Inodes \cup {0}]
  /\ fileSize \in [Requests -> Nat]
  /\ compressedSize \in [Requests -> Nat]
  /\ readBytes \in [Requests -> Nat]
  /\ eof \in [Requests -> BOOLEAN]
  /\ offered \in [Requests -> Seq(Name)]
  /\ outcome \in [Requests -> {"none", "whole", "cut", "unended", "failed"}]
  /\ disturbed \in [Requests -> BOOLEAN]
  /\ undelivered \in [Requests -> SUBSET Name]

Directory == [path : Words, buffer : SUBSET Name, returned : SUBSET Name]
Explorer ==
  [rootIsFile : BOOLEAN, filesAvailable : BOOLEAN, nextFile : Name, directory : Directory,
   directoriesQueue : Seq(Words), walked : SUBSET Words, skipped : SUBSET Words]

ExplorerTyped ==
  /\ explorer \in [Requests -> Explorer]
  /\ search \in [Requests -> {"none", "construct", "get"}]

\* What goes with the stages.
PlaceInv ==
  \A r \in Requests :
    /\ (stage[r] = "script") <=> (output[r] # 0)
    /\ search[r] = "construct" => stage[r] = "prepare"
    /\ (search[r] = "get") <=> (stage[r] = "search")

TypeInv == TreeTyped /\ RequestTyped /\ ExplorerTyped /\ PlaceInv

-------------------------------------------------------------------------------
(* Names and inodes                                                        *)

\* The compressed file of a file is no directory, and of no other file.
LEMMA CompressedNames ==
  ASSUME NEW f \in Name
  PROVE  /\ CompressedName(f) \in FileName
         /\ \A g \in Name : CompressedName(f) = CompressedName(g) => f = g
<1>1. /\ CompressedName(f) \in Name
      /\ CompressedName(f).extensions = f.extensions + 1
      /\ CompressedName(f).dir = f.dir /\ CompressedName(f).base = f.base
  BY DEF CompressedName, Name
<1>2. CompressedName(f) \in FileName
  <2>1. CompressedName(f).extensions # 0
    BY <1>1 DEF Name
  <2>2. NoFile.extensions = 0 /\ \A d \in Subdirectories : d.extensions = 0
    BY TreeAssumption DEF NoFile
  <2> QED
    BY <1>1, <2>1, <2>2 DEF FileName
<1>3. ASSUME NEW g \in Name, CompressedName(f) = CompressedName(g)
      PROVE  f = g
  <2>1. /\ CompressedName(g).extensions = g.extensions + 1
        /\ CompressedName(g).dir = g.dir /\ CompressedName(g).base = g.base
    BY DEF CompressedName, Name
  <2> QED
    BY <1>1, <1>3, <2>1 DEF Name
<1> QED
  BY <1>2, <1>3

\* Create: one name is added or there is already, and its inode emptied, which
\* nobody holds if it is new.
LEMMA CreateLemma ==
  ASSUME TreeTyped, NEW f \in FileName, NEW held, Create(f, held)
  PROVE  /\ TreeTyped'
         /\ DOMAIN tree' = DOMAIN tree \cup {f}
         /\ \A g \in DOMAIN tree : tree'[g] = tree[g]
         /\ tree'[f] \in Inodes
         /\ f \notin DOMAIN tree => tree'[f] \notin held /\ tree'[f] \notin Range(tree)
         /\ disk' = [disk EXCEPT ![tree'[f]] = 0]
<1> DEFINE free == Inodes \ (Range(tree) \cup held)
           i    == IF Exists(f) THEN tree[f] ELSE CHOOSE j \in free : TRUE
<1>1. /\ tree' = [g \in DOMAIN tree \cup {f} |-> IF g = f THEN i ELSE tree[g]]
      /\ disk' = [disk EXCEPT ![i] = 0]
      /\ Exists(f) \/ free # {}
  BY DEF Create
<1>2. i \in Inodes /\ (~Exists(f) => i \in free)
  <2>1. CASE Exists(f)
    BY <2>1 DEF TreeTyped, Exists
  <2>2. CASE ~Exists(f)
    <3>1. PICK j : j \in free
      BY <1>1, <2>2
    <3>2. (CHOOSE k \in free : TRUE) \in free
      BY <3>1
    <3> QED
      BY <2>2, <3>2
  <2> QED
    BY <2>1, <2>2
<1> HIDE DEF i
<1>3. tree'[f] = i /\ DOMAIN tree' = DOMAIN tree \cup {f}
  BY <1>1
<1>4. \A g \in DOMAIN tree : tree'[g] = tree[g]
  BY <1>1 DEF i, Exists
<1>5. f \notin DOMAIN tree => i \notin held /\ i \notin Range(tree)
  BY <1>2 DEF Exists
<1>6. TreeTyped'
  <2>1. tree' \in [DOMAIN tree' -> Inodes]
    BY <1>1, <1>2, <1>3, <1>4 DEF TreeTyped
  <2>2. IsInjective(tree')
    BY <1>3, <1>4, <1>5 DEF TreeTyped, IsInjective, Range
  <2>3. DOMAIN tree' \subseteq FileName /\ disk' \in [Inodes -> Nat]
    BY <1>1, <1>3 DEF TreeTyped
  <2> QED
    BY <2>1, <2>2, <2>3 DEF TreeTyped
<1> QED
  BY <1>1, <1>2, <1>3, <1>4, <1>5, <1>6

\* Remove and Close keep the size of whatever has a name or is held.
LEMMA RemoveLemma ==
  ASSUME TreeTyped, NEW f, NEW held, Remove(f, held)
  PROVE  /\ TreeTyped'
         /\ DOMAIN tree' = DOMAIN tree \ {f}
         /\ \A g \in DOMAIN tree' : tree'[g] = tree[g] /\ disk'[tree[g]] = disk[tree[g]]
         /\ \A i \in Inodes : i \in held => disk'[i] = disk[i]
<1>1. /\ tree' = [g \in DOMAIN tree \ {f} |-> tree[g]]
      /\ disk' = [i \in Inodes |-> IF i \in held \cup Range(tree') THEN disk[i] ELSE 0]
  BY DEF Remove, Free, Restrict
<1>2. DOMAIN tree' = DOMAIN tree \ {f} /\ \A g \in DOMAIN tree' : tree'[g] = tree[g]
  BY <1>1
<1>3. TreeTyped'
  <2>1. tree' \in [DOMAIN tree' -> Inodes]
    BY <1>1 DEF TreeTyped
  <2>2. IsInjective(tree') /\ DOMAIN tree' \subseteq FileName
    BY <1>2 DEF TreeTyped, IsInjective
  <2>3. disk' \in [Inodes -> Nat]
    BY <1>1 DEF TreeTyped
  <2> QED
    BY <2>1, <2>2, <2>3 DEF TreeTyped
<1>4. \A g \in DOMAIN tree' : tree[g] \in Inodes /\ tree[g] \in Range(tree')
  BY <1>2 DEF Range, TreeTyped
<1> QED
  BY <1>1, <1>2, <1>3, <1>4

LEMMA CloseLemma ==
  ASSUME TreeTyped, NEW held, Close(held)
  PROVE  /\ TreeTyped'
         /\ tree' = tree
         /\ \A g \in DOMAIN tree : disk'[tree[g]] = disk[tree[g]]
         /\ \A i \in Inodes : i \in held => disk'[i] = disk[i]
<1>1. /\ tree' = tree
      /\ disk' = [i \in Inodes |-> IF i \in held \cup Range(tree) THEN disk[i] ELSE 0]
  BY DEF Close, Free
<1>2. \A g \in DOMAIN tree : tree[g] \in Inodes /\ tree[g] \in Range(tree)
  BY DEF Range, TreeTyped
<1> QED
  BY <1>1, <1>2 DEF TreeTyped

-------------------------------------------------------------------------------
(* Types                                                                   *)

\* At first the files have an inode each.
LEMMA InitTree ==
  ASSUME Init
  PROVE  /\ TreeTyped
         /\ DOMAIN tree = DOMAIN files
         /\ \A f \in DOMAIN files : disk[tree[f]] = files[f]
<1> DEFINE F == DOMAIN files
           n == Cardinality(F)
<1>1. /\ IsFiniteSet(F) /\ 1 .. n \subseteq Inodes
      /\ F \subseteq FileName /\ \A f \in F : files[f] \in Nat
  BY FileAssumption DEF Init, FileName
<1>2. tree \in [F -> 1 .. n] /\ IsInjective(tree)
  <2>1. ExistsBijection(F, 1 .. n)
    BY <1>1, FS_CardinalityType, Fun_ExistsBijSymmetric
  <2>2. PICK t : t \in [F -> 1 .. n] /\ IsInjective(t)
    BY <2>1 DEF ExistsBijection, Bijection, Injection, IsInjective
  <2>3. tree = CHOOSE u \in [F -> 1 .. n] : IsInjective(u)
    BY DEF Init
  <2> QED
    BY <2>2, <2>3
<1>3. \A f \in F : (CHOOSE g \in F : tree[g] = tree[f]) = f
  BY <1>2 DEF IsInjective
<1> DEFINE size(i) == IF i \in Range(tree) THEN files[CHOOSE g \in F : tree[g] = i] ELSE 0
<1>4. disk = [i \in Inodes |-> size(i)]
  BY DEF Init
<1>5. ASSUME NEW f \in F
      PROVE  size(tree[f]) = files[f] /\ tree[f] \in Inodes
  BY <1>1, <1>2, <1>3 DEF Range
<1>6. ASSUME NEW i
      PROVE  size(i) \in Nat
  <2>1. CASE i \in Range(tree)
    <3>1. PICK f \in F : tree[f] = i
      BY <1>2, <2>1 DEF Range
    <3> QED
      BY <1>1, <1>5, <3>1
  <2>2. CASE i \notin Range(tree)
    BY <2>2
  <2> QED
    BY <2>1, <2>2
<1> HIDE DEF size
<1>7. disk \in [Inodes -> Nat] /\ \A f \in F : disk[tree[f]] = files[f]
  BY <1>4, <1>5, <1>6
<1> QED
  BY <1>1, <1>2, <1>7 DEF TreeTyped

LEMMA InitTyping == Init => TypeInv
<1> SUFFICES ASSUME Init
             PROVE  TypeInv
  OBVIOUS
<1>1. NoFile \in Name
  BY TreeAssumption DEF NoFile, Name
<1>2. Unopened \in Directory
  BY TreeAssumption DEF Unopened, Directory
<1>3. RequestTyped
  BY <1>1 DEF Init, InitExplorer, RequestTyped, Of, Stages
<1>4. ExplorerTyped
  <2>1. [rootIsFile |-> FALSE, filesAvailable |-> TRUE, nextFile |-> NoFile,
         directory |-> Unopened, directoriesQueue |-> <<>>,
         walked |-> {}, skipped |-> {}] \in Explorer
    BY <1>1, <1>2 DEF Explorer
  <2> QED
    BY <2>1 DEF Init, InitExplorer, ExplorerTyped
<1>5. PlaceInv
  BY DEF Init, InitExplorer, PlaceInv, Of
<1> QED
  BY <1>3, <1>4, <1>5, InitTree DEF TypeInv

\* The walk keeps the explorer's types.
LEMMA WalkTyping ==
  ASSUME TreeTyped, ExplorerTyped, NEW r \in Requests,
         NEW p \in Name,
         \/ ConstructFile(r, p) \/ ConstructDirectory(r, p) \/ getNextFileName(r)
         \/ findNextFile_End(r) \/ findNextFile_Directory(r) \/ findNextFile_NextDirectory(r)
         \/ \E entry \in DOMAIN tree : findNextFile_File(r, entry)
         \/ \E entry \in explorer[r].directory.buffer : findNextFile_Throws(r, entry)
  PROVE  ExplorerTyped'
<1>1. /\ explorer[r] \in Explorer /\ search[r] \in {"none", "construct", "get"}
      /\ explorer[r].directory \in Directory /\ explorer[r].directoriesQueue \in Seq(Words)
      /\ explorer[r].walked \subseteq Words /\ explorer[r].skipped \subseteq Words
      /\ explorer[r].directory.path \in Words
      /\ explorer[r].directory.buffer \subseteq Name
      /\ explorer[r].directory.returned \subseteq Name
  BY DEF ExplorerTyped, Explorer, Directory
<1>2. /\ \A dir \in Words : Opened(dir) \in Directory
      /\ Unopened \in Directory /\ NoFile \in Name
      /\ DOMAIN tree \subseteq Name /\ Subdirectories \subseteq Name
  BY TreeAssumption
     DEF Opened, Unopened, Directory, Listing, TreeTyped, FileName, Name, NoFile
<1>3. CASE ConstructFile(r, p)
  BY <1>1, <1>3 DEF ConstructFile, ExplorerTyped, Explorer
<1>4. CASE ConstructDirectory(r, p)
  <2>1. Opened(p.base) \in Directory
    BY <1>2 DEF Name
  <2> QED
    BY <1>1, <1>4, <2>1 DEF ConstructDirectory, ExplorerTyped, Explorer
<1>5. CASE getNextFileName(r)
  <2>1. \/ explorer' = [explorer EXCEPT ![r].filesAvailable = FALSE] /\ search' = search
        \/ explorer' = explorer /\ search' = [search EXCEPT ![r] = "get"]
    BY <1>5 DEF getNextFileName
  <2>2. [explorer[r] EXCEPT !.filesAvailable = FALSE] \in Explorer
    BY <1>1 DEF Explorer
  <2> QED
    BY <1>1, <2>1, <2>2 DEF ExplorerTyped
<1>6. CASE findNextFile_Directory(r)
  <2>1. PICK entry \in Subdirectories :
          /\ explorer' = [explorer EXCEPT
               ![r].directory.returned = @ \cup {entry},
               ![r].directoriesQueue = Append(@, entry.base)]
          /\ UNCHANGED search
    BY <1>6 DEF findNextFile_Directory
  <2>2. entry \in Name /\ entry.base \in Words
    BY <1>2 DEF Name
  <2>3. Append(explorer[r].directoriesQueue, entry.base) \in Seq(Words)
    BY <1>1, <2>2
  <2> QED
    BY <1>1, <2>1, <2>2, <2>3 DEF ExplorerTyped, Explorer, Directory
<1>7. ASSUME NEW entry \in DOMAIN tree, findNextFile_File(r, entry)
      PROVE  ExplorerTyped'
  <2>1. entry \in Name
    BY <1>2
  <2> QED
    BY <1>1, <1>7, <2>1 DEF findNextFile_File, ExplorerTyped, Explorer, Directory
<1>8. ASSUME NEW entry \in explorer[r].directory.buffer, findNextFile_Throws(r, entry)
      PROVE  ExplorerTyped'
  <2>1. entry \in Name
    BY <1>1, <1>8
  <2>2. /\ explorer' = [explorer EXCEPT ![r].directory.returned = @ \cup {entry}]
        /\ search' = [search EXCEPT ![r] = "none"]
    BY <1>8 DEF findNextFile_Throws
  <2> QED
    BY <1>1, <2>1, <2>2 DEF ExplorerTyped, Explorer, Directory
<1>9. CASE findNextFile_NextDirectory(r)
  <2> DEFINE q == explorer[r].directoriesQueue
  <2>1. PICK k \in 1 .. Len(q) :
           explorer' = [explorer EXCEPT
             ![r].directory = Opened(q[k]),
             ![r].directoriesQueue = SubSeq(q, k + 1, Len(q)),
             ![r].walked = @ \cup {explorer[r].directory.path},
             ![r].skipped = @ \cup {q[j] : j \in 1 .. k - 1}]
    BY <1>9 DEF findNextFile_NextDirectory
  <2>2. /\ Len(q) \in Nat /\ k \in Nat
        /\ \A j \in 1 .. Len(q) : q[j] \in Words
    BY <1>1
  <2>3. Opened(q[k]) \in Directory
    BY <1>2, <2>2
  <2>4. SubSeq(q, k + 1, Len(q)) \in Seq(Words)
    BY <1>1, <2>2, SubSeqProperties
  <2>5. {q[j] : j \in 1 .. k - 1} \subseteq Words
    BY <2>2
  <2>6. search' = search
    BY <1>9 DEF findNextFile_NextDirectory
  <2> HIDE DEF q
  <2> QED
    BY <1>1, <2>1, <2>3, <2>4, <2>5, <2>6 DEF ExplorerTyped, Explorer
<1>10. CASE findNextFile_End(r)
  <2> DEFINE q == explorer[r].directoriesQueue
  <2>1. {q[j] : j \in 1 .. Len(q)} \subseteq Words /\ <<>> \in Seq(Words)
    BY <1>1
  <2>2. /\ explorer' = [explorer EXCEPT
             ![r].directory = Unopened, ![r].directoriesQueue = <<>>,
             ![r].nextFile = NoFile, ![r].filesAvailable = FALSE,
             ![r].walked = @ \cup {explorer[r].directory.path},
             ![r].skipped = @ \cup {q[j] : j \in 1 .. Len(q)}]
        /\ search' = [search EXCEPT ![r] = "none"]
    BY <1>10 DEF findNextFile_End
  <2>3. [explorer[r] EXCEPT
             !.directory = Unopened, !.directoriesQueue = <<>>,
             !.nextFile = NoFile, !.filesAvailable = FALSE,
             !.walked = @ \cup {explorer[r].directory.path},
             !.skipped = @ \cup {q[j] : j \in 1 .. Len(q)}] \in Explorer
    BY <1>1, <1>2, <2>1 DEF Explorer
  <2> HIDE DEF q
  <2> QED
    BY <1>1, <2>2, <2>3 DEF ExplorerTyped
<1> QED
  BY <1>3, <1>4, <1>5, <1>6, <1>7, <1>8, <1>9, <1>10

\* A step of one request.
Step(r) ==
  \/ preparePath(r)      \/ openNextFile(r)       \/ Found(r)
  \/ Searches(r)         \/ SearchThrows(r)       \/ CompressionError(r)
  \/ ScriptStarts(r)     \/ ScriptWithoutInput(r) \/ ScriptEnds(r)
  \/ Open(r)             \/ OpenFails(r)          \/ calculateFileSize(r)
  \/ calculateFileSizeFails(r) \/ NoChunk(r)      \/ getNextChunk(r)
  \/ Finish(r)

LEMMA TypingStep ==
  ASSUME TypeInv, NEW r \in Requests, Step(r)
  PROVE  TypeInv'
<1> USE DEF TypeInv, fileVars, explorerVars, requestVars, fileVarsOf, historyVars
<1>1. /\ path(r) \in Name /\ mode(r) \in Modes
      /\ stage[r] \in Stages /\ current[r] \in Name /\ offered[r] \in Seq(Name)
      /\ undelivered[r] \subseteq Name
      /\ explorer[r].nextFile \in Name /\ explorer[r] \in Explorer
  BY FileAssumption DEF RequestTyped, ExplorerTyped, Explorer, path, mode, Modes
<1>2. CASE preparePath(r)
  <2>1. TreeTyped'
    BY <1>2 DEF preparePath, TreeTyped
  <2>2. RequestTyped'
    BY <1>1, <1>2 DEF preparePath, RequestTyped, To, Stages
  <2>3. ExplorerTyped'
    <3>1. CASE ConstructFails(r, path(r))
      BY <3>1 DEF ConstructFails, ExplorerTyped
    <3> QED
      BY <1>1, <1>2, <3>1, WalkTyping DEF preparePath
  <2>4. PlaceInv'
    BY <1>1, <1>2 DEF preparePath, ConstructFile, ConstructDirectory, ConstructFails, RequestTyped, ExplorerTyped, PlaceInv, To
  <2> QED
    BY <2>1, <2>2, <2>3, <2>4
<1>3. CASE openNextFile(r)
  <2>1. TreeTyped'
    BY <1>3, CloseLemma DEF openNextFile
  <2>2. RequestTyped'
    <3>1. source' = [source EXCEPT ![r] = 0]
      BY <1>3 DEF openNextFile
    <3>2. CASE explorer[r].rootIsFile
      <4>1. Proceed(r, explorer[r].nextFile) /\ UNCHANGED eof
        BY <1>3, <3>2 DEF openNextFile
      <4> QED
        BY <1>1, <3>1, <4>1 DEF Proceed, RequestTyped, To, Stages
    <3>3. CASE ~explorer[r].rootIsFile
      <4>1. /\ current' = [current EXCEPT ![r] = explorer[r].nextFile]
            /\ stage' = [stage EXCEPT ![r] = "search"]
            /\ UNCHANGED <<requestVars, input, output, fileSize, compressedSize, readBytes, eof,
                            historyVars>>
        BY <1>3, <3>3 DEF openNextFile, To
      <4> QED
        BY <1>1, <3>1, <4>1 DEF RequestTyped, Stages
    <3> QED
      BY <3>2, <3>3
  <2>3. ExplorerTyped'
    BY <1>1, <1>3, WalkTyping DEF openNextFile
  <2>4. PlaceInv'
    BY <1>1, <1>3 DEF openNextFile, getNextFileName, Proceed, RequestTyped, ExplorerTyped, PlaceInv, To
  <2> QED
    BY <2>1, <2>2, <2>3, <2>4
<1>4. CASE Found(r)
  <2>1. TreeTyped'
    BY <1>4 DEF Found, TreeTyped
  <2>2. /\ search[r] # "none"
        /\ search' = [search EXCEPT ![r] = "none"]
    BY <1>4 DEF Found, findNextFile_End, findNextFile_File, EndOfDirectory
  <2>3. ASSUME search[r] = "construct"
        PROVE  RequestTyped' /\ PlaceInv'
    <3>1. stage' = [stage EXCEPT ![r] = "loop"]
          /\ UNCHANGED <<requestVars, fileVarsOf, historyVars>>
      BY <1>4, <2>3 DEF Found, To
    <3>2. RequestTyped'
      BY <3>1 DEF RequestTyped, Stages
    <3>3. PlaceInv'
      BY <3>1, <2>2, <2>3 DEF RequestTyped, PlaceInv, ExplorerTyped
    <3> QED
      BY <3>2, <3>3
  <2>4. ASSUME search[r] # "construct"
        PROVE  RequestTyped' /\ PlaceInv'
    <3>1. Proceed(r, current[r]) /\ UNCHANGED <<source, eof>>
      BY <1>4, <2>4 DEF Found
    <3>2. search[r] = "get"
      BY <2>2, <2>4 DEF ExplorerTyped
    <3>3. RequestTyped'
      BY <1>1, <3>1 DEF Proceed, RequestTyped, To, Stages
    <3>4. PlaceInv'
      BY <3>1, <3>2, <2>2 DEF Proceed, RequestTyped, PlaceInv, ExplorerTyped, To
    <3> QED
      BY <3>3, <3>4
  <2>5. RequestTyped' /\ PlaceInv'
    BY <2>3, <2>4
  <2>6. ExplorerTyped'
    BY <1>1, <1>4, WalkTyping DEF Found
  <2> QED
    BY <2>1, <2>5, <2>6
<1>5. CASE Searches(r)
  <2>1. TreeTyped'
    BY <1>5 DEF Searches, TreeTyped
  <2>2. RequestTyped'
    BY <1>1, <1>5 DEF Searches, RequestTyped, To, Stages
  <2>3. ExplorerTyped'
    BY <1>1, <1>5, WalkTyping DEF Searches
  <2>4. PlaceInv'
    BY <1>1, <1>5 DEF Searches, findNextFile_Directory, findNextFile_NextDirectory, RequestTyped, ExplorerTyped, PlaceInv, To
  <2> QED
    BY <2>1, <2>2, <2>3, <2>4
<1>6. CASE SearchThrows(r)
  <2>1. TreeTyped'
    BY <1>6 DEF SearchThrows, TreeTyped
  <2>2. RequestTyped'
    BY <1>1, <1>6 DEF SearchThrows, RequestTyped, To, Stages
  <2>3. ExplorerTyped'
    BY <1>1, <1>6, WalkTyping DEF SearchThrows
  <2>4. PlaceInv'
    BY <1>1, <1>6 DEF SearchThrows, findNextFile_Throws, RequestTyped, ExplorerTyped, PlaceInv, To
  <2> QED
    BY <2>1, <2>2, <2>3, <2>4
<1>7. CASE CompressionError(r)
  <2>1. TreeTyped'
    BY <1>7 DEF CompressionError, Fails, TreeTyped
  <2>2. RequestTyped'
    BY <1>1, <1>7 DEF CompressionError, Fails, RequestTyped, To, Stages
  <2>3. ExplorerTyped'
    BY <1>7 DEF CompressionError, Fails, ExplorerTyped
  <2>4. PlaceInv'
    BY <1>1, <1>7 DEF CompressionError, Fails, RequestTyped, ExplorerTyped, PlaceInv, To
  <2> QED
    BY <2>1, <2>2, <2>3, <2>4
<1>8. CASE ScriptStarts(r)
  <2> DEFINE f == CompressedName(current[r])
  <2>1. f \in FileName /\ Create(f, Held)
    BY <1>1, <1>8, CompressedNames DEF ScriptStarts
  <2>2. TreeTyped' /\ tree'[f] \in Inodes
    BY <2>1, CreateLemma
  <2> HIDE DEF f
  <2>3. tree[current[r]] \in Inodes /\ 0 \notin Inodes
    BY <1>8, TreeAssumption DEF ScriptStarts, Exists, TreeTyped
  <2>4. /\ stage[r] = "compress" /\ stage' = [stage EXCEPT ![r] = "script"]
        /\ input' = [input EXCEPT ![r] = tree[current[r]]]
        /\ output' = [output EXCEPT ![r] = tree'[f]]
        /\ disturbed' = [q \in Requests |-> disturbed[q] \/ (q # r /\ source[q] = tree'[f])]
        /\ UNCHANGED <<explorerVars, requestVars, current, source, fileSize, compressedSize,
                       readBytes, eof, offered, outcome, undelivered>>
    BY <1>8 DEF ScriptStarts, Disturb, To, f
  <2>5. RequestTyped'
    BY <2>2, <2>3, <2>4 DEF RequestTyped, Stages
  <2>6. ExplorerTyped'
    BY <2>4 DEF ExplorerTyped
  <2>7. PlaceInv'
    BY <1>1, <2>2, <2>3, <2>4 DEF PlaceInv, RequestTyped
  <2> QED
    BY <2>2, <2>5, <2>6, <2>7
<1>9. CASE ScriptWithoutInput(r)
  <2>1. TreeTyped'
    BY <1>9 DEF ScriptWithoutInput, TreeTyped
  <2>2. RequestTyped'
    BY <1>1, <1>9 DEF ScriptWithoutInput, RequestTyped, To, Stages
  <2>3. ExplorerTyped'
    BY <1>9 DEF ScriptWithoutInput, ExplorerTyped
  <2>4. PlaceInv'
    BY <1>1, <1>9 DEF ScriptWithoutInput, RequestTyped, ExplorerTyped, PlaceInv, To
  <2> QED
    BY <2>1, <2>2, <2>3, <2>4
<1>10. CASE ScriptEnds(r)
  <2>1. TreeTyped'
    <3>1. disk' \in [Inodes -> Nat]
      BY <1>10 DEF ScriptEnds, TreeTyped
    <3> QED
      BY <1>10, <3>1 DEF ScriptEnds, TreeTyped
  <2>2. RequestTyped'
    BY <1>1, <1>10 DEF ScriptEnds, Disturb, RequestTyped, To, Stages
  <2>3. ExplorerTyped'
    BY <1>10 DEF ScriptEnds, Disturb, ExplorerTyped
  <2>4. PlaceInv'
    BY <1>1, <1>10 DEF ScriptEnds, RequestTyped, PlaceInv, To
  <2> QED
    BY <2>1, <2>2, <2>3, <2>4
<1>11. CASE Open(r)
  <2>1. TreeTyped'
    BY <1>11 DEF Open, TreeTyped
  <2>2. tree[Compressed(r)] \in Inodes /\ disk[tree[Compressed(r)]] \in Nat
    BY <1>11 DEF Open, Exists, TreeTyped
  <2>3. RequestTyped'
    BY <1>1, <1>11, <2>2 DEF Open, Size, RequestTyped, To, Stages
  <2>4. ExplorerTyped'
    BY <1>11 DEF Open, Size, ExplorerTyped
  <2>5. PlaceInv'
    BY <1>1, <1>11 DEF Open, RequestTyped, ExplorerTyped, PlaceInv, To
  <2> QED
    BY <2>1, <2>3, <2>4, <2>5
<1>12. CASE OpenFails(r)
  <2>1. TreeTyped'
    BY <1>12 DEF OpenFails, Fails, TreeTyped
  <2>2. RequestTyped'
    BY <1>1, <1>12 DEF OpenFails, Fails, RequestTyped, To, Stages
  <2>3. ExplorerTyped'
    BY <1>12 DEF OpenFails, Fails, ExplorerTyped
  <2>4. PlaceInv'
    BY <1>1, <1>12 DEF OpenFails, Fails, RequestTyped, ExplorerTyped, PlaceInv, To
  <2> QED
    BY <2>1, <2>2, <2>3, <2>4
<1>13. CASE calculateFileSize(r)
  <2>1. TreeTyped'
    BY <1>13 DEF calculateFileSize, TreeTyped
  <2>2. disk[tree[current[r]]] \in Nat
    BY <1>13 DEF calculateFileSize, Exists, TreeTyped
  <2>3. RequestTyped'
    BY <1>1, <1>13, <2>2 DEF calculateFileSize, Size, RequestTyped, To, Stages
  <2>4. ExplorerTyped'
    BY <1>13 DEF calculateFileSize, Size, ExplorerTyped
  <2>5. PlaceInv'
    BY <1>1, <1>13 DEF calculateFileSize, RequestTyped, ExplorerTyped, PlaceInv, To
  <2> QED
    BY <2>1, <2>3, <2>4, <2>5
<1>14. CASE calculateFileSizeFails(r)
  <2>1. TreeTyped'
    BY <1>14 DEF calculateFileSizeFails, Fails, TreeTyped
  <2>2. RequestTyped'
    BY <1>1, <1>14 DEF calculateFileSizeFails, Fails, RequestTyped, To, Stages
  <2>3. ExplorerTyped'
    BY <1>14 DEF calculateFileSizeFails, Fails, ExplorerTyped
  <2>4. PlaceInv'
    BY <1>1, <1>14 DEF calculateFileSizeFails, Fails, RequestTyped, ExplorerTyped, PlaceInv, To
  <2> QED
    BY <2>1, <2>2, <2>3, <2>4
<1>15. CASE NoChunk(r)
  <2>1. TreeTyped'
    BY <1>15 DEF NoChunk, Ends, TreeTyped
  <2>2. RequestTyped'
    BY <1>1, <1>15 DEF NoChunk, Ends, RequestTyped, To, Stages
  <2>3. ExplorerTyped'
    BY <1>15 DEF NoChunk, Ends, ExplorerTyped
  <2>4. PlaceInv'
    BY <1>1, <1>15 DEF NoChunk, Ends, RequestTyped, ExplorerTyped, PlaceInv, To
  <2> QED
    BY <2>1, <2>2, <2>3, <2>4
<1>16. CASE getNextChunk(r)
  <2> DEFINE left == IF disk[source[r]] > readBytes[r] THEN disk[source[r]] - readBytes[r] ELSE 0
             n    == IF left < CHUNK THEN left ELSE CHUNK
  <2>1. readBytes[r] \in Nat /\ disk[source[r]] \in Nat /\ n \in Nat
    BY <1>16, FileAssumption DEF getNextChunk, RequestTyped, TreeTyped
  <2>2. TreeTyped'
    <3>1. \/ CloseAndRemove(r) \/ UNCHANGED fileVars
      BY <1>16 DEF getNextChunk
    <3>2. CASE CloseAndRemove(r)
      BY <3>2, RemoveLemma, CloseLemma DEF CloseAndRemove
    <3>3. CASE UNCHANGED fileVars
      BY <3>3 DEF TreeTyped
    <3> QED
      BY <3>1, <3>2, <3>3
  <2>3. /\ source' = [source EXCEPT ![r] = 0] \/ source' = source
        /\ readBytes' = [readBytes EXCEPT ![r] = @ + n]
        /\ eof' = [eof EXCEPT ![r] = n < CHUNK]
        /\ UNCHANGED <<requestVars, current, input, output, fileSize, compressedSize>>
    BY <1>16 DEF getNextChunk, CloseAndRemove
  <2>4. \/ UNCHANGED <<stage, historyVars>>
        \/ \E result \in {"whole", "cut"} : Ends(r, result)
    BY <1>16 DEF getNextChunk
  <2>5. stage[r] = "chunks"
    BY <1>16 DEF getNextChunk
  <2> HIDE DEF n
  <2>6. RequestTyped'
    <3>1. eof' \in [Requests -> BOOLEAN] /\ readBytes' \in [Requests -> Nat]
      BY <2>1, <2>3 DEF RequestTyped
    <3>2. CASE UNCHANGED <<stage, historyVars>>
      BY <2>3, <3>1, <3>2 DEF RequestTyped
    <3>3. ASSUME NEW result \in {"whole", "cut"}, Ends(r, result)
          PROVE  RequestTyped'
      BY <1>1, <2>3, <2>5, <3>1, <3>3 DEF RequestTyped, Ends, To, Stages
    <3> QED
      BY <2>4, <3>2, <3>3
  <2>7. ExplorerTyped'
    BY <1>16 DEF getNextChunk, ExplorerTyped
  <2>8. PlaceInv'
    BY <1>16, <2>3, <2>4, <2>5 DEF getNextChunk, PlaceInv, RequestTyped, Ends, To
  <2> QED
    BY <2>2, <2>6, <2>7, <2>8
<1>17. CASE Finish(r)
  <2>1. TreeTyped'
    BY <1>17, CloseLemma DEF Finish
  <2>2. RequestTyped'
    BY <1>1, <1>17 DEF Finish, RequestTyped, To, Stages
  <2>3. ExplorerTyped'
    BY <1>17 DEF Finish, ExplorerTyped
  <2>4. PlaceInv'
    BY <1>1, <1>17 DEF Finish, RequestTyped, ExplorerTyped, PlaceInv, To
  <2> QED
    BY <2>1, <2>2, <2>3, <2>4
<1> QED
  BY <1>2, <1>3, <1>4, <1>5, <1>6, <1>7, <1>8, <1>9, <1>10, <1>11, <1>12, <1>13, <1>14, <1>15, <1>16, <1>17 DEF Step

-------------------------------------------------------------------------------
(* Steps                                                                   *)

\* What a step of one request leaves to another one.
Apart(q) ==
  /\ stage'[q] = stage[q] /\ current'[q] = current[q]
  /\ source'[q] = source[q] /\ input'[q] = input[q] /\ output'[q] = output[q]
  /\ fileSize'[q] = fileSize[q] /\ compressedSize'[q] = compressedSize[q]
  /\ readBytes'[q] = readBytes[q] /\ eof'[q] = eof[q]
  /\ offered'[q] = offered[q] /\ outcome'[q] = outcome[q]
  /\ undelivered'[q] = undelivered[q]
  /\ explorer'[q] = explorer[q] /\ search'[q] = search[q]
  /\ disturbed[q] => disturbed'[q]

LEMMA StepsApart ==
  ASSUME TypeInv, NEW r \in Requests, Step(r), NEW q \in Requests, q # r
  PROVE  Apart(q)
<1> USE DEF TypeInv, RequestTyped, ExplorerTyped, fileVars, explorerVars, requestVars,
            fileVarsOf, historyVars, Apart, To
<1>1. CASE preparePath(r)
  BY <1>1 DEF preparePath, ConstructFile, ConstructDirectory, ConstructFails
<1>2. CASE openNextFile(r)
  BY <1>2 DEF openNextFile, getNextFileName, Proceed
<1>3. CASE Found(r)
  <2>1. explorer'[q] = explorer[q] /\ search'[q] = search[q]
    BY <1>3 DEF Found, findNextFile_End, findNextFile_File
  <2>2. \/ stage' = [stage EXCEPT ![r] = "loop"] /\ UNCHANGED <<fileVarsOf, historyVars>>
        \/ Proceed(r, current[r]) /\ UNCHANGED <<source, eof>>
    BY <1>3 DEF Found
  <2>3. CASE stage' = [stage EXCEPT ![r] = "loop"] /\ UNCHANGED <<fileVarsOf, historyVars>>
    BY <2>1, <2>3
  <2>4. CASE Proceed(r, current[r]) /\ UNCHANGED <<source, eof>>
    BY <2>1, <2>4 DEF Proceed
  <2> QED
    BY <2>2, <2>3, <2>4
<1>4. CASE Searches(r)
  BY <1>4 DEF Searches, findNextFile_Directory, findNextFile_NextDirectory
<1>5. CASE SearchThrows(r)
  BY <1>5 DEF SearchThrows, findNextFile_Throws
<1>6. CASE CompressionError(r) \/ OpenFails(r) \/ calculateFileSizeFails(r)
  BY <1>6 DEF CompressionError, OpenFails, calculateFileSizeFails, Fails
<1>7. CASE ScriptStarts(r) \/ ScriptEnds(r)
  BY <1>7 DEF ScriptStarts, ScriptEnds, Disturb
<1>8. CASE ScriptWithoutInput(r) \/ Open(r) \/ calculateFileSize(r) \/ Finish(r)
  BY <1>8 DEF ScriptWithoutInput, Open, calculateFileSize, Finish
<1>9. CASE NoChunk(r)
  BY <1>9 DEF NoChunk, Ends
<1>10. CASE getNextChunk(r)
  BY <1>10 DEF getNextChunk, CloseAndRemove, Ends
<1> QED
  BY <1>1, <1>2, <1>3, <1>4, <1>5, <1>6, <1>7, <1>8, <1>9, <1>10 DEF Step

\* What was asked and what there was at first stay; files are only offered more.
LEMMA OnlyOffered ==
  ASSUME TypeInv, NEW r \in Requests, Step(r)
  PROVE  /\ files' = files /\ tool' = tool /\ asked' = asked
         /\ \/ offered'[r] = offered[r]
            \/ \E f \in Name : offered'[r] = Append(offered[r], f)
         /\ Originals' = Originals
         /\ Overwritten \subseteq Overwritten'
<1>1. files' = files /\ tool' = tool /\ asked' = asked
  BY DEF Step, requestVars, preparePath, openNextFile, Proceed, Found, Searches, SearchThrows,
         CompressionError, ScriptStarts, ScriptWithoutInput, ScriptEnds, Open, OpenFails,
         calculateFileSize, calculateFileSizeFails, NoChunk, getNextChunk, Finish
<1>2. \/ offered'[r] = offered[r]
      \/ \E f \in Name : offered'[r] = Append(offered[r], f)
  <2>1. ASSUME NEW f \in Name, Proceed(r, f)
        PROVE  offered'[r] = Append(offered[r], f)
    BY <2>1 DEF Proceed, TypeInv, RequestTyped
  <2>2. current[r] \in Name /\ explorer[r].nextFile \in Name
    BY DEF TypeInv, RequestTyped, ExplorerTyped, Explorer
  <2>3. CASE openNextFile(r)
    BY <2>1, <2>2, <2>3 DEF openNextFile, historyVars
  <2>4. CASE Found(r)
    BY <2>1, <2>2, <2>4 DEF Found, historyVars
  <2>5. CASE ~openNextFile(r) /\ ~Found(r)
    BY <2>5 DEF Step, historyVars, preparePath, Searches, SearchThrows,
         CompressionError, ScriptStarts, ScriptWithoutInput, ScriptEnds, Open, OpenFails,
         calculateFileSize, calculateFileSizeFails, NoChunk, getNextChunk, Finish, Fails, Ends
  <2> QED
    BY <2>3, <2>4, <2>5
<1>3. \A q \in Requests : \A i \in DOMAIN offered[q] :
        i \in DOMAIN offered'[q] /\ offered'[q][i] = offered[q][i]
  <2> SUFFICES ASSUME NEW q \in Requests, NEW i \in DOMAIN offered[q]
               PROVE  i \in DOMAIN offered'[q] /\ offered'[q][i] = offered[q][i]
    OBVIOUS
  <2>1. offered[q] \in Seq(Name)
    BY DEF TypeInv, RequestTyped
  <2>2. CASE offered'[q] = offered[q]
    BY <2>2
  <2>3. ASSUME NEW f \in Name, offered'[q] = Append(offered[q], f)
        PROVE  i \in DOMAIN offered'[q] /\ offered'[q][i] = offered[q][i]
    BY <2>1, <2>3
  <2>4. q # r => offered'[q] = offered[q]
    BY StepsApart DEF Apart
  <2> QED
    BY <1>2, <2>2, <2>3, <2>4
<1>4. Originals' = Originals
  BY <1>1 DEF Originals
<1>5. ASSUME NEW f \in Overwritten
      PROVE  f \in Overwritten'
  <2>1. PICK q \in Requests : mode(q) = "script" /\
          \E i \in DOMAIN offered[q] : f = CompressedName(offered[q][i])
    BY <1>5 DEF Overwritten
  <2>2. mode(q)' = "script"
    BY <1>1, <2>1 DEF mode
  <2>3. PICK i \in DOMAIN offered[q] : f = CompressedName(offered[q][i])
    BY <2>1
  <2>4. i \in DOMAIN offered'[q] /\ f = CompressedName(offered'[q][i])
    BY <1>3, <2>3
  <2>5. f \in Originals'
    BY <1>4, <1>5 DEF Overwritten
  <2> QED
    BY <2>2, <2>4, <2>5 DEF Overwritten
<1> QED
  BY <1>1, <1>2, <1>4, <1>5

-------------------------------------------------------------------------------
(* The tree                                                                *)

\* A request that deals with a file was given it, and nothing has come of it yet.
BusyInv ==
  \A r \in Requests : stage[r] \in Busy =>
    /\ outcome[r] = "none"
    /\ \E i \in DOMAIN offered[r] : offered[r][i] = current[r]
    /\ stage[r] \in {"compress", "script"} => mode(r) = "script"

OriginalsKept ==
  \A f \in Originals \ Overwritten : f \in DOMAIN tree /\ disk[tree[f]] = files[f]

\* What a script writes to has no other name than that of its compressed file.
OutputInv ==
  \A r \in Requests : stage[r] = "script" =>
    \A f \in DOMAIN tree : tree[f] = output[r] => f = CompressedName(current[r])

\* A temporary file is that of a request that is sending it, or of a file that a
\* request did not deliver.
Sending == {"script", "open", "size", "chunks"}

TemporaryInv ==
  \A f \in DOMAIN tree \ Originals : \E r \in Requests :
    /\ mode(r) = "script"
    /\ \/ stage[r] \in Sending /\ f = CompressedName(current[r])
       \/ \E g \in undelivered[r] : f = CompressedName(g)

TreeInv == BusyInv /\ OriginalsKept /\ OutputInv /\ TemporaryInv

LEMMA InitTreeInv == Init => TreeInv
<1> SUFFICES ASSUME Init
             PROVE  TreeInv
  OBVIOUS
<1>1. BusyInv /\ OutputInv
  BY DEF Init, Of, BusyInv, OutputInv, Busy
<1>2. OriginalsKept /\ TemporaryInv
  BY InitTree DEF OriginalsKept, TemporaryInv, Originals
<1> QED
  BY <1>1, <1>2 DEF TreeInv

LEMMA BusyStep ==
  ASSUME TypeInv, BusyInv, NEW r \in Requests, Step(r)
  PROVE  BusyInv'
<1> SUFFICES ASSUME NEW q \in Requests, stage'[q] \in Busy
             PROVE  /\ outcome'[q] = "none"
                    /\ \E i \in DOMAIN offered'[q] : offered'[q][i] = current'[q]
                    /\ stage'[q] \in {"compress", "script"} => mode(q)' = "script"
  BY DEF BusyInv
<1>1. mode(q)' = mode(q)
  BY OnlyOffered DEF mode
<1>2. CASE q # r
  BY <1>1, <1>2, StepsApart DEF BusyInv, Apart
<1>3. ASSUME q = r, NEW f \in Name, Proceed(r, f)
      PROVE  /\ outcome'[q] = "none"
             /\ \E i \in DOMAIN offered'[q] : offered'[q][i] = current'[q]
             /\ stage'[q] \in {"compress", "script"} => mode(q)' = "script"
  <2>1. /\ offered'[r] = Append(offered[r], f) /\ current'[r] = f /\ outcome'[r] = "none"
        /\ stage'[r] = IF mode(r) = "script" THEN "compress" ELSE "open"
    BY <1>3 DEF Proceed, TypeInv, RequestTyped, To
  <2>2. offered[r] \in Seq(Name)
    BY DEF TypeInv, RequestTyped
  <2>3. /\ Len(offered[r]) + 1 \in DOMAIN offered'[r]
        /\ offered'[r][Len(offered[r]) + 1] = f
    BY <2>1, <2>2
  <2> QED
    BY <1>1, <1>3, <2>1, <2>3
<1>4. ASSUME q = r, stage[r] \in Busy, offered'[r] = offered[r], outcome'[r] = outcome[r],
             current'[r] = current[r],
             stage'[r] \in {"compress", "script"} => stage[r] \in {"compress", "script"}
      PROVE  /\ outcome'[q] = "none"
             /\ \E i \in DOMAIN offered'[q] : offered'[q][i] = current'[q]
             /\ stage'[q] \in {"compress", "script"} => mode(q)' = "script"
  BY <1>1, <1>4 DEF BusyInv
<1> USE DEF TypeInv, RequestTyped, Busy, To, historyVars, fileVarsOf
<1>5. CASE q = r /\ openNextFile(r)
  <2>1. CASE explorer[r].rootIsFile
    <3>1. Proceed(r, explorer[r].nextFile) /\ explorer[r].nextFile \in Name
      BY <1>5, <2>1 DEF openNextFile, ExplorerTyped, Explorer
    <3> QED
      BY <1>3, <1>5, <3>1
  <2>2. CASE ~explorer[r].rootIsFile
    <3>1. stage'[r] = "search"
      BY <1>5, <2>2 DEF openNextFile
    <3> QED
      BY <1>5, <3>1
  <2> QED
    BY <2>1, <2>2
<1>6. CASE q = r /\ Found(r)
  <2>1. stage'[r] = "loop" \/ (Proceed(r, current[r]) /\ current[r] \in Name)
    BY <1>6 DEF Found
  <2> QED
    BY <1>3, <1>6, <2>1
<1>7. CASE q = r /\ (CompressionError(r) \/ OpenFails(r) \/ calculateFileSizeFails(r) \/ NoChunk(r)
                     \/ SearchThrows(r) \/ preparePath(r) \/ Finish(r))
  <2>1. \/ stage'[r] \in {"loop", "rejected", "done"}
        \/ stage'[r] = stage[r] /\ stage[r] = "prepare"
    BY <1>7 DEF CompressionError, OpenFails, calculateFileSizeFails, NoChunk, SearchThrows,
                preparePath, Finish, Fails, Ends
  <2> QED
    BY <1>7, <2>1
<1>8. CASE q = r /\ Searches(r)
  <2>1. stage' = stage /\ offered' = offered /\ outcome' = outcome /\ current' = current
    BY <1>8 DEF Searches
  <2> QED
    BY <1>1, <1>8, <2>1 DEF BusyInv
<1>9. CASE q = r /\ (ScriptStarts(r) \/ ScriptEnds(r) \/ ScriptWithoutInput(r) \/ Open(r)
                     \/ calculateFileSize(r))
  <2>1. /\ stage[r] \in Busy /\ offered'[r] = offered[r] /\ outcome'[r] = outcome[r]
        /\ current'[r] = current[r]
    BY <1>9 DEF ScriptStarts, ScriptEnds, ScriptWithoutInput, Open, calculateFileSize
  <2>2. stage'[r] \in {"compress", "script"} => stage[r] \in {"compress", "script"}
    BY <1>9 DEF ScriptStarts, ScriptEnds, ScriptWithoutInput, Open, calculateFileSize
  <2> QED
    BY <1>4, <1>9, <2>1, <2>2
<1>10. CASE q = r /\ getNextChunk(r)
  <2>1. stage[r] = "chunks" /\ current'[r] = current[r]
    BY <1>10 DEF getNextChunk
  <2>2. \/ stage'[r] = "loop"
        \/ stage'[r] = stage[r] /\ offered'[r] = offered[r] /\ outcome'[r] = outcome[r]
    BY <1>10 DEF getNextChunk, Ends
  <2> QED
    BY <1>4, <1>10, <2>1, <2>2
<1> QED
  BY <1>2, <1>5, <1>6, <1>7, <1>8, <1>9, <1>10 DEF Step

\* What a step does to the tree: the request's compressed file is created, written or
\* removed, and no other one.
Touches(r, f) == f = CompressedName(current[r]) /\ mode(r) = "script"

LEMMA TreeStep ==
  ASSUME TypeInv, BusyInv, OutputInv, NEW r \in Requests, Step(r)
  PROVE  /\ \A f \in DOMAIN tree :
              \/ f \in DOMAIN tree' /\ tree'[f] = tree[f]
              \/ f \notin DOMAIN tree' /\ Touches(r, f) /\ stage[r] = "chunks"
         /\ \A f \in DOMAIN tree' :
              \/ f \in DOMAIN tree
              \/ Touches(r, f) /\ stage'[r] = "script" /\ tree'[f] \notin Held
         /\ \A f \in DOMAIN tree : f \in DOMAIN tree' =>
              \/ disk'[tree[f]] = disk[tree[f]]
              \/ Touches(r, f) /\ stage[r] \in {"compress", "script"}
<1> USE DEF TypeInv, fileVars
<1>1. CASE UNCHANGED fileVars
  BY <1>1
<1>2. ASSUME NEW held, Close(held)
      PROVE  /\ tree' = tree
             /\ \A f \in DOMAIN tree : disk'[tree[f]] = disk[tree[f]]
  BY <1>2, CloseLemma
<1>3. CASE openNextFile(r) \/ Finish(r)
  BY <1>2, <1>3 DEF openNextFile, Finish
<1>4. CASE ScriptStarts(r)
  <2> DEFINE f == CompressedName(current[r])
  <2>1. /\ Create(f, Held) /\ stage[r] = "compress" /\ stage'[r] = "script"
        /\ mode(r) = "script" /\ current[r] \in Name
    BY <1>4 DEF ScriptStarts, To, RequestTyped, BusyInv, Busy
  <2>2. /\ TreeTyped' /\ DOMAIN tree' = DOMAIN tree \cup {f}
        /\ \A g \in DOMAIN tree : tree'[g] = tree[g]
        /\ f \notin DOMAIN tree => tree'[f] \notin Held /\ tree'[f] \notin Range(tree)
        /\ disk' = [disk EXCEPT ![tree'[f]] = 0]
    BY <2>1, CreateLemma, CompressedNames
  <2>3. \A g \in DOMAIN tree : g # f => tree[g] # tree'[f]
    BY <2>2 DEF TreeTyped, IsInjective
  <2>4. \A g \in DOMAIN tree : g # f => disk'[tree[g]] = disk[tree[g]]
    BY <2>2, <2>3 DEF TreeTyped
  <2> HIDE DEF f
  <2> QED
    BY <2>1, <2>2, <2>4 DEF Touches, f
<1>5. CASE ScriptEnds(r)
  <2>1. tree' = tree /\ stage[r] = "script" /\ mode(r) = "script"
    BY <1>5 DEF ScriptEnds, BusyInv, Busy
  <2>2. \A f \in DOMAIN tree : tree[f] # output[r] => disk'[tree[f]] = disk[tree[f]]
    <3> SUFFICES ASSUME NEW f \in DOMAIN tree, tree[f] # output[r]
                 PROVE  disk'[tree[f]] = disk[tree[f]]
      OBVIOUS
    <3>1. tree[f] \in Range(tree) /\ tree[f] \in Inodes
      BY DEF Range, TreeTyped
    <3> QED
      BY <1>5, <3>1 DEF ScriptEnds, TreeTyped
  <2> QED
    BY <2>1, <2>2 DEF OutputInv, Touches
<1>6. CASE getNextChunk(r)
  <2>1. CASE CloseAndRemove(r) /\ mode(r) # "script"
    BY <1>2, <2>1 DEF CloseAndRemove
  <2>2. CASE CloseAndRemove(r) /\ mode(r) = "script"
    <3>1. Remove(CompressedName(current[r]), HeldWithout(r)) /\ stage[r] = "chunks"
      BY <1>6, <2>2 DEF CloseAndRemove, Compressed, getNextChunk
    <3>2. /\ DOMAIN tree' = DOMAIN tree \ {CompressedName(current[r])}
          /\ \A g \in DOMAIN tree' : tree'[g] = tree[g] /\ disk'[tree[g]] = disk[tree[g]]
      BY <3>1, RemoveLemma
    <3> QED
      BY <2>2, <3>1, <3>2 DEF Touches
  <2> QED
    BY <1>1, <1>6, <2>1, <2>2 DEF getNextChunk
<1> QED
  BY <1>1, <1>3, <1>4, <1>5, <1>6
     DEF Step, preparePath, Found, Searches, SearchThrows, CompressionError, ScriptWithoutInput,
         Open, OpenFails, calculateFileSize, calculateFileSizeFails, NoChunk

LEMMA OriginalsStep ==
  ASSUME TypeInv, TreeInv, NEW r \in Requests, Step(r)
  PROVE  OriginalsKept'
<1> SUFFICES ASSUME NEW f \in Originals' \ Overwritten'
             PROVE  f \in DOMAIN tree' /\ disk'[tree'[f]] = files'[f]
  BY DEF OriginalsKept
<1>1. /\ files' = files /\ f \in Originals \ Overwritten
      /\ f \in DOMAIN tree /\ disk[tree[f]] = files[f]
  BY OnlyOffered DEF TreeInv, OriginalsKept
<1>2. stage[r] \in Busy => ~Touches(r, f)
  <2> SUFFICES ASSUME stage[r] \in Busy, Touches(r, f)
               PROVE  FALSE
    OBVIOUS
  <2>1. PICK i \in DOMAIN offered[r] : offered[r][i] = current[r]
    BY DEF TreeInv, BusyInv
  <2> QED
    BY <1>1, <2>1 DEF Touches, Overwritten
<1> QED
  BY <1>1, <1>2, TreeStep DEF TreeInv, Busy

LEMMA OutputStep ==
  ASSUME TypeInv, TreeInv, NEW r \in Requests, Step(r)
  PROVE  OutputInv'
<1> SUFFICES ASSUME NEW q \in Requests, stage'[q] = "script",
                    NEW f \in DOMAIN tree', tree'[f] = output'[q]
             PROVE  f = CompressedName(current'[q])
  BY DEF OutputInv
<1>1. /\ output[q] \in Held /\ output'[q] # 0
      /\ \A g \in DOMAIN tree : g \in DOMAIN tree' => tree'[g] = tree[g]
      /\ f \notin DOMAIN tree => tree'[f] \notin Held
  <2>1. TypeInv'
    BY TypingStep
  <2>2. output[q] \in Held /\ output'[q] # 0
    BY <2>1 DEF Held, Range, TypeInv, RequestTyped, PlaceInv
  <2> QED
    BY <2>2, TreeStep DEF TreeInv
<1>2. CASE q # r
  <2>1. stage[q] = "script" /\ output'[q] = output[q] /\ current'[q] = current[q]
    BY <1>2, StepsApart DEF Apart
  <2>2. f \in DOMAIN tree /\ tree[f] = output[q]
    BY <1>1, <2>1
  <2> QED
    BY <2>1, <2>2 DEF TreeInv, OutputInv
<1>3. CASE q = r
  <2>1. CASE ScriptStarts(r)
    <3>1. /\ Create(CompressedName(current[r]), Held) /\ current[r] \in Name
          /\ output'[r] = tree'[CompressedName(current[r])] /\ current' = current
      BY <2>1 DEF ScriptStarts, TypeInv, RequestTyped
    <3>2. CompressedName(current[r]) \in DOMAIN tree' /\ TreeTyped'
      BY <3>1, CompressedNames, CreateLemma DEF TypeInv
    <3>3. IsInjective(tree')
      BY <3>2 DEF TreeTyped
    <3> QED
      BY <1>3, <3>1, <3>2, <3>3 DEF IsInjective
  <2>2. CASE ~ScriptStarts(r)
    <3>1. stage'[r] = "script" => stage[r] = "script" /\ Searches(r)
      BY <2>2 DEF Step, To, TypeInv, RequestTyped, preparePath, openNextFile, Found, SearchThrows, CompressionError,
                  Searches, ScriptWithoutInput, ScriptEnds, Open, OpenFails, calculateFileSize,
                  calculateFileSizeFails, NoChunk, getNextChunk, Finish, Fails, Ends, Proceed,
                  historyVars
    <3>2. Searches(r) => UNCHANGED <<tree, output, current>>
      BY DEF Searches, fileVars, fileVarsOf
    <3> QED
      BY <1>3, <3>1, <3>2 DEF TreeInv, OutputInv
  <2> QED
    BY <2>1, <2>2
<1> QED
  BY <1>2, <1>3

\* A file that is delivered whole has been removed, if it was a temporary one.
LEMMA WholeRemoved ==
  ASSUME TypeInv, NEW r \in Requests, Step(r), outcome'[r] = "whole", outcome[r] # "whole"
  PROVE  mode(r) = "script" => CompressedName(current[r]) \notin DOMAIN tree'
<1> USE DEF TypeInv, RequestTyped, historyVars
<1>1. getNextChunk(r)
  BY DEF Step, preparePath, openNextFile, Found, Searches, SearchThrows, CompressionError,
         ScriptStarts, ScriptWithoutInput, ScriptEnds, Open, OpenFails, calculateFileSize,
         calculateFileSizeFails, NoChunk, Finish, Fails, Ends, Proceed
<1>2. readBytes'[r] = compressedSize[r] /\ compressedSize' = compressedSize
  BY <1>1 DEF getNextChunk, Ends
<1>3. mode(r)' = mode(r)
  BY OnlyOffered DEF mode
<1>4. mode(r) = "script" => ~HasNextChunkOfSource(r)'
  BY <1>2, <1>3 DEF HasNextChunkOfSource
<1>5. mode(r) = "script" => Remove(CompressedName(current[r]), HeldWithout(r))
  BY <1>1, <1>4 DEF getNextChunk, CloseAndRemove, Compressed
<1> QED
  BY <1>5, RemoveLemma

\* Files are only taken out of undelivered when they are delivered whole.
LEMMA UndeliveredStep ==
  ASSUME TypeInv, BusyInv, NEW r \in Requests, Step(r)
  PROVE  /\ \A g \in undelivered[r] :
              g \in undelivered'[r] \/ (g = current[r] /\ outcome'[r] = "whole"
                                         /\ outcome[r] # "whole")
         /\ stage[r] \in Sending =>
              \/ stage'[r] \in Sending /\ current'[r] = current[r]
              \/ current[r] \in undelivered'[r]
              \/ outcome'[r] = "whole" /\ outcome[r] # "whole"
<1> USE DEF TypeInv, RequestTyped, historyVars, fileVarsOf, Sending, To
<1>1. CASE getNextChunk(r) \/ NoChunk(r)
  <2>1. stage[r] = "chunks" /\ outcome[r] = "none" /\ current' = current
    BY <1>1 DEF getNextChunk, NoChunk, BusyInv, Busy
  <2>2. \/ UNCHANGED <<stage, historyVars>>
        \/ \E result \in {"whole", "cut", "unended"} : Ends(r, result)
    BY <1>1 DEF getNextChunk, NoChunk
  <2>3. ASSUME NEW result \in {"whole", "cut", "unended"}, Ends(r, result)
        PROVE  /\ outcome'[r] = result
               /\ undelivered'[r] = IF result = "whole" THEN undelivered[r] \ {current[r]}
                                    ELSE undelivered[r] \cup {current[r]}
    BY <2>3 DEF Ends
  <2> QED
    BY <2>1, <2>2, <2>3
<1>2. CASE CompressionError(r) \/ OpenFails(r) \/ calculateFileSizeFails(r)
  BY <1>2 DEF CompressionError, OpenFails, calculateFileSizeFails, Fails
<1>3. CASE ScriptStarts(r) \/ ScriptEnds(r) \/ ScriptWithoutInput(r) \/ Open(r)
           \/ calculateFileSize(r)
  BY <1>3 DEF ScriptStarts, ScriptEnds, ScriptWithoutInput, Open, calculateFileSize
<1>4. CASE preparePath(r) \/ openNextFile(r) \/ Found(r) \/ Searches(r) \/ SearchThrows(r)
           \/ Finish(r)
  <2>1. undelivered' = undelivered
    BY <1>4 DEF preparePath, openNextFile, Found, Searches, SearchThrows, Finish, Proceed
  <2>2. stage[r] \notin Sending
    BY <1>4 DEF preparePath, openNextFile, Found, Searches, SearchThrows, Finish, PlaceInv,
                findNextFile_End, EndOfDirectory, findNextFile_File, findNextFile_Directory,
                findNextFile_NextDirectory, findNextFile_Throws, ExplorerTyped
  <2> QED
    BY <2>1, <2>2
<1> QED
  BY <1>1, <1>2, <1>3, <1>4 DEF Step

LEMMA TemporaryStep ==
  ASSUME TypeInv, TreeInv, NEW r \in Requests, Step(r)
  PROVE  TemporaryInv'
<1> SUFFICES ASSUME NEW f \in DOMAIN tree' \ Originals'
             PROVE  \E q \in Requests :
                      /\ mode(q)' = "script"
                      /\ \/ stage'[q] \in Sending /\ f = CompressedName(current'[q])
                         \/ \E g \in undelivered'[q] : f = CompressedName(g)
  BY DEF TemporaryInv
<1>1. /\ f \notin Originals
      /\ \A q \in Requests : mode(q)' = mode(q)
      /\ f \in DOMAIN tree \/ (Touches(r, f) /\ stage'[r] = "script")
  BY OnlyOffered, TreeStep DEF TreeInv, mode
<1>2. CASE f \notin DOMAIN tree
  <2>1. mode(r)' = "script" /\ f = CompressedName(current[r]) /\ stage'[r] \in Sending
    BY <1>1, <1>2 DEF Touches, Sending
  <2>2. current'[r] = current[r]
    <3>1. openNextFile(r) => stage'[r] # "script"
      BY DEF openNextFile, Proceed, TypeInv, RequestTyped, To
    <3>2. Found(r) => stage'[r] # "script"
      BY DEF Found, Proceed, TypeInv, RequestTyped, To
    <3>3. ~openNextFile(r) /\ ~Found(r) => current' = current
      BY DEF Step, preparePath, Searches, SearchThrows, CompressionError, ScriptStarts,
             ScriptWithoutInput, ScriptEnds, Open, OpenFails, calculateFileSize,
             calculateFileSizeFails, NoChunk, getNextChunk, Finish, fileVarsOf
    <3> QED
      BY <1>1, <1>2, <3>1, <3>2, <3>3
  <2> QED
    BY <2>1, <2>2
<1>3. CASE f \in DOMAIN tree
  <2>1. PICK q \in Requests :
          /\ mode(q) = "script"
          /\ \/ stage[q] \in Sending /\ f = CompressedName(current[q])
             \/ \E g \in undelivered[q] : f = CompressedName(g)
    BY <1>1, <1>3 DEF TreeInv, TemporaryInv
  <2>2. CASE q # r
    BY <1>1, <2>1, <2>2, StepsApart DEF Apart
  <2>3. CASE q = r
    <3>1. outcome'[r] = "whole" /\ outcome[r] # "whole" => f # CompressedName(current[r])
      BY <2>1, <2>3, WholeRemoved
    <3>2. CASE stage[r] \in Sending /\ f = CompressedName(current[r])
      BY <1>1, <2>1, <2>3, <3>1, <3>2, UndeliveredStep DEF TreeInv
    <3>3. ASSUME NEW g \in undelivered[r], f = CompressedName(g)
          PROVE  g \in undelivered'[r]
      BY <3>1, <3>3, UndeliveredStep DEF TreeInv
    <3> QED
      BY <1>1, <2>1, <2>3, <3>2, <3>3
  <2> QED
    BY <2>2, <2>3
<1> QED
  BY <1>2, <1>3

\* When all requests are served no temporary file is being sent.
LEMMA TreeAtRest == TreeInv => TreeRestored
<1> SUFFICES ASSUME TreeInv, \A r \in Requests : stage[r] \in {"done", "rejected"}
             PROVE  /\ \A f \in Originals \ Overwritten : Exists(f) /\ Size(f) = files[f]
                    /\ \A f \in DOMAIN tree \ Originals :
                         \E r \in Requests : mode(r) = "script" /\
                           \E g \in undelivered[r] : f = CompressedName(g)
  BY DEF TreeRestored
<1>1. \A r \in Requests : stage[r] \notin Sending
  BY DEF Sending
<1> QED
  BY <1>1 DEF TreeInv, OriginalsKept, TemporaryInv, Exists, Size

LEMMA Unchanging ==
  ASSUME UNCHANGED vars
  PROVE  /\ TypeInv => TypeInv'
         /\ TreeInv => TreeInv'
<1> USE DEF vars, fileVars, explorerVars, requestVars, fileVarsOf, historyVars
<1>1. TypeInv => TypeInv'
  BY DEF TypeInv, TreeTyped, RequestTyped, ExplorerTyped, PlaceInv
<1>2. Originals' = Originals /\ Overwritten' = Overwritten
  BY DEF Originals, Overwritten, mode
<1>3. BusyInv => BusyInv'
  BY DEF BusyInv, mode
<1>4. OriginalsKept => OriginalsKept'
  BY <1>2 DEF OriginalsKept
<1>5. OutputInv => OutputInv'
  BY DEF OutputInv
<1>6. TemporaryInv => TemporaryInv'
  BY <1>2 DEF TemporaryInv, mode
<1> QED
  BY <1>1, <1>3, <1>4, <1>5, <1>6 DEF TreeInv

\* Every variable keeps its type.
THEOREM FileTyping == Spec => []TypeInv
<1>1. TypeInv /\ [Next]_vars => TypeInv'
  BY TypingStep, Unchanging DEF Next, Step
<1> QED
  BY InitTyping, <1>1, PTL DEF Spec

\* The invariant of the tree.
THEOREM TreeInvariant == Spec => []TreeInv
<1>1. TypeInv /\ TreeInv /\ [Next]_vars => TreeInv'
  <2> SUFFICES ASSUME TypeInv, TreeInv, [Next]_vars
               PROVE  TreeInv'
    OBVIOUS
  <2>1. ASSUME NEW r \in Requests, Step(r)
        PROVE  TreeInv'
    BY <2>1, BusyStep, OriginalsStep, OutputStep, TemporaryStep DEF TreeInv
  <2>2. CASE UNCHANGED vars
    BY <2>2, Unchanging
  <2> QED
    BY <2>1, <2>2 DEF Next, Step
<1> QED
  BY InitTreeInv, <1>1, FileTyping, PTL DEF Spec

\* The files there were are as they were, and a temporary file is left only of a file
\* that was not delivered whole, however the requests' scripts interleave.
THEOREM TreeIsRestored == Spec => []TreeRestored
BY TreeInvariant, TreeAtRest, PTL

-------------------------------------------------------------------------------
(* The chunks                                                              *)

\* Division by the size of a chunk.
LEMMA Division ==
  ASSUME NEW C \in Nat \ {0}, NEW s \in Nat
  PROVE  /\ s \div C \in Nat /\ s % C \in Nat
         /\ s = C * (s \div C) + (s % C)
         /\ s % C < C
<1>1. s \div C \in Nat
  BY Z3
<1>2. s % C \in Nat /\ s % C < C
  BY SMT
<1>3. s = C * (s \div C) + (s % C)
  BY Z3
<1> QED
  BY <1>1, <1>2, <1>3

LEMMA Multiples ==
  ASSUME NEW C \in Nat \ {0}, NEW k \in Nat, NEW d \in Nat
  PROVE  /\ k * C < d * C + C => k <= d
         /\ k <= d => k * C <= d * C
<1>1. k * C < d * C + C => k <= d
  BY Z3
<1>2. k <= d => k * C <= d * C
  BY Z3
<1> QED
  BY <1>1, <1>2

\* The last chunk of a file starts at a multiple of the size of a chunk, and no other
\* one starts later.
LEMMA LastChunk ==
  ASSUME NEW C \in Nat \ {0}, NEW k \in Nat, NEW s \in Nat, k * C < s
  PROVE  /\ ((s - 1) \div C) * C >= k * C
         /\ s <= k * C + C => ((s - 1) \div C) * C = k * C
<1> DEFINE d == (s - 1) \div C
<1>1. s \in Nat \ {0} /\ k * C \in Nat
  <2>1. k * C \in Nat
    BY Z3
  <2> QED
    BY <2>1
<1>2. d \in Nat /\ C * d <= s - 1 /\ s - 1 < C * d + C /\ C * d = d * C
  <2> DEFINE m == (s - 1) % C
  <2>1. s - 1 \in Nat
    BY <1>1
  <2>2. d \in Nat /\ m \in Nat /\ s - 1 = C * d + m /\ m < C
    BY <2>1, Division
  <2> HIDE DEF d, m
  <2>3. C * d \in Nat /\ C * d = d * C
    BY <2>2, Z3
  <2> QED
    BY <2>2, <2>3
<1> HIDE DEF d
<1>3. d * C \in Nat
  BY <1>2, Z3
<1>4. k <= d /\ d * C >= k * C
  BY <1>1, <1>2, <1>3, Multiples
<1>5. s <= k * C + C => d <= k
  BY <1>1, <1>2, <1>3, Multiples
<1>6. s <= k * C + C => d = k
  BY <1>2, <1>4, <1>5
<1> QED
  BY <1>4, <1>6 DEF d

\* A chunk that is not full is the rest of a division.
LEMMA ShortChunk ==
  ASSUME NEW C \in Nat \ {0}, NEW k \in Nat, NEW s \in Nat, k * C <= s, s < k * C + C
  PROVE  s % C = s - k * C
<1> DEFINE d == s \div C
           m == s % C
<1>1. d \in Nat /\ m \in Nat /\ s = C * d + m /\ m < C
  BY Division
<1> HIDE DEF d, m
<1>2. C * d \in Nat /\ C * d = d * C /\ k * C \in Nat
  BY <1>1, Z3
<1>3. k <= d /\ d <= k
  BY <1>1, <1>2, Multiples
<1>4. d = k
  BY <1>1, <1>3
<1>5. m = s - k * C
  BY <1>1, <1>2, <1>4
<1> QED
  BY <1>5 DEF m

\* While nobody disturbs it, a source has the size that was taken when it was opened.
SourceInv(r) ==
  stage[r] \in {"size", "chunks"} /\ ~disturbed[r] /\ source[r] # 0 =>
    disk[source[r]] = compressedSize[r]

SizeInv(r) ==
  stage[r] = "size" => source[r] # 0 /\ readBytes[r] = 0 /\ ~eof[r] /\ mode(r) # "plain"

\* Between two chunks whole ones were read, and fewer bytes than the file's size; a
\* source that was closed has been read to its end.
ReadInv(r) ==
  stage[r] = "chunks" /\ ~disturbed[r] =>
    /\ ~eof[r]
    /\ \E k \in Nat : readBytes[r] = k * CHUNK
    /\ readBytes[r] <= compressedSize[r]
    /\ readBytes[r] > 0 => readBytes[r] < fileSize[r]
    /\ source[r] = 0 => readBytes[r] = compressedSize[r] /\ readBytes[r] > 0
    /\ mode(r) = "plain" => fileSize[r] = compressedSize[r]

CoverInv(r) ==
  outcome[r] \in {"whole", "cut", "unended"} /\ ~disturbed[r] =>
    (outcome[r] = "whole" <=> Covered(r))

ChunkInvOf(r) == SourceInv(r) /\ SizeInv(r) /\ ReadInv(r) /\ CoverInv(r)

ChunkInv == \A r \in Requests : ChunkInvOf(r)

LEMMA InitChunkInv == Init => ChunkInv
BY DEF Init, Of, ChunkInv, ChunkInvOf, SourceInv, SizeInv, ReadInv, CoverInv

\* What nobody disturbs keeps its size while another request takes a step.
LEMMA SourceKept ==
  ASSUME TypeInv, NEW r \in Requests, Step(r),
         NEW q \in Requests, q # r, source[q] # 0, ~disturbed'[q]
  PROVE  disk'[source[q]] = disk[source[q]]
<1>1. source[q] \in Inodes /\ source[q] \in HeldWithout(r)
  BY DEF TypeInv, RequestTyped, HeldWithout
<1>2. CASE UNCHANGED fileVars
  BY <1>2 DEF fileVars
<1>3. CASE openNextFile(r) \/ Finish(r)
  BY <1>1, <1>3, CloseLemma DEF openNextFile, Finish, TypeInv
<1>4. CASE ScriptStarts(r)
  <2> DEFINE f == CompressedName(current[r])
  <2>1. /\ Create(f, Held) /\ current[r] \in Name
        /\ disturbed' = [p \in Requests |-> disturbed[p] \/ (p # r /\ source[p] = tree'[f])]
    BY <1>4 DEF ScriptStarts, Disturb, TypeInv, RequestTyped
  <2>2. disk' = [disk EXCEPT ![tree'[f]] = 0] /\ disk \in [Inodes -> Nat]
    <3>1. disk' = [disk EXCEPT ![tree'[f]] = 0]
      BY <2>1, CompressedNames, CreateLemma DEF TypeInv
    <3> QED
      BY <3>1 DEF TypeInv, TreeTyped
  <2> HIDE DEF f
  <2>3. source[q] # tree'[f]
    BY <2>1
  <2> QED
    BY <1>1, <2>2, <2>3
<1>5. CASE ScriptEnds(r)
  <2>1. disturbed' = [p \in Requests |-> disturbed[p] \/ (p # r /\ source[p] = output[r])]
    BY <1>5 DEF ScriptEnds, Disturb
  <2>2. source[q] # output[r]
    BY <2>1
  <2>3. source[q] \in Range(source)
    BY DEF Range, TypeInv, RequestTyped
  <2> QED
    BY <1>1, <1>5, <2>2, <2>3 DEF ScriptEnds, TypeInv, TreeTyped
<1>6. CASE getNextChunk(r)
  <2>1. CASE CloseAndRemove(r)
    BY <1>1, <2>1, CloseLemma, RemoveLemma DEF CloseAndRemove, TypeInv
  <2> QED
    BY <1>2, <1>6, <2>1 DEF getNextChunk
<1> QED
  BY <1>2, <1>3, <1>4, <1>5, <1>6
     DEF Step, preparePath, Found, Searches, SearchThrows, CompressionError, ScriptWithoutInput,
         Open, OpenFails, calculateFileSize, calculateFileSizeFails, NoChunk

LEMMA ChunksApart ==
  ASSUME TypeInv, ChunkInv, NEW r \in Requests, Step(r), NEW q \in Requests, q # r
  PROVE  ChunkInvOf(q)'
<1>1. Apart(q) /\ ChunkInvOf(q) /\ mode(q)' = mode(q)
  BY StepsApart, OnlyOffered DEF mode, ChunkInv
<1>2. Covered(q)' <=> Covered(q)
  BY <1>1 DEF Covered, Apart
<1>3. source[q] # 0 /\ ~disturbed'[q] => disk'[source[q]] = disk[source[q]]
  BY SourceKept
<1> QED
  BY <1>1, <1>2, <1>3 DEF Apart, ChunkInvOf, SourceInv, SizeInv, ReadInv, CoverInv

\* The chunk invariant when a file is opened: nothing has been read.
LEMMA OpensChunk ==
  ASSUME TypeInv, BusyInv, ChunkInv, NEW r \in Requests, Open(r) \/ calculateFileSize(r)
  PROVE  ChunkInvOf(r)'
<1>1. mode(r)' = mode(r) /\ outcome'[r] = "none" /\ disturbed' = disturbed
  BY DEF Open, calculateFileSize, mode, requestVars, historyVars, BusyInv, Busy
<1>2. CoverInv(r)'
  BY <1>1 DEF CoverInv
<1>3. \E k \in Nat : 0 = k * CHUNK
  <2>1. 0 \in Nat /\ 0 = 0 * CHUNK
    BY FileAssumption
  <2> QED
    BY <2>1
<1> USE DEF TypeInv, RequestTyped
<1>4. CASE Open(r)
  <2> DEFINE i == tree[Compressed(r)]
  <2>1. /\ source' = [source EXCEPT ![r] = i] /\ disk' = disk
        /\ eof' = [eof EXCEPT ![r] = FALSE]
        /\ fileSize' = [fileSize EXCEPT ![r] = disk[i]]
        /\ compressedSize' = [compressedSize EXCEPT ![r] = disk[i]]
        /\ readBytes' = [readBytes EXCEPT ![r] = 0]
        /\ stage'[r] = IF mode(r) = "plain" THEN "chunks" ELSE "size"
    BY <1>4 DEF Open, Size, To, fileVars
  <2>2. i \in Inodes /\ disk[i] \in Nat /\ i # 0
    BY <1>4, TreeAssumption DEF Open, Exists, TreeTyped
  <2> HIDE DEF i
  <2>3. SourceInv(r)'
    BY <2>1, <2>2 DEF SourceInv
  <2>4. SizeInv(r)'
    BY <1>1, <2>1, <2>2 DEF SizeInv
  <2>5. ReadInv(r)'
    <3>1. /\ readBytes'[r] = 0 /\ ~eof'[r] /\ source'[r] # 0
          /\ fileSize'[r] = compressedSize'[r] /\ compressedSize'[r] \in Nat
      BY <2>1, <2>2
    <3>2. \E k \in Nat : readBytes'[r] = k * CHUNK
      <4>1. readBytes'[r] = 0
        BY <3>1
      <4> HIDE DEF TypeInv, RequestTyped
      <4> QED
        BY <1>3, <4>1, Zenon
    <3> QED
      BY <3>1, <3>2 DEF ReadInv
  <2> QED
    BY <1>2, <2>3, <2>4, <2>5 DEF ChunkInvOf
<1>5. CASE calculateFileSize(r)
  <2>1. /\ stage[r] = "size" /\ stage'[r] = "chunks"
        /\ UNCHANGED <<disk, source, eof, compressedSize, readBytes>>
    BY <1>5 DEF calculateFileSize, To, fileVars
  <2>2. SourceInv(r) /\ SizeInv(r)
    BY DEF ChunkInv, ChunkInvOf
  <2>3. SourceInv(r)' /\ SizeInv(r)'
    BY <1>1, <2>1, <2>2 DEF SourceInv, SizeInv
  <2>4. ReadInv(r)'
    BY <1>1, <1>3, <2>1, <2>2 DEF ReadInv, SizeInv
  <2> QED
    BY <1>2, <2>3, <2>4 DEF ChunkInvOf
<1> QED
  BY <1>4, <1>5

\* No chunk is left, or the source was closed after its last one: the last chunk was
\* not marked.
LEMMA EndsUncovered ==
  ASSUME TypeInv, ChunkInv, NEW r \in Requests, stage[r] = "chunks", ~disturbed[r],
         \/ ~HasNextChunk(r)
         \/ source[r] = 0
         \/ ~HasNextChunkOfSource(r)
  PROVE  ~Covered(r)
<1> DEFINE S == compressedSize[r]
           F == fileSize[r]
           n == readBytes[r]
<1>1. S \in Nat /\ F \in Nat /\ n \in Nat /\ CHUNK \in Nat \ {0}
  BY FileAssumption DEF TypeInv, RequestTyped
<1>2. PICK k \in Nat : n = k * CHUNK
  BY DEF ChunkInv, ChunkInvOf, ReadInv
<1>3. /\ ~eof[r] /\ n <= S
      /\ n > 0 => n < F
      /\ source[r] = 0 => n = S /\ n > 0
      /\ mode(r) = "plain" => F = S
  BY DEF ChunkInv, ChunkInvOf, ReadInv
<1>4. n >= F \/ n = S
  BY <1>1, <1>3 DEF HasNextChunk, HasNextChunkOfSource
<1> HIDE DEF S, F, n
<1>5. SUFFICES ASSUME S > 0, ((S - 1) \div CHUNK) * CHUNK < F,
                      S % CHUNK # 0 \/ S >= F
               PROVE  FALSE
  BY DEF Covered, S, F
<1>6. F > 0
  <2>1. ((S - 1) \div CHUNK) * CHUNK >= 0 * CHUNK
    BY <1>1, <1>5, LastChunk
  <2>2. ((S - 1) \div CHUNK) * CHUNK \in Int
    BY <1>1, <1>5, Z3
  <2> QED
    BY <1>1, <1>5, <2>1, <2>2
<1>7. n = S /\ n > 0 /\ S < F
  BY <1>1, <1>3, <1>4, <1>5, <1>6
<1>8. S % CHUNK = 0
  <2>1. k * CHUNK <= S /\ S < k * CHUNK + CHUNK
    BY <1>1, <1>2, <1>7
  <2>2. S % CHUNK = S - k * CHUNK
    BY <1>1, <2>1, ShortChunk
  <2> QED
    BY <1>1, <1>2, <1>7, <2>2
<1> QED
  BY <1>1, <1>5, <1>7, <1>8

\* The chunk that ends a file is the last one exactly when the file is covered.
LEMMA ChunkRead ==
  ASSUME TypeInv, BusyInv, ChunkInv, NEW r \in Requests, getNextChunk(r)
  PROVE  ChunkInvOf(r)'
<1> DEFINE S == compressedSize[r]
           F == fileSize[r]
           n == readBytes[r]
           left == IF disk[source[r]] > readBytes[r] THEN disk[source[r]] - readBytes[r] ELSE 0
           m == IF left < CHUNK THEN left ELSE CHUNK
<1>1. /\ mode(r)' = mode(r) /\ disturbed' = disturbed /\ stage[r] = "chunks"
      /\ outcome[r] = "none" /\ source[r] # 0
      /\ HasNextChunk(r) /\ HasNextChunkOfSource(r)
      /\ compressedSize' = compressedSize /\ fileSize' = fileSize
      /\ readBytes'[r] = n + m /\ eof'[r] = (m < CHUNK)
  BY DEF getNextChunk, mode, requestVars, historyVars, Ends, BusyInv, Busy, TypeInv, RequestTyped
<1>2. \/ /\ HasNextChunk(r)' /\ stage'[r] = "chunks" /\ outcome'[r] = "none"
      \/ /\ ~HasNextChunk(r)' /\ stage'[r] = "loop"
         /\ outcome'[r] = IF readBytes'[r] = S THEN "whole" ELSE "cut"
  BY <1>1 DEF getNextChunk, Ends, To, historyVars, TypeInv, RequestTyped
<1>3. \/ /\ source'[r] = 0 /\ mode(r) # "plain" /\ ~HasNextChunkOfSource(r)'
      \/ /\ source' = source /\ disk' = disk
         /\ mode(r) # "plain" => HasNextChunkOfSource(r)'
  BY <1>1 DEF getNextChunk, CloseAndRemove, fileVars, TypeInv, RequestTyped
<1>4. SizeInv(r)'
  BY <1>2 DEF SizeInv
<1>5. SourceInv(r)'
  BY <1>1, <1>2, <1>3 DEF SourceInv, ChunkInv, ChunkInvOf
<1>6. SUFFICES ASSUME ~disturbed[r]
               PROVE  ReadInv(r)' /\ CoverInv(r)'
  BY <1>1, <1>4, <1>5 DEF ChunkInvOf, ReadInv, CoverInv
<1>7. /\ S \in Nat /\ F \in Nat /\ n \in Nat /\ CHUNK \in Nat \ {0}
      /\ disk[source[r]] = S
  BY <1>1, <1>6, FileAssumption DEF TypeInv, RequestTyped, ChunkInv, ChunkInvOf, SourceInv
<1>8. PICK k \in Nat : n = k * CHUNK
  BY <1>1, <1>6 DEF ChunkInv, ChunkInvOf, ReadInv
<1>9. mode(r) = "plain" => F = S
  BY <1>1, <1>6 DEF ChunkInv, ChunkInvOf, ReadInv
<1>10. n < S /\ n < F
  BY <1>1, <1>9 DEF HasNextChunk, HasNextChunkOfSource
<1>11. /\ m \in Nat /\ m <= CHUNK /\ n + m <= S
       /\ m < CHUNK => n + m = S /\ m > 0
  BY <1>7, <1>10
<1> HIDE DEF m, left
<1>12. HasNextChunk(r)' <=> ~eof'[r] /\ n + m < F
  BY <1>1 DEF HasNextChunk
<1>13. eof'[r] <=> m < CHUNK
  BY <1>1
<1>14. CASE HasNextChunk(r)'
  <2>1. ~eof'[r] /\ n + m < F /\ m = CHUNK
    BY <1>12, <1>13, <1>7, <1>11, <1>14
  <2>2. n + m = (k + 1) * CHUNK
    BY <1>7, <1>8, <2>1, Z3
  <2>3. source'[r] = 0 => n + m = S /\ n + m > 0
    BY <1>1, <1>3, <1>7, <1>10, <1>11, <2>1 DEF HasNextChunkOfSource
  <2>4. ReadInv(r)'
    BY <1>1, <1>7, <1>8, <1>9, <1>11, <2>1, <2>2, <2>3 DEF ReadInv
  <2> QED
    BY <1>2, <1>14, <2>4 DEF CoverInv
<1>15. CASE ~HasNextChunk(r)'
  <2>1. m < CHUNK \/ n + m >= F
    BY <1>12, <1>13, <1>7, <1>11, <1>15
  <2>2. ASSUME n + m = S
        PROVE  Covered(r)
    <3>1. k * CHUNK < S /\ S <= k * CHUNK + CHUNK
      BY <1>7, <1>8, <1>10, <1>11, <2>2
    <3>2. ((S - 1) \div CHUNK) * CHUNK = n
      BY <1>7, <1>8, <3>1, LastChunk
    <3>3. m < CHUNK => S % CHUNK = S - k * CHUNK
      BY <1>7, <1>8, <1>11, <2>2, <3>1, ShortChunk
    <3>4. S % CHUNK # 0 \/ S >= F
      BY <1>7, <1>8, <1>10, <2>1, <2>2, <3>3
    <3> QED
      BY <1>7, <1>10, <3>2, <3>4 DEF Covered
  <2>3. ASSUME n + m # S
        PROVE  ~Covered(r)
    <3>1. m = CHUNK /\ n + m >= F /\ n + m < S
      BY <1>7, <1>11, <2>1, <2>3
    <3>2. n + m = (k + 1) * CHUNK /\ k + 1 \in Nat
      BY <1>7, <1>8, <3>1, Z3
    <3>3. ((S - 1) \div CHUNK) * CHUNK >= (k + 1) * CHUNK
      BY <1>7, <3>1, <3>2, LastChunk
    <3>4. ((S - 1) \div CHUNK) * CHUNK \in Int
      BY <1>7, <1>10, Z3
    <3> QED
      BY <1>7, <3>1, <3>2, <3>3, <3>4 DEF Covered
  <2>4. Covered(r)' <=> Covered(r)
    BY <1>1 DEF Covered
  <2>5. outcome'[r] = IF n + m = S THEN "whole" ELSE "cut"
    BY <1>1, <1>2, <1>15
  <2> QED
    BY <1>2, <1>15, <2>2, <2>3, <2>4, <2>5 DEF ReadInv, CoverInv
<1> QED
  BY <1>14, <1>15

LEMMA ChunkStep ==
  ASSUME TypeInv, BusyInv, ChunkInv, NEW r \in Requests, Step(r)
  PROVE  ChunkInvOf(r)'
<1>1. mode(r)' = mode(r) /\ CoverInv(r)
  BY OnlyOffered DEF mode, ChunkInv, ChunkInvOf
<1>2. ASSUME stage'[r] \notin {"size", "chunks"}
      PROVE  SourceInv(r)' /\ SizeInv(r)' /\ ReadInv(r)'
  BY <1>2 DEF SourceInv, SizeInv, ReadInv
<1> USE DEF TypeInv, RequestTyped, To
<1>3. CASE Open(r) \/ calculateFileSize(r)
  BY <1>3, OpensChunk
<1>4. CASE getNextChunk(r)
  BY <1>4, ChunkRead
<1>5. CASE NoChunk(r)
  <2>1. /\ stage[r] = "chunks" /\ stage'[r] = "loop" /\ outcome'[r] = "unended"
        /\ disturbed' = disturbed
        /\ UNCHANGED <<fileSize, compressedSize>>
    BY <1>5 DEF NoChunk, Ends, fileVarsOf
  <2>2. ~disturbed[r] => ~Covered(r)
    BY <1>5, <2>1, EndsUncovered DEF NoChunk
  <2>3. Covered(r)' <=> Covered(r)
    BY <2>1 DEF Covered
  <2>4. CoverInv(r)'
    BY <2>1, <2>2, <2>3 DEF CoverInv
  <2> QED
    BY <1>2, <2>1, <2>4 DEF ChunkInvOf
<1>6. CASE CompressionError(r) \/ OpenFails(r) \/ calculateFileSizeFails(r)
  <2>1. stage'[r] = "loop" /\ outcome'[r] = "failed"
    BY <1>6 DEF CompressionError, OpenFails, calculateFileSizeFails, Fails
  <2>2. CoverInv(r)'
    BY <2>1 DEF CoverInv
  <2> QED
    BY <1>2, <2>1, <2>2 DEF ChunkInvOf
<1>7. CASE \E f \in Name : Proceed(r, f)
  <2>1. stage'[r] \in {"compress", "open"} /\ outcome'[r] = "none"
    BY <1>7 DEF Proceed
  <2>2. CoverInv(r)'
    BY <2>1 DEF CoverInv
  <2> QED
    BY <1>2, <2>1, <2>2 DEF ChunkInvOf
<1>8. ASSUME stage'[r] \notin {"size", "chunks"},
             outcome'[r] = outcome[r], disturbed'[r] = disturbed[r],
             fileSize'[r] = fileSize[r], compressedSize'[r] = compressedSize[r]
      PROVE  ChunkInvOf(r)'
  <2>1. Covered(r)' <=> Covered(r)
    BY <1>8 DEF Covered
  <2>2. CoverInv(r)'
    BY <1>1, <1>8, <2>1 DEF CoverInv
  <2> QED
    BY <1>2, <1>8, <2>2 DEF ChunkInvOf
<1> USE DEF fileVarsOf, historyVars
<1>9. CASE openNextFile(r)
  <2>1. CASE explorer[r].rootIsFile
    <3>1. Proceed(r, explorer[r].nextFile) /\ explorer[r].nextFile \in Name
      BY <1>9, <2>1 DEF openNextFile, ExplorerTyped, Explorer
    <3> QED
      BY <1>7, <3>1
  <2>2. CASE ~explorer[r].rootIsFile
    BY <1>8, <1>9, <2>2 DEF openNextFile
  <2> QED
    BY <2>1, <2>2
<1>10. CASE Found(r)
  <2>1. \/ stage'[r] = "loop" /\ UNCHANGED <<fileVarsOf, historyVars>>
        \/ Proceed(r, current[r]) /\ current[r] \in Name
    BY <1>10 DEF Found
  <2> QED
    BY <1>7, <1>8, <2>1
<1>11. CASE preparePath(r) \/ SearchThrows(r) \/ Finish(r) \/ ScriptWithoutInput(r)
  <2>1. /\ stage'[r] \notin {"size", "chunks"}
        /\ UNCHANGED <<outcome, disturbed, fileSize, compressedSize>>
    BY <1>11 DEF preparePath, SearchThrows, Finish, ScriptWithoutInput
  <2> QED
    BY <1>8, <2>1
<1>12. CASE Searches(r)
  <2>1. /\ stage'[r] = stage[r] /\ stage[r] \in {"prepare", "search"}
        /\ UNCHANGED <<outcome, disturbed, fileSize, compressedSize>>
    BY <1>12 DEF Searches, findNextFile_Directory, findNextFile_NextDirectory, EndOfDirectory,
                 PlaceInv, ExplorerTyped
  <2> QED
    BY <1>8, <2>1
<1>13. CASE ScriptStarts(r) \/ ScriptEnds(r)
  <2>1. /\ stage'[r] \notin {"size", "chunks"}
        /\ UNCHANGED <<outcome, fileSize, compressedSize>>
        /\ disturbed'[r] = disturbed[r]
    BY <1>13 DEF ScriptStarts, ScriptEnds, Disturb
  <2> QED
    BY <1>8, <2>1
<1> QED
  BY <1>3, <1>4, <1>5, <1>6, <1>9, <1>10, <1>11, <1>12, <1>13 DEF Step

\* A file that no other request's script writes to is sent whole, its last chunk
\* marked, exactly when it is covered, for any sizes and any size of a chunk.
THEOREM ChunksCover == Spec => []ChunksCoverFile
<1>1. TypeInv /\ TreeInv /\ ChunkInv /\ [Next]_vars => ChunkInv'
  <2> SUFFICES ASSUME TypeInv, TreeInv, ChunkInv, [Next]_vars
               PROVE  ChunkInv'
    OBVIOUS
  <2>1. ASSUME NEW r \in Requests, Step(r)
        PROVE  ChunkInv'
    BY <2>1, ChunksApart, ChunkStep DEF TreeInv, ChunkInv
  <2>2. CASE UNCHANGED vars
    BY <2>2 DEF vars, fileVars, explorerVars, requestVars, fileVarsOf, historyVars, ChunkInv,
                ChunkInvOf, SourceInv, SizeInv, ReadInv, CoverInv, Covered, mode
  <2> QED
    BY <2>1, <2>2 DEF Next, Step
<1>2. ChunkInv => ChunksCoverFile
  BY DEF ChunkInv, ChunkInvOf, CoverInv, ChunksCoverFile
<1> QED
  BY InitChunkInv, <1>1, <1>2, FileTyping, TreeInvariant, PTL DEF Spec

-------------------------------------------------------------------------------
(* The walk                                                                *)

Here(r)    == explorer[r].directory.path
Buffer(r)  == explorer[r].directory.buffer
Back(r)    == explorer[r].directory.returned
Queue(r)   == explorer[r].directoriesQueue
Walked(r)  == explorer[r].walked
Skipped(r) == explorer[r].skipped

\* The directories that were found, and the entries that were returned, by now.
Entered(r)   == Walked(r) \cup Skipped(r) \cup Range(Queue(r)) \cup ({Here(r)} \ {""})
Passed(r, x) == x.dir \in Walked(r) \/ (x.dir = Here(r) /\ x \in Back(r))

\* Files that keep their names.
Lasting == Originals \ Overwritten

\* A directory is entered when its entry is returned, and only then, and none twice.
DirectoriesInv(r) ==
  /\ Entered(r) \subseteq {d.base : d \in Subdirectories}
  /\ IsInjective(Queue(r))
  /\ Here(r) \notin Walked(r) /\ Here(r) \notin Range(Queue(r))
  /\ Walked(r) \cap Range(Queue(r)) = {}
  /\ \A d \in Subdirectories :
       /\ d.base \in Entered(r) => d = path(r) \/ Passed(r, d)
       /\ Passed(r, d) => d.base \in Entered(r)
  /\ Entered(r) # {} =>
       path(r) \in Subdirectories /\ path(r).base \in Walked(r) \cup {Here(r)}
  /\ \A x \in Buffer(r) \cup Back(r) : x.dir = Here(r)
  /\ Here(r) = "" => Queue(r) = <<>> /\ Buffer(r) = {} /\ Back(r) = {}

\* The stream of a directory has what stays in it.
BufferInv(r) ==
  Here(r) # "" => \A x \in Subdirectories \cup Lasting : x.dir = Here(r) => x \in Buffer(r)

\* A file that was passed is the next one, or was offered once.
FilesInv(r) ==
  ~explorer[r].rootIsFile => \A f \in Lasting :
    /\ Passed(r, f) <=> f \in Range(offered[r]) \/ f = explorer[r].nextFile
    /\ f = explorer[r].nextFile => f \notin Range(offered[r])
    /\ \A i, j \in DOMAIN offered[r] : offered[r][i] = f /\ offered[r][j] = f => i = j

\* How far the walk is.
PhaseInv(r) ==
  LET e == explorer[r]
  IN  /\ e.rootIsFile =>
           /\ path(r) \notin Subdirectories /\ e.nextFile = path(r) /\ search[r] = "none"
           /\ offered[r] = IF e.filesAvailable THEN <<>> ELSE <<path(r)>>
      /\ stage[r] = "prepare" /\ search[r] = "none" =>
           Entered(r) = {} /\ Here(r) = "" /\ offered[r] = <<>> /\ ~e.rootIsFile
      /\ ~e.rootIsFile /\ stage[r] \notin {"prepare", "rejected"} =>
           Entered(r) # {} /\ (e.filesAvailable => Here(r) # "")
      /\ search[r] # "none" => Here(r) # "" /\ ~e.rootIsFile
      /\ stage[r] = "prepare" => e.nextFile = NoFile /\ e.filesAvailable
      /\ search[r] = "get" => current[r] = e.nextFile
      /\ ~e.rootIsFile /\ ~e.filesAvailable => Here(r) = "" /\ e.nextFile = NoFile
      /\ stage[r] = "done" => ~e.filesAvailable

WalkInvOf(r) == DirectoriesInv(r) /\ BufferInv(r) /\ FilesInv(r) /\ PhaseInv(r)

WalkInv == \A r \in Requests : WalkInvOf(r)

LEMMA InitWalkInv == Init => WalkInv
<1> SUFFICES ASSUME Init, NEW r \in Requests
             PROVE  WalkInvOf(r)
  BY DEF WalkInv
<1>1. /\ explorer[r].rootIsFile = FALSE /\ explorer[r].filesAvailable = TRUE
      /\ explorer[r].nextFile = NoFile
      /\ Here(r) = "" /\ Buffer(r) = {} /\ Back(r) = {} /\ Queue(r) = <<>>
      /\ Walked(r) = {} /\ Skipped(r) = {}
      /\ search[r] = "none" /\ stage[r] = "prepare" /\ offered[r] = <<>>
  BY DEF Init, InitExplorer, Of, Unopened, Here, Buffer, Back, Queue, Walked, Skipped
<1>2. Range(Queue(r)) = {} /\ Range(offered[r]) = {} /\ DOMAIN offered[r] = {}
      /\ DOMAIN Queue(r) = {}
  BY <1>1, EmptyLemma
<1>3. Entered(r) = {} /\ \A x : ~Passed(r, x)
  BY <1>1, <1>2 DEF Entered, Passed
<1>4. \A f \in Lasting : f # NoFile
  BY FileAssumption DEF Init, Lasting, Originals
<1>5. DirectoriesInv(r)
  BY <1>1, <1>2, <1>3 DEF DirectoriesInv, IsInjective
<1>6. BufferInv(r) /\ FilesInv(r)
  BY <1>1, <1>2, <1>3, <1>4 DEF BufferInv, FilesInv
<1>7. PhaseInv(r)
  BY <1>1, <1>3 DEF PhaseInv
<1> QED
  BY <1>5, <1>6, <1>7 DEF WalkInvOf

\* A file that keeps its name is in the tree.
LEMMA LastingFiles ==
  ASSUME TypeInv, TreeInv, NEW f \in Lasting
  PROVE  f \in DOMAIN tree /\ f # NoFile /\ f \notin Subdirectories /\ f \in Name
BY DEF TypeInv, TreeTyped, FileName, TreeInv, OriginalsKept, Lasting

LEMMA FewerLasting ==
  ASSUME TypeInv, NEW r \in Requests, Step(r)
  PROVE  Lasting' \subseteq Lasting
BY OnlyOffered DEF Lasting

\* A step that leaves a request's walk where it is.
Still(r) ==
  /\ explorer'[r] = explorer[r] /\ search'[r] = search[r] /\ offered'[r] = offered[r]
  /\ search[r] = "get" => current'[r] = current[r]
  /\ \/ stage'[r] = stage[r]
     \/ /\ stage'[r] = "rejected" /\ search[r] = "none"
     \/ /\ stage[r] \notin {"prepare", "rejected"}
        /\ stage'[r] \notin {"prepare", "rejected", "done"}
     \/ /\ stage[r] \notin {"prepare", "rejected"}
        /\ stage'[r] = "done" /\ ~explorer[r].filesAvailable

LEMMA StillWalk ==
  ASSUME Lasting' \subseteq Lasting, asked' = asked,
         NEW r \in Requests, WalkInvOf(r), Still(r)
  PROVE  WalkInvOf(r)'
<1>1. path(r)' = path(r) /\ explorer'[r] = explorer[r]
  BY DEF path, Still
<1>2. /\ Here(r)' = Here(r) /\ Buffer(r)' = Buffer(r) /\ Back(r)' = Back(r)
      /\ Queue(r)' = Queue(r) /\ Walked(r)' = Walked(r) /\ Skipped(r)' = Skipped(r)
  BY <1>1 DEF Here, Buffer, Back, Queue, Walked, Skipped
<1>3. Entered(r)' = Entered(r) /\ \A x : Passed(r, x)' <=> Passed(r, x)
  BY <1>2 DEF Entered, Passed
<1>4. DirectoriesInv(r)'
  BY <1>1, <1>2, <1>3 DEF DirectoriesInv, WalkInvOf
<1>5. BufferInv(r)'
  BY <1>1, <1>2 DEF BufferInv, WalkInvOf
<1>6. FilesInv(r)'
  BY <1>1, <1>3 DEF FilesInv, WalkInvOf, Still
<1>7. PhaseInv(r)'
  BY <1>1, <1>2, <1>3 DEF PhaseInv, WalkInvOf, Still
<1> QED
  BY <1>4, <1>5, <1>6, <1>7 DEF WalkInvOf

\* Where a search is.
LEMMA Searching ==
  ASSUME TypeInv, NEW r \in Requests, WalkInvOf(r), search[r] # "none"
  PROVE  /\ Here(r) # "" /\ Here(r) \in Entered(r)
         /\ ~explorer[r].rootIsFile /\ path(r) \in Subdirectories
         /\ Queue(r) \in Seq(Words) /\ offered[r] \in Seq(Name)
         /\ search[r] \in {"construct", "get"}
         /\ search[r] = "construct" => stage[r] = "prepare" /\ explorer[r].nextFile = NoFile
         /\ search[r] = "get" => stage[r] = "search" /\ current[r] = explorer[r].nextFile
<1>1. Here(r) # "" /\ ~explorer[r].rootIsFile
  BY DEF WalkInvOf, PhaseInv
<1>2. Here(r) \in Entered(r)
  BY <1>1 DEF Entered
<1>3. path(r) \in Subdirectories
  BY <1>2 DEF WalkInvOf, DirectoriesInv
<1>4. Queue(r) \in Seq(Words) /\ offered[r] \in Seq(Name)
  BY DEF TypeInv, ExplorerTyped, RequestTyped, Explorer, Queue
<1>5. search[r] \in {"construct", "get"}
  BY DEF TypeInv, ExplorerTyped
<1>6. /\ search[r] = "construct" => stage[r] = "prepare"
      /\ search[r] = "get" => stage[r] = "search"
  BY DEF TypeInv, PlaceInv
<1>7. /\ stage[r] = "prepare" => explorer[r].nextFile = NoFile
      /\ search[r] = "get" => current[r] = explorer[r].nextFile
  BY DEF WalkInvOf, PhaseInv
<1> QED
  BY <1>1, <1>2, <1>3, <1>4, <1>5, <1>6, <1>7

\* What readdir() returns is in the directory, and was not passed.
LEMMA ReturnedEntry ==
  ASSUME TypeInv, NEW r \in Requests, WalkInvOf(r), NEW entry, Returned(r, entry)
  PROVE  entry.dir = Here(r) /\ entry \notin Back(r) /\ ~Passed(r, entry)
<1>1. entry \in (Buffer(r) \cup Listing(Here(r))) \ Back(r)
  BY DEF Returned, Here, Buffer, Back
<1>2. entry.dir = Here(r)
  BY <1>1 DEF WalkInvOf, DirectoriesInv, Listing
<1>3. Here(r) \notin Walked(r)
  BY DEF WalkInvOf, DirectoriesInv
<1> QED
  BY <1>1, <1>2, <1>3 DEF Passed

\* A directory that is found was not entered: were it the one that was asked for, the
\* directories would be below each other.
LEMMA NewDirectory ==
  ASSUME TypeInv, NEW r \in Requests, WalkInvOf(r), search[r] # "none",
         NEW entry \in Subdirectories, Returned(r, entry)
  PROVE  entry.base \notin Entered(r)
<1> SUFFICES ASSUME entry.base \in Entered(r)
             PROVE  FALSE
  OBVIOUS
<1> DEFINE D == {d \in Subdirectories : d.base \in Entered(r)}
<1>1. /\ Entered(r) \subseteq {d.base : d \in Subdirectories}
      /\ \A d \in Subdirectories : d.base \in Entered(r) => d = path(r) \/ Passed(r, d)
  BY DEF WalkInvOf, DirectoriesInv
<1>2. entry.dir = Here(r) /\ ~Passed(r, entry) /\ Here(r) \in Entered(r)
  BY Searching, ReturnedEntry
<1>3. entry = path(r)
  BY <1>1, <1>2
<1>4. \A d \in D : d.dir \in Entered(r)
  <2> SUFFICES ASSUME NEW d \in D
               PROVE  d.dir \in Entered(r)
    OBVIOUS
  <2>1. CASE Passed(r, d)
    BY <1>2, <2>1 DEF Passed, Entered
  <2>2. CASE d = path(r)
    BY <1>2, <1>3, <2>2
  <2> QED
    BY <1>1, <2>1, <2>2
<1>5. \A d \in D : \E e \in D : d.dir = e.base
  BY <1>1, <1>4
<1>6. entry \in D /\ D \in SUBSET Subdirectories
  OBVIOUS
<1> HIDE DEF D
<1> QED
  BY <1>5, <1>6, TreeAssumption

\* What findNextFile() leaves alone before it ends.
FilesKept(r) ==
  /\ explorer'[r].rootIsFile = explorer[r].rootIsFile
  /\ explorer'[r].filesAvailable = explorer[r].filesAvailable
  /\ explorer'[r].nextFile = explorer[r].nextFile

\* findNextFile() finds a directory.
LEMMA DirectoryFound ==
  ASSUME TypeInv, NEW r \in Requests, WalkInvOf(r), search[r] # "none",
         findNextFile_Directory(r), path(r)' = path(r)
  PROVE  /\ DirectoriesInv(r)'
         /\ Here(r)' = Here(r) /\ Buffer(r)' = Buffer(r) /\ search' = search
         /\ FilesKept(r) /\ Entered(r)' # {}
         /\ \A x : x \notin Subdirectories => (Passed(r, x)' <=> Passed(r, x))
<1>1. PICK entry \in Subdirectories :
        /\ Returned(r, entry)
        /\ explorer' = [explorer EXCEPT
             ![r].directory.returned = @ \cup {entry},
             ![r].directoriesQueue = Append(@, entry.base)]
        /\ search' = search
  BY DEF findNextFile_Directory
<1>2. /\ Here(r)' = Here(r) /\ Buffer(r)' = Buffer(r) /\ Back(r)' = Back(r) \cup {entry}
      /\ Queue(r)' = Append(Queue(r), entry.base)
      /\ Walked(r)' = Walked(r) /\ Skipped(r)' = Skipped(r)
  BY <1>1 DEF TypeInv, ExplorerTyped, Explorer, Directory, Here, Buffer, Back, Queue, Walked,
              Skipped
<1>3. /\ entry.dir = Here(r) /\ entry \notin Back(r) /\ entry.base \notin Entered(r)
      /\ Queue(r) \in Seq(Words) /\ entry.base \in Words /\ Here(r) # ""
      /\ Here(r) \in Entered(r)
  BY <1>1, ReturnedEntry, NewDirectory, Searching, TreeAssumption DEF Name
<1>4. /\ Range(Queue(r)') = Range(Queue(r)) \cup {entry.base}
      /\ IsInjective(Queue(r)')
  <2>1. IsInjective(Queue(r)) /\ entry.base \notin Range(Queue(r))
    BY <1>3 DEF WalkInvOf, DirectoriesInv, Entered
  <2>2. Queue(r) \in Seq(Words) /\ entry.base \in Words
    BY <1>3
  <2>3. /\ Range(Append(Queue(r), entry.base)) = Range(Queue(r)) \cup {entry.base}
        /\ IsInjective(Append(Queue(r), entry.base))
    BY <2>1, <2>2, PushLemma
  <2> QED
    BY <1>2, <2>3
<1>5. Entered(r)' = Entered(r) \cup {entry.base}
  BY <1>2, <1>4 DEF Entered
<1>6. \A x : Passed(r, x)' <=> Passed(r, x) \/ x = entry
  BY <1>2, <1>3 DEF Passed
<1>7. DirectoriesInv(r)'
  <2> USE DEF WalkInvOf, DirectoriesInv
  <2>1. Entered(r)' \subseteq {d.base : d \in Subdirectories}
    BY <1>5
  <2>2. /\ Here(r)' \notin Walked(r)' /\ Here(r)' \notin Range(Queue(r)')
        /\ Walked(r)' \cap Range(Queue(r)') = {}
    BY <1>2, <1>3, <1>4 DEF Entered
  <2>3. ASSUME NEW d \in Subdirectories
        PROVE  /\ d.base \in Entered(r)' => d = path(r) \/ Passed(r, d)'
               /\ Passed(r, d)' => d.base \in Entered(r)'
    <3>1. d.base = entry.base => d = entry
      BY TreeAssumption
    <3> QED
      BY <1>5, <1>6, <3>1
  <2>4. path(r) \in Subdirectories /\ path(r).base \in Walked(r)' \cup {Here(r)'}
    BY <1>2, <1>3
  <2>5. \A x \in Buffer(r)' \cup Back(r)' : x.dir = Here(r)'
    BY <1>2, <1>3
  <2> QED
    BY <1>2, <1>3, <1>4, <2>1, <2>2, <2>3, <2>4, <2>5
<1>8. FilesKept(r)
  BY <1>1 DEF TypeInv, ExplorerTyped, Explorer, FilesKept
<1> QED
  BY <1>1, <1>2, <1>5, <1>6, <1>7, <1>8

\* All that lasts in a directory was returned when its stream ends.
LEMMA AllReturned ==
  ASSUME TypeInv, TreeInv, NEW r \in Requests, WalkInvOf(r), EndOfDirectory(r),
         NEW x \in Subdirectories \cup Lasting, x.dir = Here(r)
  PROVE  x \in Back(r)
<1>1. search[r] # "none" /\ Buffer(r) \cap Listing(Here(r)) \subseteq Back(r)
  BY DEF EndOfDirectory, Here, Buffer, Back
<1>2. x \in Buffer(r)
  BY <1>1, Searching DEF WalkInvOf, BufferInv
<1>3. x \in Listing(Here(r))
  BY LastingFiles DEF Listing
<1> QED
  BY <1>1, <1>2, <1>3

\* findNextFile() goes on with another directory.
LEMMA DirectoryEnds ==
  ASSUME TypeInv, TreeInv, NEW r \in Requests, WalkInvOf(r),
         findNextFile_NextDirectory(r), path(r)' = path(r), Lasting' \subseteq Lasting
  PROVE  /\ DirectoriesInv(r)' /\ BufferInv(r)'
         /\ Here(r)' # "" /\ search' = search
         /\ FilesKept(r) /\ Entered(r)' # {}
         /\ \A x \in Lasting : Passed(r, x)' <=> Passed(r, x)
<1> DEFINE q == Queue(r)
<1>1. PICK k \in 1 .. Len(q) :
         explorer' = [explorer EXCEPT
           ![r].directory = Opened(q[k]),
           ![r].directoriesQueue = SubSeq(q, k + 1, Len(q)),
           ![r].walked = @ \cup {explorer[r].directory.path},
           ![r].skipped = @ \cup {q[j] : j \in 1 .. k - 1}]
  BY DEF findNextFile_NextDirectory, Queue
<1>2. EndOfDirectory(r) /\ search' = search /\ search[r] # "none"
  BY DEF findNextFile_NextDirectory, EndOfDirectory
<1>3. /\ Here(r)' = q[k] /\ Buffer(r)' = Listing(q[k]) /\ Back(r)' = {}
      /\ Queue(r)' = SubSeq(q, k + 1, Len(q))
      /\ Walked(r)' = Walked(r) \cup {Here(r)}
      /\ Skipped(r)' = Skipped(r) \cup {q[j] : j \in 1 .. k - 1}
      /\ FilesKept(r)
  BY <1>1 DEF TypeInv, ExplorerTyped, Explorer, Opened, Here, Buffer, Back, Queue, Walked,
              Skipped, FilesKept
<1>4. Here(r) # "" /\ path(r) \in Subdirectories /\ Here(r) \in Entered(r)
  BY <1>2, Searching
<1>5. q \in Seq(Words)
  BY <1>2, Searching
<1> HIDE DEF q
<1>6. k \in 1 .. Len(q)
  BY <1>1
<1>7. Len(q) \in Nat /\ k \in Nat /\ k >= 1 /\ k <= Len(q) /\ DOMAIN q = 1 .. Len(q)
  BY <1>5, <1>6
<1>8. /\ Range(q) = {q[j] : j \in 1 .. Len(q)}
      /\ \A i, j \in 1 .. Len(q) : q[i] = q[j] => i = j
  BY <1>7 DEF Range, WalkInvOf, DirectoriesInv, IsInjective, q
<1>9. /\ DOMAIN SubSeq(q, k + 1, Len(q)) = 1 .. Len(q) - k
      /\ \A i \in 1 .. Len(q) - k : SubSeq(q, k + 1, Len(q))[i] = q[i + k]
  BY <1>5, <1>7
<1>10. /\ Range(Queue(r)') = {q[j] : j \in k + 1 .. Len(q)}
      /\ IsInjective(Queue(r)')
  <2>1. Range(Queue(r)') \subseteq {q[j] : j \in k + 1 .. Len(q)}
    BY <1>3, <1>7, <1>9 DEF Range
  <2>2. ASSUME NEW j \in k + 1 .. Len(q)
        PROVE  q[j] \in Range(Queue(r)')
    <3>1. j - k \in 1 .. Len(q) - k /\ (j - k) + k = j
      BY <1>7
    <3>2. j - k \in DOMAIN Queue(r)' /\ Queue(r)'[j - k] = q[j]
      BY <1>3, <1>9, <3>1
    <3> QED
      BY <3>2 DEF Range
  <2>3. IsInjective(Queue(r)')
    BY <1>3, <1>7, <1>8, <1>9 DEF IsInjective
  <2> QED
    BY <2>1, <2>2, <2>3
<1>11. Range(q) = {q[j] : j \in 1 .. k - 1} \cup {q[k]} \cup Range(Queue(r)')
  BY <1>7, <1>8, <1>10
<1>12. q[k] # "" /\ q[k] \in Range(q)
  <2>1. q[k] \in Range(q)
    BY <1>7, <1>8
  <2>2. PICK d \in Subdirectories : q[k] = d.base
    BY <2>1 DEF WalkInvOf, DirectoriesInv, Entered, q
  <2> QED
    BY <2>1, <2>2, TreeAssumption
<1>13. Entered(r)' = Entered(r)
  BY <1>3, <1>4, <1>11, <1>12 DEF Entered, q
<1>14. ASSUME NEW x \in Subdirectories \cup Lasting
       PROVE  Passed(r, x)' <=> Passed(r, x)
  <2>1. Passed(r, x)' <=> x.dir \in Walked(r) \/ x.dir = Here(r)
    BY <1>3 DEF Passed
  <2>2. x.dir = Here(r) => x \in Back(r)
    BY <1>2, AllReturned
  <2> QED
    BY <2>1, <2>2 DEF Passed
<1>15. /\ q[k] \notin Range(Queue(r)') /\ q[k] \notin Walked(r) \cup {Here(r)}
       /\ (Walked(r) \cup {Here(r)}) \cap Range(Queue(r)') = {}
  <2>1. q[k] \notin Range(Queue(r)')
    BY <1>7, <1>8, <1>10
  <2> QED
    BY <1>11, <1>12, <2>1 DEF WalkInvOf, DirectoriesInv, q
<1>16. DirectoriesInv(r)'
  <2> USE DEF WalkInvOf, DirectoriesInv
  <2>1. path(r).base \in Walked(r) \cup {Here(r)}
    BY <1>4
  <2>2. ASSUME NEW x \in Buffer(r)' \cup Back(r)'
        PROVE  x.dir = Here(r)'
    BY <1>3 DEF Listing
  <2>3. ASSUME NEW d \in Subdirectories
        PROVE  /\ d.base \in Entered(r)' => d = path(r) \/ Passed(r, d)'
               /\ Passed(r, d)' => d.base \in Entered(r)'
    BY <1>13, <1>14
  <2>4. Entered(r)' \subseteq {d.base : d \in Subdirectories}
    BY <1>13
  <2>5. /\ Here(r)' \notin Walked(r)' /\ Here(r)' \notin Range(Queue(r)')
        /\ Walked(r)' \cap Range(Queue(r)') = {}
    BY <1>3, <1>15
  <2> QED
    BY <1>3, <1>4, <1>10, <1>12, <2>1, <2>2, <2>3, <2>4, <2>5
<1>17. BufferInv(r)'
  <2> SUFFICES ASSUME NEW x \in Subdirectories \cup Lasting', x.dir = q[k]
               PROVE  x \in Listing(q[k])
    BY <1>3 DEF BufferInv
  <2> QED
    BY LastingFiles DEF Listing
<1> QED
  BY <1>2, <1>3, <1>4, <1>12, <1>13, <1>14, <1>16, <1>17

\* findNextFile() finds no other directory.
LEMMA WalkEnds ==
  ASSUME TypeInv, TreeInv, NEW r \in Requests, WalkInvOf(r),
         findNextFile_End(r), path(r)' = path(r)
  PROVE  /\ DirectoriesInv(r)' /\ BufferInv(r)'
         /\ Here(r)' = "" /\ Entered(r)' # {}
         /\ explorer'[r].rootIsFile = explorer[r].rootIsFile
         /\ explorer'[r].filesAvailable = FALSE
         /\ explorer'[r].nextFile = NoFile
         /\ \A x \in Lasting : Passed(r, x)' <=> Passed(r, x)
<1> DEFINE q == Queue(r)
<1>1. explorer' = [explorer EXCEPT
           ![r].directory = Unopened, ![r].directoriesQueue = <<>>,
           ![r].nextFile = NoFile, ![r].filesAvailable = FALSE,
           ![r].walked = @ \cup {explorer[r].directory.path},
           ![r].skipped = @ \cup {q[j] : j \in 1 .. Len(q)}]
  BY DEF findNextFile_End, Queue
<1>2. explorer'[r] = [explorer[r] EXCEPT
           !.directory = Unopened, !.directoriesQueue = <<>>,
           !.nextFile = NoFile, !.filesAvailable = FALSE,
           !.walked = @ \cup {explorer[r].directory.path},
           !.skipped = @ \cup {q[j] : j \in 1 .. Len(q)}]
  BY <1>1 DEF TypeInv, ExplorerTyped
<1>3. explorer[r] \in Explorer
  BY DEF TypeInv, ExplorerTyped
<1>4. EndOfDirectory(r) /\ search[r] # "none"
  BY DEF findNextFile_End, EndOfDirectory
<1> HIDE DEF q
<1>5. /\ Here(r)' = "" /\ Buffer(r)' = {} /\ Back(r)' = {} /\ Queue(r)' = <<>>
      /\ Walked(r)' = Walked(r) \cup {Here(r)}
      /\ Skipped(r)' = Skipped(r) \cup {q[j] : j \in 1 .. Len(q)}
      /\ explorer'[r].rootIsFile = explorer[r].rootIsFile
      /\ explorer'[r].filesAvailable = FALSE
      /\ explorer'[r].nextFile = NoFile
  <2>1. explorer'[r].directory = Unopened /\ explorer'[r].directoriesQueue = <<>>
    BY <1>2, <1>3 DEF Explorer
  <2>2. /\ explorer'[r].walked = explorer[r].walked \cup {explorer[r].directory.path}
        /\ explorer'[r].skipped = explorer[r].skipped \cup {q[j] : j \in 1 .. Len(q)}
    BY <1>2, <1>3 DEF Explorer
  <2>3. /\ explorer'[r].rootIsFile = explorer[r].rootIsFile
        /\ explorer'[r].nextFile = NoFile
    BY <1>2, <1>3 DEF Explorer
  <2>4. explorer'[r].filesAvailable = FALSE
    BY <1>2, <1>3 DEF Explorer
  <2>5. Here(r)' = "" /\ Buffer(r)' = {} /\ Back(r)' = {} /\ Queue(r)' = <<>>
    <3>1. Unopened.path = "" /\ Unopened.buffer = {} /\ Unopened.returned = {}
      BY DEF Unopened
    <3>2. Here(r)' = "" /\ Buffer(r)' = {} /\ Back(r)' = {}
      BY <2>1, <3>1 DEF Here, Buffer, Back
    <3>3. Queue(r)' = <<>>
      BY <2>1 DEF Queue
    <3> QED
      BY <3>2, <3>3
  <2>6. /\ Walked(r)' = Walked(r) \cup {Here(r)}
        /\ Skipped(r)' = Skipped(r) \cup {q[j] : j \in 1 .. Len(q)}
    BY <2>2 DEF Here, Walked, Skipped
  <2> QED
    BY <2>3, <2>4, <2>5, <2>6
<1>6. Here(r) # "" /\ path(r) \in Subdirectories /\ Here(r) \in Entered(r)
  BY <1>4, Searching
<1>7. Range(q) = {q[j] : j \in 1 .. Len(q)}
  <2>1. q \in Seq(Words)
    BY <1>4, Searching DEF q
  <2> QED
    BY <2>1 DEF Range
<1>8. Range(Queue(r)') = {} /\ IsInjective(Queue(r)')
  BY <1>5, EmptyLemma
<1>9. Entered(r)' = Entered(r)
  BY <1>5, <1>6, <1>7, <1>8 DEF Entered, q
<1>10. ASSUME NEW x \in Subdirectories \cup Lasting
      PROVE  Passed(r, x)' <=> Passed(r, x)
  <2>1. Passed(r, x)' <=> x.dir \in Walked(r) \/ x.dir = Here(r)
    BY <1>5 DEF Passed
  <2>2. x.dir = Here(r) => x \in Back(r)
    BY <1>4, AllReturned
  <2> QED
    BY <2>1, <2>2 DEF Passed
<1>11. DirectoriesInv(r)'
  <2> USE DEF WalkInvOf, DirectoriesInv
  <2>1. path(r).base \in Walked(r) \cup {Here(r)}
    BY <1>6
  <2>2. "" \notin Walked(r) \cup {Here(r)}
    <3>1. Walked(r) \subseteq {d.base : d \in Subdirectories}
      BY DEF Entered
    <3>2. \A d \in Subdirectories : d.base # ""
      BY TreeAssumption
    <3> QED
      BY <1>6, <3>1, <3>2
  <2>3. ASSUME NEW d \in Subdirectories
        PROVE  /\ d.base \in Entered(r)' => d = path(r) \/ Passed(r, d)'
               /\ Passed(r, d)' => d.base \in Entered(r)'
    BY <1>9, <1>10
  <2>4. Entered(r)' \subseteq {d.base : d \in Subdirectories}
    BY <1>9
  <2> QED
    BY <1>5, <1>6, <1>8, <2>1, <2>2, <2>3, <2>4
<1>12. BufferInv(r)'
  BY <1>5 DEF BufferInv
<1> QED
  BY <1>5, <1>6, <1>9, <1>10, <1>11, <1>12

\* readdir() returns an entry that is no directory.
LEMMA EntryReturned ==
  ASSUME TypeInv, NEW r \in Requests, WalkInvOf(r), search[r] # "none",
         path(r)' = path(r), Lasting' \subseteq Lasting,
         NEW entry, Returned(r, entry), entry \notin Subdirectories,
         Here(r)' = Here(r), Buffer(r)' = Buffer(r), Back(r)' = Back(r) \cup {entry},
         Queue(r)' = Queue(r), Walked(r)' = Walked(r), Skipped(r)' = Skipped(r)
  PROVE  /\ DirectoriesInv(r)' /\ BufferInv(r)' /\ Entered(r)' # {}
         /\ \A x : Passed(r, x)' <=> Passed(r, x) \/ x = entry
<1>1. /\ entry.dir = Here(r) /\ Here(r) # "" /\ Here(r) \in Entered(r)
      /\ path(r) \in Subdirectories
  BY ReturnedEntry, Searching
<1>2. Entered(r)' = Entered(r)
  BY DEF Entered
<1>3. \A x : Passed(r, x)' <=> Passed(r, x) \/ x = entry
  BY <1>1 DEF Passed
<1>4. DirectoriesInv(r)'
  <2> USE DEF WalkInvOf, DirectoriesInv
  <2>1. \A x \in Buffer(r)' \cup Back(r)' : x.dir = Here(r)'
    BY <1>1
  <2>2. ASSUME NEW d \in Subdirectories
        PROVE  /\ d.base \in Entered(r)' => d = path(r) \/ Passed(r, d)'
               /\ Passed(r, d)' => d.base \in Entered(r)'
    BY <1>2, <1>3
  <2> QED
    BY <1>1, <1>2, <2>1, <2>2
<1>5. BufferInv(r)'
  BY DEF BufferInv, WalkInvOf
<1> QED
  BY <1>1, <1>2, <1>3, <1>4, <1>5

LEMMA SearchesWalk ==
  ASSUME TypeInv, TreeInv, NEW r \in Requests, Step(r), Searches(r), WalkInvOf(r)
  PROVE  WalkInvOf(r)'
<1>1. /\ Lasting' \subseteq Lasting /\ path(r)' = path(r)
      /\ stage'[r] = stage[r] /\ current'[r] = current[r] /\ offered'[r] = offered[r]
      /\ search[r] # "none" /\ search' = search
  BY FewerLasting, OnlyOffered
     DEF path, Searches, fileVarsOf, historyVars, findNextFile_Directory,
         findNextFile_NextDirectory, EndOfDirectory
<1>2. \A f \in Lasting : f \notin Subdirectories
  BY LastingFiles
<1>3. /\ DirectoriesInv(r)' /\ BufferInv(r)'
      /\ FilesKept(r) /\ Entered(r)' # {} /\ Here(r)' # ""
      /\ \A f \in Lasting : Passed(r, f)' <=> Passed(r, f)
  <2>1. CASE findNextFile_Directory(r)
    <3>1. Here(r)' = Here(r) /\ Buffer(r)' = Buffer(r) /\ Here(r) # ""
      BY <1>1, <2>1, DirectoryFound, Searching
    <3>2. BufferInv(r)'
      BY <1>1, <3>1 DEF BufferInv, WalkInvOf
    <3> QED
      BY <1>1, <1>2, <2>1, <3>1, <3>2, DirectoryFound
  <2>2. CASE findNextFile_NextDirectory(r)
    BY <1>1, <2>2, DirectoryEnds
  <2> QED
    BY <2>1, <2>2 DEF Searches
<1>4. FilesInv(r)'
  BY <1>1, <1>3 DEF FilesInv, FilesKept, WalkInvOf
<1>5. PhaseInv(r)'
  BY <1>1, <1>3 DEF PhaseInv, FilesKept, WalkInvOf
<1> QED
  BY <1>3, <1>4, <1>5 DEF WalkInvOf

LEMMA SearchThrowsWalk ==
  ASSUME TypeInv, TreeInv, NEW r \in Requests, Step(r), SearchThrows(r), WalkInvOf(r)
  PROVE  WalkInvOf(r)'
<1>1. PICK entry : findNextFile_Throws(r, entry)
  BY DEF SearchThrows
<1>2. /\ Lasting' \subseteq Lasting /\ path(r)' = path(r)
      /\ offered'[r] = offered[r]
      /\ search[r] # "none" /\ search'[r] = "none"
      /\ stage'[r] \in {"rejected", "loop"}
      /\ stage[r] = "prepare" => stage'[r] = "rejected"
  <2>1. search'[r] = "none" /\ search[r] # "none"
    BY <1>1 DEF findNextFile_Throws, TypeInv, ExplorerTyped
  <2>2. /\ offered'[r] = offered[r]
        /\ stage'[r] = IF search[r] = "construct" THEN "rejected" ELSE "loop"
    BY DEF SearchThrows, historyVars, To, TypeInv, RequestTyped
  <2>3. stage[r] = "prepare" => search[r] = "construct"
    BY <2>1 DEF TypeInv, ExplorerTyped, PlaceInv
  <2> QED
    BY <2>1, <2>2, <2>3, FewerLasting, OnlyOffered DEF path
<1>3. Returned(r, entry) /\ entry \notin Subdirectories /\ entry \notin Lasting
  BY <1>1, LastingFiles DEF findNextFile_Throws, Exists
<1>4. /\ Here(r)' = Here(r) /\ Buffer(r)' = Buffer(r) /\ Back(r)' = Back(r) \cup {entry}
      /\ Queue(r)' = Queue(r) /\ Walked(r)' = Walked(r) /\ Skipped(r)' = Skipped(r)
      /\ FilesKept(r)
  BY <1>1 DEF findNextFile_Throws, TypeInv, ExplorerTyped, Explorer, Directory, Here, Buffer,
              Back, Queue, Walked, Skipped, FilesKept
<1>5. /\ DirectoriesInv(r)' /\ BufferInv(r)' /\ Entered(r)' # {}
      /\ \A f \in Lasting : Passed(r, f)' <=> Passed(r, f)
  <2>1. /\ DirectoriesInv(r)' /\ BufferInv(r)' /\ Entered(r)' # {}
        /\ \A x : Passed(r, x)' <=> Passed(r, x) \/ x = entry
    BY <1>2, <1>3, <1>4, EntryReturned
  <2> QED
    BY <1>3, <2>1
<1>6. Here(r)' # "" /\ ~explorer[r].rootIsFile
  BY <1>2, <1>4, Searching
<1>7. FilesInv(r)'
  BY <1>2, <1>4, <1>5 DEF FilesInv, FilesKept, WalkInvOf
<1>8. PhaseInv(r)'
  BY <1>2, <1>4, <1>5, <1>6 DEF PhaseInv, FilesKept, WalkInvOf
<1> QED
  BY <1>5, <1>7, <1>8 DEF WalkInvOf

\* A file, or the end, is found.
LEMMA FoundNext ==
  ASSUME TypeInv, TreeInv, NEW r \in Requests, Step(r), Found(r), WalkInvOf(r)
  PROVE  /\ DirectoriesInv(r)' /\ BufferInv(r)' /\ Entered(r)' # {}
         /\ ~explorer'[r].rootIsFile
         /\ search[r] # "none" /\ search'[r] = "none"
         /\ explorer'[r].filesAvailable => Here(r)' # ""
         /\ ~explorer'[r].filesAvailable => Here(r)' = "" /\ explorer'[r].nextFile = NoFile
         /\ \A f \in Lasting : Passed(r, f)' <=> Passed(r, f) \/ f = explorer'[r].nextFile
         /\ \A f \in Lasting : f = explorer'[r].nextFile => ~Passed(r, f)
<1>1. Lasting' \subseteq Lasting /\ path(r)' = path(r)
  BY FewerLasting, OnlyOffered DEF path
<1>2. \A f \in Lasting : f # NoFile
  BY LastingFiles
<1>3. CASE findNextFile_End(r)
  <2>1. search[r] # "none" /\ search'[r] = "none"
    BY <1>3 DEF findNextFile_End, EndOfDirectory, TypeInv, ExplorerTyped
  <2>2. /\ DirectoriesInv(r)' /\ BufferInv(r)'
        /\ Here(r)' = "" /\ Entered(r)' # {}
        /\ explorer'[r].rootIsFile = explorer[r].rootIsFile
        /\ explorer'[r].filesAvailable = FALSE
        /\ explorer'[r].nextFile = NoFile
        /\ \A x \in Lasting : Passed(r, x)' <=> Passed(r, x)
    BY <1>1, <1>3, WalkEnds
  <2>3. ~explorer[r].rootIsFile
    BY <2>1, Searching
  <2> QED
    BY <1>2, <2>1, <2>2, <2>3
<1>4. ASSUME NEW entry \in DOMAIN tree, findNextFile_File(r, entry)
      PROVE  /\ DirectoriesInv(r)' /\ BufferInv(r)' /\ Entered(r)' # {}
             /\ ~explorer'[r].rootIsFile
             /\ search[r] # "none" /\ search'[r] = "none"
             /\ explorer'[r].filesAvailable /\ Here(r)' # ""
             /\ explorer'[r].nextFile = entry /\ ~Passed(r, entry)
             /\ \A f : Passed(r, f)' <=> Passed(r, f) \/ f = entry
  <2>1. search[r] # "none" /\ search'[r] = "none" /\ Returned(r, entry)
    BY <1>4 DEF findNextFile_File, TypeInv, ExplorerTyped
  <2>2. /\ Here(r)' = Here(r) /\ Buffer(r)' = Buffer(r) /\ Back(r)' = Back(r) \cup {entry}
        /\ Queue(r)' = Queue(r) /\ Walked(r)' = Walked(r) /\ Skipped(r)' = Skipped(r)
        /\ explorer'[r].rootIsFile = explorer[r].rootIsFile
        /\ explorer'[r].filesAvailable = explorer[r].filesAvailable
        /\ explorer'[r].nextFile = entry
    BY <1>4 DEF findNextFile_File, TypeInv, ExplorerTyped, Explorer, Directory, Here, Buffer,
                Back, Queue, Walked, Skipped
  <2>3. Here(r) # "" /\ ~explorer[r].rootIsFile
    BY <2>1, Searching
  <2>4. explorer[r].filesAvailable
    BY <2>3 DEF WalkInvOf, PhaseInv
  <2>5. entry \notin Subdirectories
    BY DEF TypeInv, TreeTyped, FileName
  <2>6. ~Passed(r, entry)
    BY <2>1, ReturnedEntry
  <2>7. /\ DirectoriesInv(r)' /\ BufferInv(r)' /\ Entered(r)' # {}
        /\ \A x : Passed(r, x)' <=> Passed(r, x) \/ x = entry
    BY <1>1, <2>1, <2>2, <2>5, EntryReturned
  <2> QED
    BY <2>1, <2>2, <2>3, <2>4, <2>6, <2>7
<1> QED
  BY <1>3, <1>4 DEF Found

LEMMA FoundWalk ==
  ASSUME TypeInv, TreeInv, NEW r \in Requests, Step(r), Found(r), WalkInvOf(r)
  PROVE  WalkInvOf(r)'
<1> DEFINE next == explorer'[r].nextFile
           last == explorer[r].nextFile
<1>1. Lasting' \subseteq Lasting /\ path(r)' = path(r)
  BY FewerLasting, OnlyOffered DEF path
<1>2. /\ DirectoriesInv(r)' /\ BufferInv(r)' /\ Entered(r)' # {}
      /\ ~explorer'[r].rootIsFile
      /\ search[r] # "none" /\ search'[r] = "none"
      /\ explorer'[r].filesAvailable => Here(r)' # ""
      /\ ~explorer'[r].filesAvailable => Here(r)' = "" /\ explorer'[r].nextFile = NoFile
  BY FoundNext
<1>3. /\ \A f \in Lasting : Passed(r, f)' <=> Passed(r, f) \/ f = next
      /\ \A f \in Lasting : f = next => ~Passed(r, f)
  BY FoundNext
<1>4. /\ search[r] \in {"construct", "get"} /\ ~explorer[r].rootIsFile
      /\ offered[r] \in Seq(Name)
      /\ search[r] = "construct" => last = NoFile
      /\ search[r] = "get" => current[r] = last
  BY <1>2, Searching
<1>5. /\ \A f \in Lasting : Passed(r, f) <=> f \in Range(offered[r]) \/ f = last
      /\ \A f \in Lasting : f = last => f \notin Range(offered[r])
      /\ \A f \in Lasting : \A i, j \in DOMAIN offered[r] :
           offered[r][i] = f /\ offered[r][j] = f => i = j
  BY <1>4 DEF WalkInvOf, FilesInv
<1>6. CASE search[r] = "construct"
  <2>1. stage'[r] = "loop" /\ offered'[r] = offered[r]
    BY <1>6 DEF Found, To, TypeInv, RequestTyped, historyVars
  <2>2. \A f \in Lasting : f # last
    BY <1>4, <1>6, LastingFiles
  <2>3. FilesInv(r)'
    BY <1>1, <1>3, <1>5, <2>1, <2>2 DEF FilesInv
  <2>4. PhaseInv(r)'
    BY <1>2, <2>1 DEF PhaseInv
  <2> QED
    BY <1>2, <2>3, <2>4 DEF WalkInvOf
<1>7. CASE search[r] = "get"
  <2>1. Proceed(r, current[r])
    BY <1>7 DEF Found
  <2>2. offered'[r] = Append(offered[r], last) /\ stage'[r] \in {"compress", "open"}
    BY <1>4, <1>7, <2>1 DEF Proceed, To, TypeInv, RequestTyped
  <2>3. last \in Name
    BY DEF TypeInv, ExplorerTyped, Explorer
  <2>4. Range(offered'[r]) = Range(offered[r]) \cup {last}
    BY <1>4, <2>2, <2>3, PushLemma
  <2>5. ASSUME NEW f \in Lasting, NEW i \in DOMAIN offered'[r], NEW j \in DOMAIN offered'[r],
               offered'[r][i] = f, offered'[r][j] = f
        PROVE  i = j
    <3>1. /\ DOMAIN offered[r] = 1 .. Len(offered[r]) /\ Len(offered[r]) \in Nat
          /\ DOMAIN offered'[r] = 1 .. Len(offered[r]) + 1
          /\ \A k \in 1 .. Len(offered[r]) : offered'[r][k] = offered[r][k]
          /\ offered'[r][Len(offered[r]) + 1] = last
      BY <1>4, <2>2, <2>3
    <3>2. CASE f = last
      <4>1. f \notin Range(offered[r])
        BY <1>5, <3>2
      <4>2. \A k \in 1 .. Len(offered[r]) : offered[r][k] # f
        BY <3>1, <4>1 DEF Range
      <4> QED
        BY <2>5, <3>1, <4>2
    <3>3. CASE f # last
      <4>1. i \in 1 .. Len(offered[r]) /\ j \in 1 .. Len(offered[r])
        BY <2>5, <3>1, <3>3
      <4> QED
        BY <1>5, <2>5, <3>1, <4>1
    <3> QED
      BY <3>2, <3>3
  <2>6. FilesInv(r)'
    BY <1>1, <1>3, <1>5, <2>4, <2>5 DEF FilesInv
  <2>7. PhaseInv(r)'
    BY <1>2, <2>2 DEF PhaseInv
  <2> QED
    BY <1>2, <2>6, <2>7 DEF WalkInvOf
<1> QED
  BY <1>4, <1>6, <1>7

LEMMA PreparePathWalk ==
  ASSUME TypeInv, TreeInv, NEW r \in Requests, Step(r), preparePath(r), WalkInvOf(r)
  PROVE  WalkInvOf(r)'
<1>1. /\ Lasting' \subseteq Lasting /\ path(r)' = path(r)
      /\ offered'[r] = offered[r] /\ current' = current
      /\ stage[r] = "prepare" /\ search[r] = "none"
  BY FewerLasting, OnlyOffered DEF path, preparePath, historyVars, fileVarsOf
<1>2. /\ Entered(r) = {} /\ Here(r) = "" /\ offered[r] = <<>>
      /\ ~explorer[r].rootIsFile /\ explorer[r].nextFile = NoFile
      /\ explorer[r].filesAvailable
  BY <1>1 DEF WalkInvOf, PhaseInv
<1>3. /\ Queue(r) = <<>> /\ Buffer(r) = {} /\ Back(r) = {}
      /\ Walked(r) = {} /\ Skipped(r) = {} /\ Range(Queue(r)) = {} /\ IsInjective(Queue(r))
  BY <1>2 DEF WalkInvOf, DirectoriesInv, Entered
<1>4. CASE ConstructFails(r, path(r)) /\ To(r, "rejected")
  <2>1. Still(r)
    BY <1>1, <1>4 DEF ConstructFails, Still, explorerVars, To, TypeInv, RequestTyped
  <2> QED
    BY <2>1, FewerLasting, OnlyOffered, StillWalk
<1>5. CASE ConstructFile(r, path(r)) /\ To(r, "loop")
  <2>1. explorer' = [explorer EXCEPT ![r].nextFile = path(r), ![r].rootIsFile = TRUE]
    BY <1>5 DEF ConstructFile
  <2>2. /\ Here(r)' = Here(r) /\ Buffer(r)' = Buffer(r) /\ Back(r)' = Back(r)
        /\ Queue(r)' = Queue(r) /\ Walked(r)' = Walked(r) /\ Skipped(r)' = Skipped(r)
    BY <2>1 DEF TypeInv, ExplorerTyped, Explorer, Here, Buffer, Back, Queue, Walked, Skipped
  <2>3. explorer'[r] = [explorer[r] EXCEPT !.nextFile = path(r), !.rootIsFile = TRUE]
    BY <2>1 DEF TypeInv, ExplorerTyped
  <2>4. explorer'[r].nextFile = path(r)
    BY <2>3 DEF TypeInv, ExplorerTyped, Explorer
  <2>5. explorer'[r].rootIsFile
    BY <2>3 DEF TypeInv, ExplorerTyped, Explorer
  <2>6. explorer'[r].filesAvailable
    BY <1>2, <2>3 DEF TypeInv, ExplorerTyped, Explorer
  <2>7. path(r) \notin Subdirectories
    BY <1>5 DEF ConstructFile, Exists, TypeInv, TreeTyped, FileName
  <2>8. stage'[r] = "loop" /\ search' = search
    BY <1>5 DEF ConstructFile, To, TypeInv, RequestTyped
  <2>9. Entered(r)' = Entered(r) /\ \A x : Passed(r, x)' <=> Passed(r, x)
    BY <2>2 DEF Entered, Passed
  <2>10. DirectoriesInv(r)'
    BY <1>1, <2>2, <2>9 DEF DirectoriesInv, WalkInvOf
  <2>11. BufferInv(r)' /\ FilesInv(r)'
    BY <1>2, <2>2, <2>5 DEF BufferInv, FilesInv
  <2>12. PhaseInv(r)'
    BY <1>1, <1>2, <2>4, <2>5, <2>6, <2>7, <2>8 DEF PhaseInv
  <2> QED
    BY <2>10, <2>11, <2>12 DEF WalkInvOf
<1>6. CASE ConstructDirectory(r, path(r)) /\ UNCHANGED stage
  <2> DEFINE dir == path(r).base
  <2>1. /\ path(r) \in Subdirectories /\ dir # "" /\ dir \in Words
        /\ explorer' = [explorer EXCEPT ![r].directory = Opened(dir)]
        /\ search' = [search EXCEPT ![r] = "construct"]
    BY <1>6, TreeAssumption DEF ConstructDirectory, Name
  <2>2. /\ Here(r)' = dir /\ Buffer(r)' = Listing(dir) /\ Back(r)' = {}
        /\ Queue(r)' = Queue(r) /\ Walked(r)' = Walked(r) /\ Skipped(r)' = Skipped(r)
        /\ FilesKept(r)
    BY <2>1 DEF TypeInv, ExplorerTyped, Explorer, Opened, Here, Buffer, Back, Queue, Walked,
                Skipped, FilesKept
  <2>3. stage'[r] = "prepare" /\ search'[r] = "construct"
    BY <1>1, <1>6, <2>1 DEF TypeInv, ExplorerTyped
  <2>4. Entered(r)' = {dir} /\ \A x : ~Passed(r, x)'
    BY <1>3, <2>1, <2>2 DEF Entered, Passed
  <2>5. DirectoriesInv(r)'
    <3>1. \A d \in Subdirectories : d.base = dir => d = path(r)
      BY <2>1, TreeAssumption
    <3>2. \A x \in Buffer(r)' \cup Back(r)' : x.dir = Here(r)'
      BY <2>2 DEF Listing
    <3> QED
      BY <1>1, <1>3, <2>1, <2>2, <2>4, <3>1, <3>2 DEF DirectoriesInv
  <2>6. BufferInv(r)'
    BY <1>1, <2>2, LastingFiles DEF BufferInv, Listing
  <2>7. FilesInv(r)'
    <3>1. Range(offered[r]) = {} /\ DOMAIN offered[r] = {}
      BY <1>2, EmptyLemma
    <3>2. \A f \in Lasting' : f # NoFile
      BY <1>1, LastingFiles
    <3> QED
      BY <1>1, <1>2, <2>2, <2>4, <3>1, <3>2 DEF FilesInv, FilesKept
  <2>8. PhaseInv(r)'
    BY <1>1, <1>2, <2>1, <2>2, <2>3, <2>4 DEF PhaseInv, FilesKept
  <2> QED
    BY <2>5, <2>6, <2>7, <2>8 DEF WalkInvOf
<1> QED
  BY <1>4, <1>5, <1>6 DEF preparePath

LEMMA OpenNextWalk ==
  ASSUME TypeInv, TreeInv, NEW r \in Requests, Step(r), openNextFile(r), WalkInvOf(r)
  PROVE  WalkInvOf(r)'
<1>1. /\ Lasting' \subseteq Lasting /\ path(r)' = path(r)
      /\ stage[r] = "loop" /\ explorer[r].filesAvailable
      /\ search[r] = "none"
  BY FewerLasting, OnlyOffered
     DEF path, openNextFile, hasNextFile, TypeInv, ExplorerTyped, PlaceInv
<1>2. CASE explorer[r].rootIsFile
  <2>1. /\ explorer' = [explorer EXCEPT ![r].filesAvailable = FALSE] /\ search' = search
        /\ Proceed(r, explorer[r].nextFile)
    BY <1>2 DEF openNextFile, getNextFileName
  <2>2. /\ Here(r)' = Here(r) /\ Buffer(r)' = Buffer(r) /\ Back(r)' = Back(r)
        /\ Queue(r)' = Queue(r) /\ Walked(r)' = Walked(r) /\ Skipped(r)' = Skipped(r)
    BY <2>1 DEF TypeInv, ExplorerTyped, Explorer, Here, Buffer, Back, Queue, Walked, Skipped
  <2>3. explorer'[r] = [explorer[r] EXCEPT !.filesAvailable = FALSE]
    BY <2>1 DEF TypeInv, ExplorerTyped
  <2>4. explorer'[r].nextFile = explorer[r].nextFile
    BY <2>3 DEF TypeInv, ExplorerTyped, Explorer
  <2>5. explorer'[r].rootIsFile
    BY <1>2, <2>3 DEF TypeInv, ExplorerTyped, Explorer
  <2>6. ~explorer'[r].filesAvailable
    BY <2>3 DEF TypeInv, ExplorerTyped, Explorer
  <2>7. /\ path(r) \notin Subdirectories /\ explorer[r].nextFile = path(r)
        /\ offered[r] = <<>>
    BY <1>1, <1>2 DEF WalkInvOf, PhaseInv
  <2>8. offered'[r] = <<path(r)>> /\ stage'[r] \in {"compress", "open"}
    <3>1. offered'[r] = Append(<<>>, path(r)) /\ stage'[r] \in {"compress", "open"}
      BY <2>1, <2>7 DEF Proceed, To, TypeInv, RequestTyped
    <3> QED
      BY <3>1
  <2>9. Entered(r)' = Entered(r) /\ \A x : Passed(r, x)' <=> Passed(r, x)
    BY <2>2 DEF Entered, Passed
  <2>10. DirectoriesInv(r)'
    BY <1>1, <2>2, <2>9 DEF DirectoriesInv, WalkInvOf
  <2>11. BufferInv(r)' /\ FilesInv(r)'
    BY <1>1, <2>2, <2>5 DEF BufferInv, FilesInv, WalkInvOf
  <2>12. PhaseInv(r)'
    BY <1>1, <2>1, <2>4, <2>5, <2>6, <2>7, <2>8 DEF PhaseInv
  <2> QED
    BY <2>10, <2>11, <2>12 DEF WalkInvOf
<1>3. CASE ~explorer[r].rootIsFile
  <2>1. /\ explorer' = explorer /\ search' = [search EXCEPT ![r] = "get"]
        /\ current' = [current EXCEPT ![r] = explorer[r].nextFile]
        /\ stage' = [stage EXCEPT ![r] = "search"]
        /\ offered' = offered
    BY <1>3 DEF openNextFile, getNextFileName, To, historyVars
  <2>2. /\ Here(r)' = Here(r) /\ Buffer(r)' = Buffer(r) /\ Back(r)' = Back(r)
        /\ Queue(r)' = Queue(r) /\ Walked(r)' = Walked(r) /\ Skipped(r)' = Skipped(r)
    BY <2>1 DEF Here, Buffer, Back, Queue, Walked, Skipped
  <2>3. /\ search'[r] = "get" /\ stage'[r] = "search"
        /\ current'[r] = explorer[r].nextFile
    BY <2>1 DEF TypeInv, RequestTyped, ExplorerTyped
  <2>4. Here(r) # "" /\ Entered(r) # {}
    BY <1>1, <1>3 DEF WalkInvOf, PhaseInv
  <2>5. Entered(r)' = Entered(r) /\ \A x : Passed(r, x)' <=> Passed(r, x)
    BY <2>2 DEF Entered, Passed
  <2>6. DirectoriesInv(r)'
    BY <1>1, <2>2, <2>5 DEF DirectoriesInv, WalkInvOf
  <2>7. BufferInv(r)' /\ FilesInv(r)'
    BY <1>1, <2>1, <2>2, <2>5 DEF BufferInv, FilesInv, WalkInvOf
  <2>8. PhaseInv(r)'
    BY <1>1, <1>3, <2>1, <2>2, <2>3, <2>4, <2>5 DEF PhaseInv
  <2> QED
    BY <2>6, <2>7, <2>8 DEF WalkInvOf
<1> QED
  BY <1>2, <1>3

\* A step of a request with a file, and one of another request, leaves the walk alone.
LEMMA StillStep ==
  ASSUME TypeInv, NEW q \in Requests, Step(q), NEW r \in Requests, WalkInvOf(r),
         r = q => /\ ~preparePath(r) /\ ~openNextFile(r) /\ ~Found(r)
                  /\ ~Searches(r) /\ ~SearchThrows(r)
  PROVE  Still(r)
<1>1. CASE r # q
  BY <1>1, StepsApart DEF Apart, Still
<1>2. CASE r = q
  <2>1. /\ explorer' = explorer /\ search' = search /\ offered' = offered
        /\ current' = current
    BY <1>2 DEF Step, explorerVars, fileVarsOf, historyVars, CompressionError, ScriptStarts,
         ScriptWithoutInput, ScriptEnds, Open, OpenFails, calculateFileSize,
         calculateFileSizeFails, NoChunk, getNextChunk, Finish, Fails, Ends
  <2>2. /\ stage[r] \in Busy \cup {"loop"}
        /\ \/ stage' = stage
           \/ \E label \in Busy \cup {"loop"} : stage' = [stage EXCEPT ![r] = label]
           \/ stage' = [stage EXCEPT ![r] = "done"] /\ ~explorer[r].filesAvailable
    BY <1>2 DEF Step, To, Busy, hasNextFile, historyVars, CompressionError, ScriptStarts,
         ScriptWithoutInput, ScriptEnds, Open, OpenFails, calculateFileSize,
         calculateFileSizeFails, NoChunk, getNextChunk, Finish, Fails, Ends
  <2>3. \/ stage'[r] = stage[r]
        \/ stage'[r] \in Busy \cup {"loop"}
        \/ stage'[r] = "done" /\ ~explorer[r].filesAvailable
    BY <2>2 DEF TypeInv, RequestTyped
  <2> QED
    BY <2>1, <2>2, <2>3 DEF Still, Busy
<1> QED
  BY <1>1, <1>2

LEMMA WalkStep ==
  ASSUME TypeInv, TreeInv, WalkInv, NEW q \in Requests, Step(q)
  PROVE  WalkInv'
<1> SUFFICES ASSUME NEW r \in Requests
             PROVE  WalkInvOf(r)'
  BY DEF WalkInv
<1>1. WalkInvOf(r)
  BY DEF WalkInv
<1>2. CASE r = q /\ (preparePath(r) \/ openNextFile(r) \/ Found(r) \/ Searches(r)
                       \/ SearchThrows(r))
  BY <1>1, <1>2, PreparePathWalk, OpenNextWalk, FoundWalk, SearchesWalk, SearchThrowsWalk
<1>3. CASE r = q => /\ ~preparePath(r) /\ ~openNextFile(r) /\ ~Found(r)
                    /\ ~Searches(r) /\ ~SearchThrows(r)
  BY <1>1, <1>3, StillStep, FewerLasting, OnlyOffered, StillWalk
<1> QED
  BY <1>2, <1>3

-------------------------------------------------------------------------------
(* Every file once                                                         *)

\* A walk that is over has walked what is reached.
LEMMA AllWalked ==
  ASSUME NEW r \in Requests, WalkInvOf(r), path(r) \in Subdirectories,
         Here(r) = "", Entered(r) # {}, NEW dir, Reached(r, dir)
  PROVE  dir \in Walked(r)
<1> DEFINE D == Walked(r)
<1>1. D \in SUBSET {d.base : d \in Subdirectories}
  BY DEF WalkInvOf, DirectoriesInv, Entered
<1>2. Queue(r) = <<>> /\ Back(r) = {}
  BY DEF WalkInvOf, DirectoriesInv
<1>3. Range(Queue(r)) = {}
  BY <1>2, EmptyLemma
<1>4. path(r).base \in D
  <2>1. path(r).base \in Walked(r) \cup {""} /\ path(r).base # ""
    BY TreeAssumption DEF WalkInvOf, DirectoriesInv
  <2> QED
    BY <2>1
<1>5. ASSUME NEW d \in Subdirectories, d.dir \in D, d.base \notin explorer[r].skipped
      PROVE  d.base \in D
  <2>1. d.base \in Entered(r)
    BY <1>5 DEF WalkInvOf, DirectoriesInv, Passed
  <2> QED
    BY <1>3, <1>5, <2>1 DEF Entered, Skipped
<1> HIDE DEF D
<1>6. dir \in D
  BY <1>1, <1>4, <1>5 DEF Reached
<1> QED
  BY <1>6 DEF D

LEMMA EveryFileOnce ==
  ASSUME TypeInv, TreeInv, WalkInv
  PROVE  OfferedOnce
<1> SUFFICES ASSUME NEW r \in Requests, NEW f \in Lasting
             PROVE  /\ Times(r, f) <= 1
                    /\ stage[r] = "done" /\ f \in Below(r) => Times(r, f) = 1
  BY DEF OfferedOnce, Lasting
<1> DEFINE I == {i \in DOMAIN offered[r] : offered[r][i] = f}
<1>1. WalkInvOf(r)
  BY DEF WalkInv
<1>2. \A i, j \in I : i = j
  <2>1. CASE ~explorer[r].rootIsFile
    BY <1>1, <2>1 DEF WalkInvOf, FilesInv
  <2>2. CASE explorer[r].rootIsFile
    <3>1. offered[r] = <<>> \/ offered[r] = <<path(r)>>
      BY <1>1, <2>2 DEF WalkInvOf, PhaseInv
    <3>2. \A i, j \in DOMAIN offered[r] : i = j
      BY <3>1
    <3> QED
      BY <3>2
  <2> QED
    BY <2>1, <2>2
<1>3. I = {} \/ \E i : I = {i}
  BY <1>2
<1>4. Times(r, f) = Cardinality(I)
  BY DEF Times
<1>5. (I = {} => Cardinality(I) = 0) /\ (\A i : I = {i} => Cardinality(I) = 1)
  BY FS_EmptySet, FS_Singleton
<1>6. ASSUME stage[r] = "done", f \in Below(r)
      PROVE  I # {}
  <2>1. search[r] = "none" /\ ~explorer[r].filesAvailable
    BY <1>1, <1>6 DEF WalkInvOf, PhaseInv, TypeInv, ExplorerTyped, PlaceInv
  <2>2. CASE explorer[r].rootIsFile
    <3>1. offered[r] = <<path(r)>> /\ path(r) \notin Subdirectories
      BY <1>1, <2>1, <2>2 DEF WalkInvOf, PhaseInv
    <3>2. f = path(r)
      BY <1>6, <3>1 DEF Below
    <3>3. 1 \in DOMAIN offered[r] /\ offered[r][1] = path(r)
      BY <3>1
    <3> QED
      BY <3>2, <3>3
  <2>3. CASE ~explorer[r].rootIsFile
    <3>1. Here(r) = "" /\ explorer[r].nextFile = NoFile /\ Entered(r) # {}
      BY <1>1, <1>6, <2>1, <2>3 DEF WalkInvOf, PhaseInv
    <3>2. path(r) \in Subdirectories
      BY <1>1, <3>1 DEF WalkInvOf, DirectoriesInv
    <3>3. Reached(r, f.dir)
      BY <1>6, <3>2 DEF Below
    <3>4. f.dir \in Walked(r)
      BY <1>1, <3>1, <3>2, <3>3, AllWalked
    <3>5. f \in Range(offered[r])
      BY <1>1, <2>3, <3>1, <3>4, LastingFiles DEF WalkInvOf, FilesInv, Passed
    <3> QED
      BY <3>5 DEF Range
  <2> QED
    BY <2>2, <2>3
<1> HIDE DEF I
<1> QED
  BY <1>3, <1>4, <1>5, <1>6

\* getNextFileName() gives no file twice, and when the walk is over it gave every file
\* of the directories it could open, for any tree, whatever temporary files come and go.
THEOREM EveryFileIsOffered == Spec => []OfferedOnce
<1>1. TypeInv /\ TreeInv /\ WalkInv /\ [Next]_vars => WalkInv'
  <2> SUFFICES ASSUME TypeInv, TreeInv, WalkInv, [Next]_vars
               PROVE  WalkInv'
    OBVIOUS
  <2>1. ASSUME NEW r \in Requests, Step(r)
        PROVE  WalkInv'
    BY <2>1, WalkStep
  <2>2. CASE UNCHANGED vars
    <3> SUFFICES ASSUME NEW r \in Requests
                 PROVE  WalkInvOf(r)'
      BY DEF WalkInv
    <3>1. /\ explorer' = explorer /\ search' = search /\ offered' = offered
          /\ current' = current /\ stage' = stage /\ asked' = asked /\ files' = files
      BY <2>2 DEF vars, explorerVars, requestVars, fileVarsOf, historyVars
    <3>2. Still(r)
      BY <3>1 DEF Still
    <3>3. Lasting' = Lasting
      BY <3>1 DEF Lasting, Originals, Overwritten, mode
    <3> QED
      BY <3>1, <3>2, <3>3, StillWalk DEF WalkInv
  <2> QED
    BY <2>1, <2>2 DEF Next, Step
<1> QED
  BY InitWalkInv, EveryFileOnce, <1>1, FileTyping, TreeInvariant, PTL DEF Spec
===============================================================================
