---------------------------- MODULE DirectoryExplorer ----------------------------
(***************************************************************************)
(* DirectoryExplorer: the walk of each request over the path it asked for. *)
(* The next file is looked for ahead of time, one entry of a directory at  *)
(* a step, while other requests create and remove files around it.         *)
(*                                                                         *)
(* A stream of a directory may or may not return what was created since it *)
(* was opened, and may return what is no longer there.  Links, and why a   *)
(* path cannot be opened, are left out.                                    *)
(***************************************************************************)
EXTENDS FileTree, Sequences

CONSTANTS Requests   \* requests served at one time

NoFile == [dir |-> "", base |-> "", extensions |-> 0]

VARIABLES
  explorer,   \* its fields, by request, and the history of its directories: walked to
              \* the end, and skipped as they could not be opened
  search      \* what findNextFile() was called for: "construct", "get", or "none"

explorerVars == <<explorer, search>>

\* opendir(), with what the stream buffers of the directory and what it returned.
Opened(dir) == [path |-> dir, buffer |-> Listing(dir), returned |-> {}]
Unopened    == [path |-> "", buffer |-> {}, returned |-> {}]

InitExplorer ==
  /\ explorer = [r \in Requests |->
                   [rootIsFile |-> FALSE, filesAvailable |-> TRUE, nextFile |-> NoFile,
                    directory |-> Unopened, directoriesQueue |-> <<>>,
                    walked |-> {}, skipped |-> {}]]
  /\ search = [r \in Requests |-> "none"]

\* The constructor, of a path that is a file or a directory there is.
ConstructFile(r, path) ==
  /\ Exists(path)
  /\ explorer' = [explorer EXCEPT ![r].nextFile = path, ![r].rootIsFile = TRUE]
  /\ UNCHANGED search

ConstructDirectory(r, path) ==
  /\ path \in Subdirectories
  /\ explorer' = [explorer EXCEPT ![r].directory = Opened(path.base)]
  /\ search' = [search EXCEPT ![r] = "construct"]

\* The constructor, of a path that does not exist, or a directory that cannot be
\* opened.
ConstructFails(r, path) ==
  /\ ~Exists(path)
  /\ UNCHANGED explorerVars

hasNextFile(r) == explorer[r].filesAvailable

\* getNextFileName() takes the file found before, and looks for the one after it.
getNextFileName(r) ==
  LET e == explorer[r]
  IN  IF e.rootIsFile
      THEN /\ explorer' = [explorer EXCEPT ![r].filesAvailable = FALSE]
           /\ UNCHANGED search
      ELSE /\ search' = [search EXCEPT ![r] = "get"]
           /\ UNCHANGED explorer

\* readdir() returns an entry.
Returned(r, entry) ==
  /\ LET d == explorer[r].directory
     IN  entry \in (d.buffer \cup Listing(d.path)) \ d.returned

findNextFile_Directory(r) ==
  \E entry \in Subdirectories :
    /\ search[r] # "none" /\ Returned(r, entry)
    /\ explorer' = [explorer EXCEPT
         ![r].directory.returned = @ \cup {entry},
         ![r].directoriesQueue = Append(@, entry.base)]
    /\ UNCHANGED search

\* found is what the caller goes on with.
findNextFile_File(r, entry) ==
  /\ search[r] # "none" /\ Returned(r, entry) /\ Exists(entry)
  /\ explorer' = [explorer EXCEPT
       ![r].directory.returned = @ \cup {entry}, ![r].nextFile = entry]
  /\ search' = [search EXCEPT ![r] = "none"]

findNextFile_Throws_MovedAway(r, entry) ==
  /\ search[r] # "none" /\ Returned(r, entry)
  /\ entry \notin Subdirectories /\ ~Exists(entry)
  /\ explorer' = [explorer EXCEPT
       ![r].directory.returned = @ \cup {entry}, ![r].nextFile = NoFile]
  /\ search' = [search EXCEPT ![r] = "none"]

\* stat() of an entry that was removed fails: nextFile stays what it was.
findNextFile_Throws(r, entry) ==
  /\ search[r] # "none" /\ Returned(r, entry)
  /\ entry \notin Subdirectories /\ ~Exists(entry)
  /\ explorer' = [explorer EXCEPT ![r].directory.returned = @ \cup {entry}]
  /\ search' = [search EXCEPT ![r] = "none"]

EndOfDirectory(r) ==
  LET d == explorer[r].directory
  IN  search[r] # "none" /\ d.buffer \cap Listing(d.path) \subseteq d.returned

\* On to the first directory of the queue that can be opened.
findNextFile_NextDirectory(r) ==
  LET q == explorer[r].directoriesQueue
  IN  /\ EndOfDirectory(r)
      /\ \E k \in 1 .. Len(q) :
           explorer' = [explorer EXCEPT
             ![r].directory = Opened(q[k]),
             ![r].directoriesQueue = SubSeq(q, k + 1, Len(q)),
             ![r].walked = @ \cup {explorer[r].directory.path},
             ![r].skipped = @ \cup {q[j] : j \in 1 .. k - 1}]
      /\ UNCHANGED search

\* There is none.
findNextFile_End(r) ==
  LET q == explorer[r].directoriesQueue
  IN  /\ EndOfDirectory(r)
      /\ explorer' = [explorer EXCEPT
           ![r].directory = Unopened, ![r].directoriesQueue = <<>>,
           ![r].nextFile = NoFile, ![r].filesAvailable = FALSE,
           ![r].walked = @ \cup {explorer[r].directory.path},
           ![r].skipped = @ \cup {q[j] : j \in 1 .. Len(q)}]
      /\ search' = [search EXCEPT ![r] = "none"]
===============================================================================
