----------------------------- MODULE ReceivedFiles -----------------------------
(***************************************************************************)
(* What Client::decompress() leaves in the destination directory: the      *)
(* files it opens by their base names, the chunks it writes, and, for      *)
(* pre-compressed files, what decompressFile() and its scripts make of a   *)
(* received file.  Client delivers the entries in order, whole files as    *)
(* long as the connection lasts; each file of the walk comes once.         *)
(*                                                                         *)
(* A name is its base name and how often a compressor's extension was      *)
(* added to it.  A content is whose it is, whether it is the file itself   *)
(* or a compressed form, and how many of its pieces there are.             *)
(***************************************************************************)
EXTENDS Naturals, Sequences, Functions

CONSTANTS
  Files,        \* files requested: [dir, base, extensions]
  Modes,        \* of the request: "chunks", or PRE_COMPRESS with "copy" or "script"
  PIECES        \* chunks of a file, as many as of its compressed form

VARIABLES
  mode,           \* preCompression, and the compressor if it is set
  at,             \* what is due: "file", "chunk", "decompress", or "ended"
  target,         \* the output stream: "closed", "open" or "failed"
  bytesReceived,  \* pieces received of the current file
  destination,    \* content of each name there is in the destination directory
  reported,       \* files about which an error was logged
  \* history
  received,       \* files whose initial message came, in order
  short,          \* files of which the server sent fewer pieces than announced
  unwritten,      \* files at whose end writing to the stream failed
  undone          \* files that a script decompressed in part

history == <<received, short, unwritten, undone>>
destinationVars == <<mode, at, target, bytesReceived, destination, reported, history>>

preCompression == mode # "chunks"
current == received[Len(received)]

\* The name of a file, and the one it is received under.
Plain(f)  == [base |-> f.base, extensions |-> f.extensions]
Stored(f) == [base |-> f.base,
              extensions |-> f.extensions + (IF mode = "script" THEN 1 ELSE 0)]

Content(f, form, n) == [file |-> f, form |-> form, pieces |-> n]
Form == IF mode = "script" THEN "compressed" ELSE "plain"

\* destination with a content under a name.
With(name, content) ==
  [n \in DOMAIN destination \cup {name} |-> IF n = name THEN content ELSE destination[n]]

\* Every variable stays in its range.
DestinationTypeOK ==
  /\ mode \in Modes
  /\ at \in {"file", "chunk", "decompress", "ended"}
  /\ target \in {"closed", "open", "failed"}
  /\ bytesReceived \in Nat
  /\ \A n \in DOMAIN destination : destination[n].pieces \in Nat
  /\ received \in Seq(Files)

DestinationInit ==
  /\ mode \in Modes
  /\ at = "file" /\ target = "closed" /\ bytesReceived = 0
  /\ destination = [n \in {} |-> 0]
  /\ reported = {} /\ received = <<>>
  /\ short = {} /\ unwritten = {} /\ undone = {}

-------------------------------------------------------------------------------

\* An initial message: the file of that name is created, or emptied.
CreateFile(f) ==
  /\ at = "file" /\ f \notin Range(received)
  /\ received' = Append(received, f)
  /\ bytesReceived' = 0
  /\ at' = "chunk"
  /\ \/ /\ target' = "open"
        /\ destination' = With(Stored(f), Content(f, Form, 0))
        /\ UNCHANGED reported
     \/ /\ target' = "failed"
        /\ reported' = reported \cup {f}
        /\ UNCHANGED destination
  /\ UNCHANGED <<mode, short, unwritten, undone>>

\* A chunk: it is written and counted.  Nobody asks the stream whether it could
\* be written (what a later flush loses is taken as lost here), and a stream that
\* has failed writes nothing more.
StoreChunk ==
  /\ at = "chunk" /\ bytesReceived # PIECES
  /\ bytesReceived' = bytesReceived + 1
  /\ \/ /\ target = "open"
        /\ destination' = With(Stored(current), [destination[Stored(current)]
                                                   EXCEPT !.pieces = @ + 1])
        /\ UNCHANGED <<target, unwritten>>
     \/ /\ target' = "failed"
        /\ unwritten' = unwritten \cup {current}
        /\ UNCHANGED destination
  /\ UNCHANGED <<mode, at, reported, received, short, undone>>

\* That chunk was the last one: the file is closed, and its size is compared with the
\* announced one, unless the file is pre-compressed.
CloseFile ==
  /\ at = "chunk" /\ bytesReceived > 0
  /\ target' = "closed"
  /\ at' = IF preCompression THEN "decompress" ELSE "file"
  /\ short' = IF bytesReceived # PIECES THEN short \cup {current} ELSE short
  /\ reported' = IF ~preCompression /\ bytesReceived # PIECES
                 THEN reported \cup {current} ELSE reported
  /\ UNCHANGED <<mode, bytesReceived, destination, received, unwritten, undone>>

-------------------------------------------------------------------------------
(* decompressFile()                                                        *)

\* COPY: nothing to do.
DecompressCopy ==
  /\ at = "decompress" /\ mode = "copy"
  /\ at' = "file"
  /\ UNCHANGED <<mode, target, bytesReceived, destination, reported, history>>

\* What a script may write of its input: all, or a part.  Of what was not made by
\* the compressor it makes nothing.
Decompressed(input) ==
  {Content(input.file, "plain", n) :
     n \in IF input.form = "compressed" THEN 0 .. input.pieces ELSE {0}}

\* The script runs, removes its input and exits with 0, whatever it wrote.
DecompressScript ==
  /\ at = "decompress" /\ mode = "script"
  /\ Stored(current) \in DOMAIN destination
  /\ LET input == destination[Stored(current)]
     IN  \E content \in Decompressed(input) :
           LET all == With(Plain(current), content)
           IN  /\ destination' = Restrict(all, DOMAIN all \ {Stored(current)})
               /\ undone' = IF content.pieces # input.pieces
                            THEN undone \cup {current} ELSE undone
  /\ at' = "file"
  /\ UNCHANGED <<mode, target, bytesReceived, reported, received, short, unwritten>>

\* Without its input it creates nothing, and still exits with 0.
DecompressNothing ==
  /\ at = "decompress" /\ mode = "script"
  /\ Stored(current) \notin DOMAIN destination
  /\ at' = "file"
  /\ UNCHANGED <<mode, target, bytesReceived, destination, reported, history>>

\* DecompressionError: the script could not be executed.
DecompressFails ==
  /\ at = "decompress" /\ mode = "script"
  /\ reported' = reported \cup {current}
  /\ at' = "file"
  /\ UNCHANGED <<mode, target, bytesReceived, destination, history>>

\* The thread ends, after the last file or when the connection is lost.
End ==
  /\ at \in {"file", "chunk"}
  /\ at' = "ended"
  /\ UNCHANGED <<mode, target, bytesReceived, destination, reported, history>>

DestinationNext ==
  \/ \E f \in Files : CreateFile(f)
  \/ StoreChunk \/ CloseFile
  \/ DecompressCopy \/ DecompressScript \/ DecompressNothing \/ DecompressFails
  \/ End

DestinationSpec == DestinationInit /\ [][DestinationNext]_destinationVars

-------------------------------------------------------------------------------
(* Properties                                                              *)

Intact(f) ==
  /\ Plain(f) \in DOMAIN destination
  /\ destination[Plain(f)] = Content(f, "plain", PIECES)

\* A later file was received under its name, or decompressed to it: a file of the
\* same name in another directory, or one whose compressed form has its name.
Overwritten(i) ==
  \E j \in i + 1 .. Len(received) :
    Plain(received[i]) \in {Stored(received[j]), Plain(received[j])}

\* The i-th file is in the destination directory, or it is known why it is not.
Accounted(i) ==
  LET f == received[i]
  IN  \/ Intact(f)
      \/ Overwritten(i)
      \/ f \in reported
      \/ f \in unwritten \/ f \in undone
      \/ preCompression /\ f \in short

\* Files all of whose entries were dealt with.
Finished == 1 .. (IF target = "closed" THEN Len(received) ELSE Len(received) - 1)

\* A file that was received to its end is in the destination directory, whole and
\* under its name, or an error was logged, except for four ways to lose it in
\* silence: a later file of the same name, a stream that fails while it is
\* written, a pre-compressed file that came short, and a script, which exits with
\* 0 when it could not decompress all.
LostOrReported ==
  at \in {"file", "ended"} => \A i \in Finished : Accounted(i)
===============================================================================
