---------------------------- MODULE MCFileProcessing ----------------------------
\* A directory with a file and a directory in it, and maybe, beside the file, one
\* that is named like its compressed file.
EXTENDS FileProcessing

Root == Entry("", "root")
Sub  == Entry("root", "sub")
A    == Entry("root", "a")
C    == Entry("sub", "c")

MCSubdirectories == {Root, Sub}

SizedTree(fs, a, b) == [f \in fs |-> IF f = A THEN a ELSE b]

MCTrees ==
  {SizedTree({A, C}, a, 1) : a \in {0, 3}} \cup {SizedTree({A, CompressedName(A)}, 2, 1)}

\* A compressor that halves, and one that adds a header.
MCTools == {[n \in 0 .. 4 |-> (n + 2) \div 2], [n \in 0 .. 4 |-> IF n < 4 THEN n + 1 ELSE 4]}

\* A directory compressed by scripts while another request asks for it, or for a
\* file of it, in any mode.
Ask(p, m) == [path |-> p, mode |-> m]

MCAsked ==
  {[r \in Requests |-> IF r = 1 THEN Ask(Root, "script") ELSE other] :
     other \in {Ask(Root, "plain"), Ask(Root, "script"),
                 Ask(A, "script"), Ask(CompressedName(A), "copy")}}
===============================================================================
