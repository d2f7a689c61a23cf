-------------------------------- MODULE FileTree --------------------------------
(***************************************************************************)
(* The server's files, which the requests served at one time share: names  *)
(* in directories, and the inodes that names and open streams refer to.    *)
(* An inode whose name is removed lives on for whoever has it open, and a  *)
(* script that creates a file empties the inode of that name.              *)
(*                                                                         *)
(* A name is its directory, its base name and how often the extension of   *)
(* the compressor was added; a directory's base name stands for its path.  *)
(* Of its content a file has the size.                                     *)
(***************************************************************************)
EXTENDS Naturals, FiniteSets, Functions

CONSTANTS
  Words,            \* bound: what names are made of, the empty one among them
  Subdirectories,   \* entries that are directories
  Inodes            \* bound: inodes in use at a time, 1 .. n

Name == [dir : Words, base : Words, extensions : Nat]

\* Directories have names of their own, none of a compressed file, and none is below
\* itself.
ASSUME TreeAssumption ==
  /\ "" \in Words
  /\ Inodes \subseteq Nat \ {0}
  /\ \A d \in Subdirectories : d \in Name /\ d.base # "" /\ d.extensions = 0
  /\ \A d, e \in Subdirectories : d.base = e.base => d = e
  /\ \A D \in SUBSET Subdirectories : D # {} => \E d \in D : \A e \in D : d.dir # e.base

VARIABLES
  tree,             \* the inode of each name there is
  disk              \* the size of each inode, 0 for one that is free

fileVars == <<tree, disk>>

Entry(dir, base) == [dir |-> dir, base |-> base, extensions |-> 0]

\* The compressed file of a file.
CompressedName(f) == [f EXCEPT !.extensions = @ + 1]

Exists(f) == f \in DOMAIN tree
Size(f)   == disk[tree[f]]

\* What a directory lists, except for itself and its parent.
Listing(dir) == {f \in DOMAIN tree \cup Subdirectories : f.dir = dir}

\* Create f empty, or empty it: its inode is another than those held open.
Create(f, held) ==
  LET free == Inodes \ (Range(tree) \cup held)
      i    == IF Exists(f) THEN tree[f] ELSE CHOOSE i \in free : TRUE
  IN  /\ Exists(f) \/ free # {}
      /\ tree' = [g \in DOMAIN tree \cup {f} |-> IF g = f THEN i ELSE tree[g]]
      /\ disk' = [disk EXCEPT ![i] = 0]

\* Inodes that neither a name nor one of those held open refers to are freed.
Free(held) ==
  disk' = [i \in Inodes |-> IF i \in held \cup Range(tree') THEN disk[i] ELSE 0]

Remove(f, held) == tree' = Restrict(tree, DOMAIN tree \ {f}) /\ Free(held)
Close(held)     == UNCHANGED tree /\ Free(held)
===============================================================================
