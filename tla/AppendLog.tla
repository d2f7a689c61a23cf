------------------------------- MODULE AppendLog -------------------------------
(***************************************************************************)
(* What the performance log promises to the requests that write to it,     *)
(* with no lock, queue or thread in sight: what is given to it ends in the *)
(* file, in the order in which it was given, once; and a log that has been *)
(* destroyed has stored everything.  AsynchronousLog implements it.        *)
(***************************************************************************)
EXTENDS Naturals, Sequences

CONSTANT Piece

VARIABLES given,    \* what the log was asked to store, in order
          stored,   \* how much of it is in the file
          closed

logVars == <<given, stored, closed>>

Init ==
  /\ given = <<>>
  /\ stored = <<>>
  /\ closed = FALSE

Give(p) ==
  /\ ~closed
  /\ given' = Append(given, p)
  /\ UNCHANGED <<stored, closed>>

Store ==
  /\ Len(stored) < Len(given)
  /\ stored' = Append(stored, given[Len(stored) + 1])
  /\ UNCHANGED <<given, closed>>

Close ==
  /\ ~closed
  /\ stored = given
  /\ closed' = TRUE
  /\ UNCHANGED <<given, stored>>

Next == (\E p \in Piece : Give(p)) \/ Store \/ Close

Spec == Init /\ [][Next]_logVars
===============================================================================
