------------------------------- MODULE MCClient -------------------------------
(* An instance of Client for TLC.  An error message and a chunk's data are     *)
(* alike for the client: neither is an initial message or a header.            *)
EXTENDS Client

Messages ==
  {[type |-> t, last |-> l] : t \in {"file", "header"}, l \in BOOLEAN}
    \union {[type |-> "chunk"]}
===============================================================================
