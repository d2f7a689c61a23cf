----------------------------- MODULE MessageStream -----------------------------
(***************************************************************************)
(* What the server promises about the messages of one request, whatever    *)
(* the threads that prepare and send them do: they leave in the order in   *)
(* which they were prepared, none twice, and a request that ends normally  *)
(* has sent every message that was not discarded.  Transmission implements *)
(* it.                                                                     *)
(***************************************************************************)
EXTENDS Sequences

CONSTANTS Message, None

VARIABLES backlog,      \* prepared, not yet taken for sending, in order
          sending,      \* the message being sent, or None
          delivered,    \* what has left for the client, in order
          state         \* "open", "broken" (a send failed), "closed" (ended,
                        \* all sent) or "abandoned" (ended without sending)

vars == <<backlog, sending, delivered, state>>

Init ==
  /\ backlog = <<>>
  /\ sending = None
  /\ delivered = <<>>
  /\ state = "open"

Offer(m) ==
  /\ state \in {"open", "broken"}
  /\ backlog' = Append(backlog, m)
  /\ UNCHANGED <<sending, delivered, state>>

\* A training request throws its results away.
Discard ==
  /\ state \in {"open", "broken"}
  /\ backlog' = <<>>
  /\ UNCHANGED <<sending, delivered, state>>

Take ==
  /\ state = "open"
  /\ sending = None
  /\ backlog # <<>>
  /\ sending' = Head(backlog)
  /\ backlog' = Tail(backlog)
  /\ UNCHANGED <<delivered, state>>

Deliver ==
  /\ state = "open"
  /\ sending # None
  /\ delivered' = Append(delivered, sending)
  /\ sending' = None
  /\ UNCHANGED <<backlog, state>>

Break ==
  /\ state = "open"
  /\ sending # None
  /\ sending' = None
  /\ state' = "broken"
  /\ UNCHANGED <<backlog, delivered>>

Close ==
  /\ state = "open"
  /\ backlog = <<>>
  /\ sending = None
  /\ state' = "closed"
  /\ UNCHANGED <<backlog, sending, delivered>>

\* A request that is rejected, or fails, before or while it sends.
Abandon ==
  /\ state = "open"
  /\ state' = "abandoned"
  /\ UNCHANGED <<sending, delivered>>
  /\ backlog' = backlog \/ \E m \in Message : backlog' = Append(backlog, m)

Next ==
  \/ \E m \in Message : Offer(m)
  \/ Discard \/ Take \/ Deliver \/ Break \/ Close \/ Abandon

Spec == Init /\ [][Next]_vars
===============================================================================
