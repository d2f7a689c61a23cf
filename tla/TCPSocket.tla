------------------------------- MODULE TCPSocket -------------------------------
(***************************************************************************)
(* Messages over a TCP connection.  send() writes the length of a message  *)
(* as a prefix of fixed size and then its bytes; receive() reads them in   *)
(* the same way.  write() takes and read() gives as many bytes as suits    *)
(* the kernel, so a message goes and arrives in any number of parts.       *)
(*                                                                         *)
(* A message has a len; its bytes are the message and their positions; the *)
(* prefix is two digits in base BASE.  `kernel' is what has been written   *)
(* and not read: SIOCOUTQ, getSendBufferSize(), counts it (the network     *)
(* holds nothing).                                                         *)
(* Failures of the connection are the subject of Transmission and Client.  *)
(***************************************************************************)
EXTENDS Integers, Sequences

CONSTANTS
  BASE,         \* of the digits of the prefix
  SNDBUF        \* bytes the kernel holds

ASSUME SocketAssumption ==
  /\ BASE \in Nat \ {0, 1}
  /\ SNDBUF \in Nat \ {0}

VARIABLES
  sending,      \* send(): "idle", "size" or "data"
  unsent,       \* what its loop has still to write
  message,      \* the message it sends
  kernel,       \* bytes written and not yet read
  receiving,    \* receive(): "size", "data", "whole" or "failed"
  wanted,       \* bytes its loop has still to read
  got,          \* what it has read
  \* history
  transit       \* messages given to send() that receive() has not returned

sendVars    == <<sending, unsent, message>>
receiveVars == <<receiving, wanted, got>>
socketVars  == <<sendVars, kernel, receiveVars, transit>>

Prefix(n) == <<n \div BASE, n % BASE>>
Length(prefix) == prefix[1] * BASE + prefix[2]
Data(m) == [i \in 1 .. m.len |-> [of |-> m, at |-> i]]

SocketTypeOK ==
  /\ sending \in {"idle", "size", "data"}
  /\ Len(unsent) <= IF sending = "data" THEN message.len ELSE 2
  /\ Len(kernel) <= SNDBUF
  /\ receiving \in {"size", "data", "whole", "failed"}
  /\ wanted \in 0 .. BASE * BASE - 1

SocketInit ==
  /\ sending = "idle" /\ unsent = <<>> /\ message = <<>>
  /\ kernel = <<>>
  /\ receiving = "size" /\ wanted = 2 /\ got = <<>>
  /\ transit = <<>>

\* send(), sendMessageSize()
StartSend(m) ==
  /\ sending = "idle"
  /\ sending' = "size"
  /\ message' = m
  /\ unsent' = Prefix(m.len)
  /\ transit' = Append(transit, m)
  /\ UNCHANGED <<kernel, receiveVars>>

\* One write() of _send(); of nothing when the message is empty.
WriteSome ==
  /\ sending # "idle"
  /\ \E n \in 0 .. SNDBUF - Len(kernel) :
       /\ n <= Len(unsent)
       /\ n = 0 <=> unsent = <<>>
       /\ kernel' = kernel \o SubSeq(unsent, 1, n)
       /\ IF n < Len(unsent)
          THEN /\ unsent' = SubSeq(unsent, n + 1, Len(unsent))
               /\ UNCHANGED sending
          ELSE IF sending = "size"
          THEN sending' = "data" /\ unsent' = Data(message)
          ELSE sending' = "idle" /\ unsent' = <<>>
  /\ UNCHANGED <<message, receiveVars, transit>>

\* One read() of _receive(): its 0, for a read of nothing, is taken for an
\* orderly shutdown of the peer.
ReadSome ==
  /\ receiving \in {"size", "data"}
  /\ \/ /\ wanted = 0
        /\ receiving' = "failed"
        /\ UNCHANGED <<kernel, wanted, got>>
     \/ \E n \in 1 .. Len(kernel) :
          /\ n <= wanted
          /\ kernel' = SubSeq(kernel, n + 1, Len(kernel))
          /\ LET read == got \o SubSeq(kernel, 1, n) IN
             IF n < wanted
             THEN wanted' = wanted - n /\ got' = read /\ UNCHANGED receiving
             ELSE IF receiving = "size"
             THEN receiving' = "data" /\ wanted' = Length(read) /\ got' = <<>>
             ELSE receiving' = "whole" /\ wanted' = 0 /\ got' = read
  /\ UNCHANGED <<sendVars, transit>>

\* receive() returns the message, and is called for the next one.
Receive(m) ==
  /\ receiving = "whole"
  /\ got = Data(m)
  /\ receiving' = "size" /\ wanted' = 2 /\ got' = <<>>
  /\ transit' = Tail(transit)
  /\ UNCHANGED <<sendVars, kernel>>
===============================================================================
