------------------------------- MODULE Transfer -------------------------------
(***************************************************************************)
(* A request from end to end: the server's two threads (Transmission) and  *)
(* the client's two threads (Client) on one connection.  The client's      *)
(* stream is what the server's socket accepted, in TCP's order; the        *)
(* connection may break and lose what it carries, and each side may close  *)
(* its end.                                                                *)
(*                                                                         *)
(* Nothing handles SIGPIPE in the server: a send on a connection that the  *)
(* client has closed may still be accepted by the kernel, or it kills the  *)
(* server's process.                                                       *)
(***************************************************************************)
EXTENDS Transmission

VARIABLES
  process,      \* the server's process: "up" or "killed"
  serverSocket, \* the server's end of the connection: "open" or "closed"
  \* the variables of Client, renamed where Transmission has the name too:
  got, pos, cafter, outcome, fileMessage, cheader, socket,
  entries, doneReceiving, cmutex, dpc, entry, ddone, out, handled

clientVars ==
  <<got, pos, cafter, outcome, fileMessage, cheader, socket, entries,
    doneReceiving, cmutex, dpc, entry, ddone, out, handled>>
connectionVars == <<process, serverSocket>>
transferVars   == <<vars, connectionVars, clientVars>>

Peer == IF link = "down" THEN "lost"
        ELSE IF serverSocket = "closed" THEN "closed" ELSE "open"

C == INSTANCE Client WITH
  MaxMessages <- 0,
  stream <- sent, peer <- Peer, after <- cafter, header <- cheader,
  queue <- entries, mutex <- cmutex

TransferInit ==
  /\ Init
  /\ process = "up" /\ serverSocket = "open"
  /\ C!InitClient

-------------------------------------------------------------------------------

\* The server works on its own, except that the request has to arrive: while
\* the client waits for an answer, or not at all.
ServerStep ==
  /\ process = "up"
  /\ ProcessRequest \/ Transmit \/ SpuriousWake
  /\ rpc = "receive" =>
       IF pos = "file" THEN rpc' # "rejected" \/ queue' # queue \/ link = "down"
       ELSE rpc' = "rejected" /\ queue' = queue /\ pos \notin {"new", "ready"}
  /\ UNCHANGED <<connectionVars, clientVars>>

ClientStep ==
  /\ UNCHANGED <<vars, connectionVars>>
  /\ C!ClientNext

Break ==
  /\ LinkDown
  /\ UNCHANGED <<connectionVars, clientVars>>

\* The last reference to the socket is gone: at the earliest when both tasks
\* have ended, but a worker may keep its last task, and with it the socket,
\* until it gets another one (ServerRequests).
ServerCloses ==
  /\ rpc \in Ended
  /\ tpc \in {"none", "ended"}
  /\ serverSocket' = "closed"
  /\ UNCHANGED <<vars, process, clientVars>>

\* The client's end is closed: SIGPIPE.
SendKills ==
  /\ process = "up"
  /\ At("send")
  /\ link = "up" /\ socket = "closed"
  /\ process' = "killed"
  /\ serverSocket' = "closed"
  /\ UNCHANGED <<vars, clientVars>>

TransferNext ==
  ServerStep \/ ClientStep \/ Break \/ ServerCloses \/ SendKills

TransferSpec == TransferInit /\ [][TransferNext]_transferVars

\* The threads of both sides run, as in Transmission and Client.  Nothing
\* makes the server close its socket.
FairTransferSpec ==
  /\ TransferSpec
  /\ WF_transferVars(ServerStep /\ ProcessRequest)
  /\ SF_transferVars(ServerStep /\ SetRequestDone)
  /\ WF_transferVars(ServerStep /\ Transmit)
  /\ WF_transferVars(ClientStep /\ C!Caller)
  /\ SF_transferVars(ClientStep /\ C!SetDoneReceiving)
  /\ WF_transferVars(ClientStep /\ C!Decompress)

-------------------------------------------------------------------------------
(* Properties                                                              *)

Awaiting   == pos \in {"file", "header", "chunk"}
AllRead    == got = Len(sent)
ServerDone == rpc \in Ended /\ tpc \in {"none", "ended"}

\* The client is in step with the server whatever errors are in between: a
\* chunk's data is never parsed as a message.
InStep ==
  pos \in {"file", "header"} /\ ~AllRead => sent[got + 1].type # "chunk"

\* When requestFile of a mode that transfers files returns, the client has
\* received all there was: the server has no other file, nothing is left to be
\* sent, and no file of the directory was skipped.
CompleteTransfer ==
  outcome = "returned" /\ mode # "train" =>
    /\ AllRead /\ queue = <<>> /\ buffer = None /\ files = 0
    /\ \A f \in 1 .. file :
         \E i \in 1 .. Len(sent) : sent[i].type = "file" /\ sent[i].file = f

\* A server that is done leaves the client waiting, on a connection that
\* works, only if it rejected the request, found no file, or cut a file short
\* (an empty one, or one it could not read to the end).  Training, whose
\* results are thrown away, never leaves it waiting: one of the two error
\* messages may be taken for a chunk, the other one ends the request.
LeftWaiting ==
  ServerDone /\ link = "up" /\ AllRead /\ Awaiting =>
    \/ rpc = "rejected"
    \/ mode # "train" /\ (sent = <<>> \/ pos = "header")

\* Closing the connection at the end of a normal transfer does not kill the
\* server: that takes a client that gave up after an error, or a training.
KilledOnlyAfterErrors ==
  process = "killed" => outcome = "threw" \/ mode = "train"

\* What file_initial_message.proto says: the initial message gives the receiver
\* what it needs to know how many chunks it is going to receive; so a client
\* that has been told of an empty file does not wait for a chunk.
EmptyFileEnds ==
  pos = "header" /\ fileMessage.empty ~> pos # "header"

\* What is written to a file is the data of a chunk.  In training the first of
\* the two error messages may come where a chunk is due and is decompressed as
\* one: the DecompressionError of which client.cpp says "This should never
\* happen".
WritesOnlyChunks ==
  dpc = "write" /\ entry.data # None =>
    entry.data.type = "chunk" \/ mode = "train"
===============================================================================
