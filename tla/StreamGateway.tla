---------------------------- MODULE StreamGateway ----------------------------
(***************************************************************************)
(* streamHandler of httpgateway/gateway.go: one websocket connection that  *)
(* is forwarded to a gRPC stream.  A goroutine reads the websocket and     *)
(* sends to the stream, the handler receives from the stream and writes to *)
(* the websocket, and a channel carries the reader's last error.           *)
(*                                                                         *)
(* A message is a number; each side counts its own from 1.  What the       *)
(* handler writes waits in the socket, which has room for SocketRoom       *)
(* messages, until the client takes it; no write has a deadline.           *)
(***************************************************************************)
EXTENDS Naturals, Sequences

CONSTANTS
  MaxRequests,  \* bound: messages the client sends
  MaxResponses, \* bound: messages the server sends
  SocketRoom    \* messages the socket holds before a write blocks

ASSUME GatewayAssumption ==
  MaxRequests \in Nat /\ MaxResponses \in Nat /\ SocketRoom \in Nat \ {0}

VARIABLES
  ws,         \* the websocket: "none", "open", "gone" (client) or "closed"
  clientSent, \* client: messages it has sent
  inbox,      \* messages of the client not read yet
  wire,       \* messages written to the websocket while the client was there
  closing,    \* the code of the close message written after them
  clientGot,  \* client: how many messages of wire it has received
  closeCode,  \* client: the code of the close message it has received
  cs,         \* the stream: "none", "open", "broken" or "cancelled"
  srvGot,     \* server: messages it has received
  srvSent,    \* server: messages it has sent
  outbox,     \* messages of the server not received yet
  status,     \* server: the status it has ended the stream with
  main,       \* control state of the handler
  resp,       \* respBytes
  err,        \* the variable err of the handler
  reader,     \* control state of the reader
  data,       \* the message the reader has read
  readErrCh   \* errors in the channel

clientVars  == <<ws, clientSent, inbox, wire, closing, clientGot, closeCode>>
serverVars  == <<cs, srvGot, srvSent, outbox, status>>
handlerVars == <<main, resp, err>>
readerVars  == <<reader, data, readErrCh>>
gatewayVars == <<clientVars, serverVars, handlerVars, readerVars>>

Upto(n)  == [i \in 1 .. n |-> i]
Statuses == {"none", "OK", "failed"}
Codes    == {0, 1000, 1011, 4000}  \* none, normal, internal, 4000 + status code

GatewayTypeOK ==
  /\ ws \in {"none", "open", "gone", "closed"}
  /\ clientSent \in 0 .. MaxRequests /\ srvSent \in 0 .. MaxResponses
  /\ inbox \in Seq(1 .. MaxRequests) /\ srvGot \in Seq(1 .. MaxRequests)
  /\ outbox \in Seq(1 .. MaxResponses) /\ wire \in Seq(1 .. MaxResponses)
  /\ clientGot \in 0 .. Len(wire)
  /\ closing \in Codes /\ closeCode \in Codes
  /\ cs \in {"none", "open", "broken", "cancelled"}
  /\ status \in Statuses
  /\ main \in {"idle", "dial", "select", "recv", "write", "close", "defer", "returned"}
  /\ resp \in 0 .. MaxResponses /\ data \in 0 .. MaxRequests
  /\ err \in {"nil", "EOF", "status", "other"}
  /\ reader \in {"none", "read", "send", "report", "done"}
  /\ readErrCh \in 0 .. 1

GatewayInit ==
  /\ ws = "none" /\ cs = "none" /\ status = "none"
  /\ clientSent = 0 /\ srvSent = 0 /\ clientGot = 0
  /\ inbox = <<>> /\ outbox = <<>> /\ wire = <<>> /\ srvGot = <<>>
  /\ closing = 0 /\ closeCode = 0
  /\ main = "idle" /\ reader = "none"
  /\ resp = 0 /\ data = 0
  /\ err = "nil"
  /\ readErrCh = 0

-----------------------------------------------------------------------------
(***************************************************************************)
(* External: the client, the handler of the gRPC server and the            *)
(* connection to it.                                                       *)
(***************************************************************************)
ClientSend ==
  /\ ws = "open"
  /\ clientSent < MaxRequests
  /\ clientSent' = clientSent + 1
  /\ inbox' = Append(inbox, clientSent')
  /\ UNCHANGED <<ws, wire, closing, clientGot, closeCode, serverVars, handlerVars, readerVars>>

\* The client takes what was written in order, the close message last; what is in
\* the socket when the handler closes it may still arrive.
ClientRecv ==
  /\ ws \in {"open", "closed"}
  /\ \/ /\ clientGot < Len(wire)
        /\ clientGot' = clientGot + 1
        /\ UNCHANGED closeCode
     \/ /\ clientGot = Len(wire) /\ closeCode # closing
        /\ closeCode' = closing
        /\ UNCHANGED clientGot
  /\ UNCHANGED <<ws, clientSent, inbox, wire, closing, serverVars, handlerVars, readerVars>>

ClientLeaves ==
  /\ ws = "open"
  /\ ws' = "gone"
  /\ UNCHANGED <<clientSent, inbox, wire, closing, clientGot, closeCode, serverVars, handlerVars,
                 readerVars>>

ServerSend ==
  /\ cs = "open" /\ status = "none"
  /\ srvSent < MaxResponses
  /\ srvSent' = srvSent + 1
  /\ outbox' = Append(outbox, srvSent')
  /\ UNCHANGED <<clientVars, cs, srvGot, status, handlerVars, readerVars>>

ServerEnds ==
  /\ cs # "none" /\ status = "none"
  /\ status' \in {"OK", "failed"}
  /\ UNCHANGED <<clientVars, cs, srvGot, srvSent, outbox, handlerVars, readerVars>>

\* The connection to the gRPC server is lost.
StreamBreaks ==
  /\ cs = "open"
  /\ cs' = "broken"
  /\ UNCHANGED <<clientVars, srvGot, srvSent, outbox, status, handlerVars, readerVars>>

-----------------------------------------------------------------------------
(***************************************************************************)
(* The handler.                                                            *)
(***************************************************************************)
Upgrade ==
  /\ main = "idle"
  /\ \/ ws' = "open" /\ main' = "dial"
     \/ ws' = "none" /\ main' = "returned"
  /\ UNCHANGED <<clientSent, inbox, wire, closing, clientGot, closeCode, serverVars, resp, err,
                 readerVars>>

NewStream ==
  /\ main = "dial"
  /\ cs' = "open"
  /\ main' = "select"
  /\ reader' = "read"
  /\ UNCHANGED <<clientVars, srvGot, srvSent, outbox, status, resp, err, data, readErrCh>>

\* A write returns once the socket has room or the client has gone.
Writable == ws # "open" \/ Len(wire) < clientGot + SocketRoom

\* A close message reaches the socket as long as the client is there.
WriteCode(code) ==
  /\ Writable
  /\ closing' = IF ws = "open" THEN code ELSE closing

NewStreamFails ==
  /\ main = "dial"
  /\ WriteCode(1011)
  /\ main' = "defer"
  /\ UNCHANGED <<ws, clientSent, inbox, wire, clientGot, closeCode, serverVars, resp, err,
                 readerVars>>

\* Variant: the break leaves the loop.
SelectBreaks ==
  /\ main = "select"
  /\ readErrCh' = 0
  /\ main' = IF readErrCh = 1 \/ reader = "done" THEN "close" ELSE "recv"
  /\ UNCHANGED <<clientVars, serverVars, resp, err, reader, data>>

\* The select takes an error from the channel; its break leaves the select only.
Select ==
  /\ main = "select"
  /\ readErrCh' = 0
  /\ main' = "recv"
  /\ UNCHANGED <<clientVars, serverVars, resp, err, reader, data>>

\* RecvMsg returns the messages in order and then the status of the stream.  It
\* fails with a status of its own, and ends the stream, for a message above the
\* size limit and when the connection is lost.
RecvMsg ==
  /\ main = "recv"
  /\ \/ /\ outbox # <<>>
        /\ resp' = Head(outbox)
        /\ outbox' = Tail(outbox)
        /\ main' = "write"
        /\ UNCHANGED <<cs, err>>
     \/ /\ outbox = <<>> /\ status # "none" /\ cs = "open"
        /\ err' = IF status = "OK" THEN "EOF" ELSE "status"
        /\ main' = "close"
        /\ UNCHANGED <<cs, resp, outbox>>
     \/ /\ outbox # <<>> \/ cs = "broken"
        /\ cs' = "broken"
        /\ err' = "status"
        /\ main' = "close"
        /\ UNCHANGED <<resp, outbox>>
  /\ UNCHANGED <<clientVars, srvGot, srvSent, status, readerVars>>

\* A write blocks until there is room: a client that stays and does not read holds
\* the handler.  A write to a client that has gone fails, or is buffered and lost.
WriteMessage ==
  /\ main = "write"
  /\ Writable
  /\ \/ /\ wire' = IF ws = "open" THEN Append(wire, resp) ELSE wire
        /\ main' = "select"
        /\ err' = "nil"
     \/ /\ ws = "gone"
        /\ err' = "other"
        /\ main' = "close"
        /\ UNCHANGED wire
  /\ UNCHANGED <<ws, clientSent, inbox, closing, clientGot, closeCode, serverVars, resp, readerVars>>

\* grpcStatusToCloseMessage.
CloseCode(e) ==
  CASE e \in {"nil", "EOF"} -> 1000
    [] e = "other"          -> 1011
    [] e = "status"         -> 4000

\* A status whose message does not fit into a control frame is not written at all.
WriteClose ==
  /\ main = "close"
  /\ WriteCode(CloseCode(err)) \/ (err = "status" /\ UNCHANGED closing)
  /\ main' = "defer"
  /\ UNCHANGED <<ws, clientSent, inbox, wire, clientGot, closeCode, serverVars, resp, err,
                 readerVars>>

\* The deferred calls: cancelFunc, then ws.Close.
Deferred ==
  /\ main = "defer"
  /\ cs' = IF cs = "open" THEN "cancelled" ELSE cs
  /\ ws' = "closed"
  /\ main' = "returned"
  /\ UNCHANGED <<clientSent, inbox, wire, closing, clientGot, closeCode, srvGot, srvSent, outbox,
                 status, resp, err, readerVars>>

-----------------------------------------------------------------------------
(***************************************************************************)
(* The reader.                                                             *)
(***************************************************************************)
ReadMessage ==
  /\ reader = "read"
  /\ \/ /\ inbox # <<>> /\ ws # "closed"
        /\ data' = Head(inbox)
        /\ inbox' = Tail(inbox)
        /\ reader' = "send"
     \/ /\ ws # "open"
        /\ reader' = "report"
        /\ UNCHANGED <<data, inbox>>
  /\ UNCHANGED <<ws, clientSent, wire, closing, clientGot, closeCode, serverVars, handlerVars,
                 readErrCh>>

\* The stream takes messages that the server gets.
Flowing == cs = "open" /\ status = "none"

\* SendMsg fails once the stream is cancelled or is known to be over; before the
\* end is known, it takes a message that nobody will get.
SendMsg ==
  /\ reader = "send"
  /\ \/ Flowing /\ srvGot' = Append(srvGot, data) /\ reader' = "read"
     \/ ~Flowing /\ cs # "cancelled" /\ UNCHANGED srvGot /\ reader' = "read"
     \/ ~Flowing /\ UNCHANGED srvGot /\ reader' = "report"
  /\ data' = 0
  /\ UNCHANGED <<clientVars, cs, srvSent, outbox, status, handlerVars, readErrCh>>

\* Variant: a channel without a buffer, and the handler does not wait on it.
RoomUnbuffered == FALSE

\* The channel has room for one error.
Room == readErrCh < 1

\* The error is sent and the channel is closed.
Report ==
  /\ reader = "report"
  /\ Room
  /\ readErrCh' = readErrCh + 1
  /\ reader' = "done"
  /\ UNCHANGED <<clientVars, serverVars, handlerVars, data>>

HandlerStep == Upgrade \/ NewStreamFails \/ Select \/ RecvMsg \/ WriteMessage
               \/ WriteClose \/ Deferred
ReaderStep  == ReadMessage \/ SendMsg \/ Report
Outside     == ClientSend \/ ClientRecv \/ ClientLeaves \/ ServerSend \/ StreamBreaks

GatewayNext == HandlerStep \/ ReaderStep \/ Outside \/ NewStream \/ ServerEnds

GatewaySpec == GatewayInit /\ [][GatewayNext]_gatewayVars

(***************************************************************************)
(* Fairness.  Go runs the two goroutines; nobody promises that the client  *)
(* or the server does anything, a client that reads included.              *)
(***************************************************************************)
FairGateway ==
  /\ GatewaySpec
  /\ WF_gatewayVars(HandlerStep \/ NewStream)
  /\ WF_gatewayVars(ReaderStep)

-----------------------------------------------------------------------------
\* Both directions keep the order and lose nothing in the middle: what either side
\* receives is a prefix of what was sent.  A client that gets the normal close code
\* has got every message of a stream that the server ended with OK; one that gets
\* the code of a status has got every message and the server's own status, unless
\* the stream broke between the gateway and the server.  No other code closes an
\* established stream.
StreamFaithful ==
  /\ wire = Upto(Len(wire)) /\ srvGot = Upto(Len(srvGot))
  /\ closeCode # 0 /\ cs # "none" =>
       \/ closeCode = 1000 /\ status = "OK" /\ clientGot = srvSent
       \/ closeCode = 4000 /\ (cs = "broken" \/ (status = "failed" /\ clientGot = srvSent))

\* The handler waits in a write, and the client takes nothing.
Blocked == main \in {"write", "close"} /\ ~Writable

\* Both goroutines of a websocket end: the handler when the stream is over or broken,
\* unless a client that neither reads nor leaves holds it in a write for ever (no
\* write has a deadline), and the reader after the handler has returned, since
\* closing the websocket and the stream gets it out of any call, and the send of its
\* last error never blocks.
GatewayEnds ==
  /\ main = "returned" /\ reader # "none" ~> reader = "done"
  /\ cs # "none" /\ (status # "none" \/ cs = "broken") ~> main = "returned" \/ []Blocked
=============================================================================
