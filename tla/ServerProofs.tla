---------------------------- MODULE ServerProofs ----------------------------
(***************************************************************************)
(* The life of the application around the RPCs of both servers, for any    *)
(* number of RPCs in flight, with or without TLS, and with a stream of the *)
(* gateway among them.                                                     *)
(***************************************************************************)
EXTENDS Server, TLAPS

\* Run has initialised the application.
Started == run \in {"serve", "wait", "stopping", "nil", "err"}

\* RPCs run only on a server that has started, a server starts only after the
\* application, and the application is stopped only after both servers.
LifeInv ==
  /\ Started => app # "none"
  /\ \A s \in Servers : serving[s] # "none" => Started
  /\ \A s \in Servers : server[s] # "new" => Started
  /\ \A s \in Servers : rpcs[s] > 0 => server[s] \in {"serving", "failed", "draining"}
  /\ stopper # "none" => run \in {"stopping", "nil", "err"}
  /\ stopper \in {"insecure", "app", "done"} => server["secure"] = "stopped"
  /\ stopper \in {"app", "done"} => server["insecure"] = "stopped"
  /\ app = "stopped" <=> stopper = "done"

\* A step of Run, of a server or of its requests keeps the invariant.
LEMMA LifeStep ==
  ASSUME AppTypeOK, LifeInv,
         \/ RunStep \/ Signal \/ AppShutsDown \/ UNCHANGED appVars
         \/ \E s \in Servers : ServerStep(s) \/ RPCStart(s) \/ RPCEnd(s)
  PROVE  (AppTypeOK /\ LifeInv)'
<1> USE ServerAssumption DEF AppTypeOK, LifeInv, Started, RunStates, Alive
<1>1. CASE LoadConfig
  BY <1>1 DEF LoadConfig, Boot
<1>2. CASE Listen
  BY <1>2 DEF Listen, Boot
<1>3. CASE LoadTLS
  BY <1>3 DEF LoadTLS, Boot
<1>4. CASE InitApp
  BY <1>4 DEF InitApp, Boot
<1>5. CASE Serve
  BY <1>5 DEF Serve
<1>6. CASE WaitOver
  <2>1. signal' \in BOOLEAN /\ appDown' \in BOOLEAN
    BY <1>6, Zenon DEF WaitOver
  <2> QED
    BY <1>6, <2>1 DEF WaitOver
<1>7. CASE StopApp
  BY <1>7 DEF StopApp
<1>8. CASE Return
  BY <1>8 DEF Return
<1>9. CASE Signal
  BY <1>9 DEF Signal
<1>10. CASE AppShutsDown
  BY <1>10 DEF AppShutsDown
<1>11. ASSUME NEW s \in Servers, ServeStarts(s) PROVE (AppTypeOK /\ LifeInv)'
  BY <1>11 DEF ServeStarts, Servers
<1>12. ASSUME NEW s \in Servers, ServeEnds(s) PROVE (AppTypeOK /\ LifeInv)'
  BY <1>12 DEF ServeEnds
<1>13. ASSUME NEW s \in Servers, StopBegins(s) PROVE (AppTypeOK /\ LifeInv)'
  BY <1>13 DEF StopBegins, Servers
<1>14. ASSUME NEW s \in Servers, StopEnds(s) PROVE (AppTypeOK /\ LifeInv)'
  BY <1>14 DEF StopEnds, After, Servers
<1>15. ASSUME NEW s \in Servers, RPCStart(s) PROVE (AppTypeOK /\ LifeInv)'
  BY <1>15 DEF RPCStart
<1>16. ASSUME NEW s \in Servers, RPCEnd(s) PROVE (AppTypeOK /\ LifeInv)'
  BY <1>16 DEF RPCEnd
<1>17. CASE UNCHANGED appVars
  BY <1>17 DEF appVars
<1> QED
  BY <1>1, <1>2, <1>3, <1>4, <1>5, <1>6, <1>7, <1>8, <1>9, <1>10, <1>11, <1>12, <1>13,
     <1>14, <1>15, <1>16, <1>17 DEF RunStep, ServerStep

\* Every step of the process is such a step: the gateway reaches the server only
\* by starting and ending a stream.
LEMMA ProcessStep ==
  ASSUME [Next]_vars
  PROVE  \/ RunStep \/ Signal \/ AppShutsDown \/ UNCHANGED appVars
         \/ \E s \in Servers : ServerStep(s) \/ RPCStart(s) \/ RPCEnd(s)
<1>1. "insecure" \in Servers
  BY DEF Servers
<1>2. CASE OpenStream \/ EndStream
  BY <1>1, <1>2 DEF OpenStream, EndStream
<1>3. CASE GatewayHandler \/ GatewayReader \/ GatewayExternal
  BY <1>3 DEF GatewayHandler, GatewayReader, GatewayExternal
<1>4. CASE AppStep \/ AppExternal
  BY <1>4 DEF AppStep, AppExternal
<1>5. CASE \E s \in Servers : ServerSteps(s) \/ DirectRPC(s)
  BY <1>5 DEF ServerSteps, DirectRPC
<1>6. CASE UNCHANGED vars
  BY <1>6 DEF vars
<1> QED
  BY <1>2, <1>3, <1>4, <1>5, <1>6 DEF Next

\* No RPC of either server, a stream of the gateway included, is in flight before
\* the application is initialised or after it is stopped.
THEOREM ApplicationOutlivesRPCs == Spec => []AppOutlivesRPCs
<1>1. Init => AppTypeOK /\ LifeInv
  <2> SUFFICES ASSUME AppInit PROVE AppTypeOK /\ LifeInv
    BY DEF Init
  <2>1. signal \in BOOLEAN /\ appDown \in BOOLEAN
    BY Zenon DEF AppInit
  <2> QED
    BY <2>1, ServerAssumption DEF AppInit, AppTypeOK, LifeInv, Started, RunStates
<1>2. AppTypeOK /\ LifeInv /\ [Next]_vars => (AppTypeOK /\ LifeInv)'
  BY LifeStep, ProcessStep
<1>3. AppTypeOK /\ LifeInv => AppOutlivesRPCs
  <2> SUFFICES ASSUME AppTypeOK, LifeInv, NEW s \in Servers, rpcs[s] > 0 PROVE app = "ready"
    BY DEF AppOutlivesRPCs
  <2>1. server[s] \notin {"new", "stopped"} /\ app # "none"
    BY DEF LifeInv
  <2>2. app # "stopped"
    BY <2>1 DEF LifeInv, Servers
  <2> QED
    BY <2>1, <2>2 DEF AppTypeOK
<1> QED
  BY <1>1, <1>2, <1>3, PTL DEF Spec

-----------------------------------------------------------------------------
(***************************************************************************)
(* The gateway.                                                            *)
(***************************************************************************)
\* The messages in q are the last of those sent.
Waiting(q, sent) ==
  Len(q) <= sent /\ \A n \in 1 .. Len(q) : q[n] = sent - Len(q) + n

\* The messages in q are the first of those sent.
Counted(q) == \A n \in 1 .. Len(q) : q[n] = n

\* Sending a message keeps the queue in order.
LEMMA SendWaits ==
  ASSUME NEW M \in Nat, NEW q \in Seq(1 .. M), NEW sent \in 0 .. M, sent < M, Waiting(q, sent)
  PROVE  /\ Append(q, sent + 1) \in Seq(1 .. M) /\ Len(q) \in Nat
         /\ Len(Append(q, sent + 1)) = Len(q) + 1
         /\ Waiting(Append(q, sent + 1), sent + 1)
<1> DEFINE r == Append(q, sent + 1)
<1>1. r \in Seq(1 .. M) /\ Len(q) \in Nat /\ Len(r) = Len(q) + 1
  OBVIOUS
<1>2. \A n \in 1 .. Len(q) + 1 : r[n] = IF n <= Len(q) THEN q[n] ELSE sent + 1
  OBVIOUS
<1>3. ASSUME NEW n \in 1 .. Len(r) PROVE r[n] = sent + 1 - Len(r) + n
  BY <1>1, <1>2 DEF Waiting
<1> QED
  BY <1>1, <1>3 DEF Waiting

\* The first message of the queue is the one after those already taken.
LEMMA HeadWaits ==
  ASSUME NEW M \in Nat, NEW q \in Seq(1 .. M), NEW sent \in 0 .. M, q # <<>>, Waiting(q, sent)
  PROVE  /\ Tail(q) \in Seq(1 .. M) /\ Len(q) \in Nat \ {0}
         /\ Len(Tail(q)) = Len(q) - 1
         /\ Head(q) + Len(Tail(q)) = sent /\ Head(q) \in 1 .. M
         /\ Waiting(Tail(q), sent)
<1> DEFINE r == Tail(q)
<1>1. r \in Seq(1 .. M) /\ Len(q) \in Nat \ {0} /\ Len(r) = Len(q) - 1
  OBVIOUS
<1>2. Head(q) = q[1] /\ Head(q) \in 1 .. M
  OBVIOUS
<1>3. \A n \in 1 .. Len(q) - 1 : r[n] = q[n + 1]
  OBVIOUS
<1>4. ASSUME NEW n \in 1 .. Len(r) PROVE r[n] = sent - Len(r) + n
  BY <1>1, <1>3 DEF Waiting
<1>5. q[1] = sent - Len(q) + 1
  BY <1>1 DEF Waiting
<1> QED
  BY <1>1, <1>2, <1>4, <1>5 DEF Waiting

\* The next message goes to the end of those received.
LEMMA NextCounts ==
  ASSUME NEW M \in Nat, NEW q \in Seq(1 .. M), NEW x \in 1 .. M, x = Len(q) + 1, Counted(q)
  PROVE  /\ Append(q, x) \in Seq(1 .. M) /\ Len(Append(q, x)) = Len(q) + 1
         /\ Counted(Append(q, x))
BY DEF Counted

\* From the server to the client: what was written to the client, what the handler
\* holds and what still waits are consecutive as long as the client is there.
Downstream ==
  /\ Waiting(outbox, srvSent) /\ Counted(wire)
  /\ main = "write" => resp + Len(outbox) = srvSent
  /\ ws = "open" /\ main = "write" => resp = Len(wire) + 1
  /\ ws = "open" /\ main # "write" => Len(wire) + Len(outbox) = srvSent

\* From the client to the server, as long as the stream takes messages.
Upstream ==
  /\ Waiting(inbox, clientSent) /\ Counted(srvGot)
  /\ reader = "send" => data + Len(inbox) = clientSent
  /\ status = "none" /\ cs \in {"none", "open"} =>
       /\ reader = "send" => data = Len(srvGot) + 1
       /\ reader \in {"none", "read"} => Len(srvGot) + Len(inbox) = clientSent

\* What the close message says of the stream, given what was written before it.
Told(code, written) ==
  \/ code = 1000 /\ status = "OK" /\ written = srvSent
  \/ code = 4000 /\ (cs = "broken" \/ (status = "failed" /\ written = srvSent))

\* How the stream ends: a client that is there when the handler closes has been sent
\* everything, or the stream broke, since nothing else gets the handler out of its
\* loop; and the client gets the close message after all that was written.
Ending ==
  /\ main = "idle" => ws = "none" /\ clientSent = 0 /\ wire = <<>>
  /\ main \in {"idle", "dial"} => cs = "none"
  /\ cs = "none" => srvSent = 0 /\ status = "none" /\ reader = "none"
  /\ cs = "cancelled" => main = "returned"
  /\ main \in {"select", "recv", "write", "close"} => cs \in {"open", "broken"}
  /\ main = "close" /\ ws = "open" =>
       \/ outbox = <<>> /\ err = "EOF" /\ status = "OK"
       \/ outbox = <<>> /\ err = "status" /\ status = "failed"
       \/ err = "status" /\ cs = "broken"
  /\ closing # 0 => main \in {"defer", "returned"}
  /\ closing # 0 /\ cs # "none" => Told(closing, Len(wire))
  /\ closeCode # 0 => closeCode = closing /\ clientGot = Len(wire)

GatewayInv == GatewayTypeOK /\ Downstream /\ Upstream /\ Ending

\* A step of the gateway, of its client or of its server keeps the invariant.
LEMMA GatewayStep ==
  ASSUME GatewayInv,
         [GatewayNext]_gatewayVars
  PROVE  GatewayInv'
<1> USE GatewayAssumption
    DEF GatewayInv, GatewayTypeOK, Downstream, Upstream, Ending, Told, Codes, Statuses,
        clientVars, serverVars, handlerVars, readerVars
<1>1. CASE ClientSend
  <2>1. inbox' = Append(inbox, clientSent + 1) /\ clientSent < MaxRequests
    BY <1>1 DEF ClientSend
  <2>2. /\ clientSent' = clientSent + 1 /\ clientSent' \in 0 .. MaxRequests /\ ws = "open"
        /\ UNCHANGED <<ws, wire, closing, clientGot, closeCode, serverVars, handlerVars,
                       readerVars>>
    BY <1>1 DEF ClientSend
  <2>3. /\ inbox' \in Seq(1 .. MaxRequests) /\ Len(inbox') = Len(inbox) + 1
        /\ Len(inbox) \in Nat /\ Waiting(inbox', clientSent')
    BY <2>1, <2>2, SendWaits
  <2>4. GatewayTypeOK' /\ Downstream' /\ Ending'
    BY <2>2, <2>3
  <2>5. data \in Nat /\ Len(srvGot) \in Nat /\ clientSent \in Nat
    OBVIOUS
  <2>6. \A n \in Nat : n + Len(inbox) = clientSent => n + Len(inbox') = clientSent'
    BY ONLY <2>2, <2>3, <2>5
  <2>7. Upstream'
    BY ONLY <2>2, <2>3, <2>5, <2>6, Upstream DEF Upstream, serverVars, readerVars
  <2> QED
    BY <2>4, <2>7
<1>2. CASE ClientLeaves
  BY <1>2 DEF ClientLeaves
<1>3. CASE ServerSend
  <2>1. outbox' = Append(outbox, srvSent + 1) /\ srvSent < MaxResponses
    BY <1>3 DEF ServerSend
  <2>2. /\ srvSent' = srvSent + 1 /\ srvSent' \in 0 .. MaxResponses
        /\ cs = "open" /\ status = "none"
        /\ UNCHANGED <<clientVars, cs, srvGot, status, handlerVars, readerVars>>
    BY <1>3 DEF ServerSend
  <2>3. /\ outbox' \in Seq(1 .. MaxResponses) /\ Len(outbox') = Len(outbox) + 1
        /\ Len(outbox) \in Nat /\ Waiting(outbox', srvSent')
    BY <2>1, <2>2, SendWaits
  <2> QED
    BY <2>2, <2>3
<1>4. CASE ServerEnds
  BY <1>4 DEF ServerEnds
<1>5. CASE Upgrade
  BY <1>5 DEF Upgrade, Waiting
<1>6. CASE NewStream
  BY <1>6 DEF NewStream
<1>7. CASE NewStreamFails
  BY <1>7 DEF NewStreamFails, WriteCode
<1>8. CASE Select
  BY <1>8 DEF Select
<1>9. CASE RecvMsg
  <2>1. CASE outbox # <<>> /\ main' = "write"
    <3>1. /\ resp' = Head(outbox) /\ outbox' = Tail(outbox) /\ err' = err /\ main = "recv"
          /\ UNCHANGED <<clientVars, cs, srvGot, srvSent, status, readerVars>>
      BY <1>9, <2>1 DEF RecvMsg
    <3>2. /\ outbox' \in Seq(1 .. MaxResponses) /\ Len(outbox) \in Nat \ {0}
          /\ Len(outbox') = Len(outbox) - 1 /\ Waiting(outbox', srvSent)
          /\ resp' + Len(outbox') = srvSent /\ resp' \in 1 .. MaxResponses
      BY <2>1, <3>1, HeadWaits
    <3>3. ws = "open" => Len(wire) + Len(outbox) = srvSent
      BY <3>1
    <3>4. Len(wire) \in Nat /\ srvSent \in Nat /\ resp' \in Nat
      BY <3>2
    <3>5. ws = "open" => resp' = Len(wire) + 1
      BY ONLY <3>2, <3>3, <3>4
    <3>6. GatewayTypeOK'
      BY <2>1, <3>1, <3>2
    <3>7. Downstream'
      BY ONLY <2>1, <3>1, <3>2, <3>5, GatewayInv DEF GatewayInv, Downstream, clientVars
    <3>8. Upstream'
      BY <2>1, <3>1, <3>2
    <3>9. Ending'
      BY <2>1, <3>1, <3>2
    <3> QED
      BY <3>6, <3>7, <3>8, <3>9
  <2>2. CASE main' = "close"
    <3>1. /\ err' \in {"EOF", "status"} /\ cs' \in {cs, "broken"} /\ main = "recv"
          /\ UNCHANGED <<clientVars, srvGot, srvSent, outbox, status, resp, readerVars>>
      BY <1>9, <2>2 DEF RecvMsg
    <3>2. \/ outbox = <<>> /\ err' = "EOF" /\ status = "OK"
          \/ outbox = <<>> /\ err' = "status" /\ status = "failed"
          \/ err' = "status" /\ cs' = "broken"
      BY <1>9, <2>2 DEF RecvMsg
    <3> QED
      BY <2>2, <3>1, <3>2
  <2> HIDE DEF GatewayInv
  <2> QED
    BY <1>9, <2>1, <2>2 DEF RecvMsg
<1>10. CASE WriteMessage
  <2>1. CASE ws = "open"
    <3>1. /\ wire' = Append(wire, resp) /\ main' = "select" /\ err' = "nil"
          /\ main = "write"
          /\ UNCHANGED <<ws, clientSent, inbox, closing, clientGot, closeCode, serverVars, resp,
                         readerVars>>
      BY <1>10, <2>1 DEF WriteMessage
    <3>2. resp = Len(wire) + 1 /\ resp \in 1 .. MaxResponses
      BY <2>1, <3>1
    <3>3. /\ wire' \in Seq(1 .. MaxResponses) /\ Len(wire') = Len(wire) + 1
          /\ Counted(wire')
      BY <3>1, <3>2, NextCounts
    <3> QED
      BY <2>1, <3>1, <3>2, <3>3
  <2>2. CASE ws # "open"
    <3>1. /\ wire' = wire /\ main = "write"
          /\ main' \in {"select", "close"} /\ err' \in {"nil", "other"}
          /\ UNCHANGED <<ws, clientSent, inbox, closing, clientGot, closeCode, serverVars, resp,
                         readerVars>>
      BY <1>10, <2>2 DEF WriteMessage
    <3> QED
      BY <2>2, <3>1
  <2> QED
    BY <2>1, <2>2
<1>11. CASE WriteClose
  BY <1>11 DEF WriteClose, WriteCode, CloseCode
<1>12. CASE Deferred
  BY <1>12 DEF Deferred
<1>13. CASE ReadMessage
  <2>1. CASE inbox # <<>> /\ reader' = "send"
    <3>1. /\ data' = Head(inbox) /\ inbox' = Tail(inbox) /\ reader = "read"
          /\ UNCHANGED <<ws, clientSent, wire, closing, clientGot, closeCode, serverVars,
                         handlerVars, readErrCh>>
      BY <1>13, <2>1 DEF ReadMessage
    <3>2. /\ inbox' \in Seq(1 .. MaxRequests) /\ Len(inbox) \in Nat \ {0}
          /\ Len(inbox') = Len(inbox) - 1 /\ Waiting(inbox', clientSent)
          /\ data' + Len(inbox') = clientSent /\ data' \in 1 .. MaxRequests
      BY <2>1, <3>1, HeadWaits
    <3>3. status = "none" /\ cs \in {"none", "open"} => Len(srvGot) + Len(inbox) = clientSent
      BY <3>1
    <3>4. Len(srvGot) \in Nat /\ clientSent \in Nat /\ data' \in Nat
      BY <3>2
    <3>5. status = "none" /\ cs \in {"none", "open"} => data' = Len(srvGot) + 1
      BY ONLY <3>2, <3>3, <3>4
    <3>6. GatewayTypeOK'
      BY <2>1, <3>1, <3>2
    <3>7. Downstream'
      BY <2>1, <3>1, <3>2
    <3>8. Upstream'
      BY ONLY <2>1, <3>1, <3>2, <3>5, GatewayInv DEF GatewayInv, Upstream, serverVars
    <3>9. Ending'
      BY <2>1, <3>1, <3>2
    <3> QED
      BY <3>6, <3>7, <3>8, <3>9
  <2>2. CASE ws # "open" /\ reader' = "report" /\ UNCHANGED <<data, inbox>>
    BY <1>13, <2>2 DEF ReadMessage
  <2> HIDE DEF GatewayInv
  <2> QED
    BY <1>13, <2>1, <2>2 DEF ReadMessage
<1>14. CASE SendMsg
  <2>1. /\ reader = "send" /\ data' = 0
        /\ UNCHANGED <<clientVars, cs, srvSent, outbox, status, handlerVars, readErrCh>>
    BY <1>14 DEF SendMsg
  <2>2. CASE Flowing /\ srvGot' = Append(srvGot, data) /\ reader' = "read"
    <3>1. data = Len(srvGot) + 1 /\ data \in 1 .. MaxRequests
      BY <2>1, <2>2 DEF Flowing
    <3>2. /\ srvGot' \in Seq(1 .. MaxRequests) /\ Len(srvGot') = Len(srvGot) + 1
          /\ Counted(srvGot')
      BY <2>2, <3>1, NextCounts
    <3> QED
      BY <2>1, <2>2, <3>1, <3>2
  <2>3. CASE ~Flowing /\ cs # "cancelled" /\ srvGot' = srvGot /\ reader' = "read"
    BY <2>1, <2>3 DEF Flowing
  <2>4. CASE ~Flowing /\ srvGot' = srvGot /\ reader' = "report"
    BY <2>1, <2>4
  <2> HIDE DEF GatewayInv
  <2> QED
    BY <1>14, <2>2, <2>3, <2>4 DEF SendMsg
<1>15. CASE Report
  BY <1>15 DEF Report, Room
<1>16. CASE UNCHANGED gatewayVars
  BY <1>16 DEF gatewayVars
<1>17. CASE ClientRecv
  <2>1. /\ clientGot' \in 0 .. Len(wire) /\ closeCode' \in Codes
        /\ closeCode' # 0 => closeCode' = closing /\ clientGot' = Len(wire)
    <3>1. /\ clientGot \in 0 .. Len(wire) /\ closing \in Codes
          /\ closeCode # 0 => clientGot = Len(wire)
      OBVIOUS
    <3>2. Len(wire) \in Nat
      OBVIOUS
    <3>3. CASE clientGot < Len(wire) /\ clientGot' = clientGot + 1 /\ closeCode' = closeCode
      <4>1. closeCode = 0
        BY <3>1, <3>2, <3>3
      <4> QED
        BY ONLY <3>1, <3>2, <3>3, <4>1 DEF Codes
    <3>4. CASE clientGot = Len(wire) /\ closeCode' = closing /\ clientGot' = clientGot
      BY ONLY <3>1, <3>2, <3>4
    <3> QED
      BY <1>17, <3>3, <3>4 DEF ClientRecv
  <2>2. UNCHANGED <<ws, clientSent, inbox, wire, closing, serverVars, handlerVars, readerVars>>
    BY <1>17 DEF ClientRecv
  <2> QED
    BY <2>1, <2>2
<1>18. CASE StreamBreaks
  BY <1>18 DEF StreamBreaks
<1> HIDE DEF GatewayInv, GatewayTypeOK, Downstream, Upstream, Ending
<1> QED
  BY <1>1, <1>2, <1>3, <1>4, <1>5, <1>6, <1>7, <1>8, <1>9, <1>10, <1>11, <1>12, <1>13,
     <1>14, <1>15, <1>16, <1>17, <1>18 DEF GatewayNext, HandlerStep, ReaderStep, Outside

\* The invariant holds at first and gives the property.
LEMMA GatewayHolds ==
  (GatewayInit => GatewayInv) /\ (GatewayInv => StreamFaithful)
<1>1. GatewayInit => GatewayInv
  <2> SUFFICES ASSUME GatewayInit PROVE GatewayInv
    OBVIOUS
  <2>1. <<>> \in Seq(1 .. MaxRequests) /\ <<>> \in Seq(1 .. MaxResponses) /\ Len(<<>>) = 0
    OBVIOUS
  <2> QED
    BY <2>1, GatewayAssumption
    DEF GatewayInit, GatewayInv, GatewayTypeOK, Downstream, Upstream, Ending, Codes,
        Statuses, Waiting, Counted
<1>2. GatewayInv => StreamFaithful
  <2>1. ASSUME NEW M \in Nat, NEW q \in Seq(1 .. M), Counted(q) PROVE q = Upto(Len(q))
    BY <2>1 DEF Counted, Upto
  <2> QED
    BY <2>1, GatewayAssumption DEF GatewayInv, GatewayTypeOK, Downstream, Upstream, Ending,
       Told, StreamFaithful
<1> QED
  BY <1>1, <1>2

\* However many messages go either way, whatever room the socket has, and whenever
\* the client leaves or stops reading, the stream breaks or the server ends it, the
\* gateway keeps the order, loses nothing in the middle and closes with a code that
\* tells the client how its stream ended.
THEOREM GatewayFaithful == GatewaySpec => []StreamFaithful
BY GatewayHolds, GatewayStep, PTL DEF GatewaySpec

\* The same in the process, which may stop at any point of it.
THEOREM ProcessStreamFaithful == Spec => []StreamFaithful
<1>1. GatewayInv /\ [Next]_vars => GatewayInv'
  BY GatewayStep
  DEF Next, vars, AppStep, AppExternal, ServerSteps, DirectRPC, GatewayHandler, GatewayReader,
      GatewayExternal, OpenStream, EndStream, GatewayNext
<1> QED
  BY <1>1, GatewayHolds, PTL DEF Spec, Init
=============================================================================
