---------------------------- MODULE HeadersProofs ----------------------------
(***************************************************************************)
(* Validation and the propagation of headers, for trees of any number of   *)
(* calls, any messages and any encodings.                                  *)
(***************************************************************************)
EXTENDS Headers, TLAPS

CallRecords(M) ==
  [from : Nat, stream : BOOLEAN, req : {"valid", "invalid"}, md : M,
   clientChecks : BOOLEAN, serverChecks : BOOLEAN,
   stage : {"sent", "running", "replied", "done"}, got : {"none", "valid", "invalid"},
   resp : {"none", "valid", "invalid"},
   code : {"none", "OK", "InvalidArgument", "Internal", "handler error"}]

\* There is a context for every call.
Shapes ==
  /\ \E M : call \in Seq(CallRecords(M))
  /\ \E C : ctx \in Seq(C)
  /\ Len(ctx) = Len(call) /\ Len(call) >= 1
  /\ call[1].stage = "running" /\ call[1].got = "valid"

\* The life of call c, whose handler has a context with headers or not.
Checked(c, init) ==
  /\ c.clientChecks => c.req = "valid"
  /\ c.got # "none" => c.got = c.req /\ (c.serverChecks => c.req = "valid")
  /\ c.stage = "sent" => c.got = "none" /\ ~init
  /\ c.stage \in {"sent", "running"} => c.code = "none" /\ c.resp = "none"
  /\ c.stage = "running" /\ ~c.stream => c.got # "none"
  /\ c.code = "OK" => /\ c.got # "none" /\ c.resp # "none"
                      /\ c.serverChecks => c.resp = "valid"
                      /\ c.stage = "done" /\ c.clientChecks => c.resp = "valid"
  /\ c.code = "InvalidArgument" => c.got = "none" /\ c.resp = "none" /\ (~c.stream => ~init)

CheckInv == Shapes /\ \A j \in DOMAIN call \ {1} : Checked(call[j], ctx[j].init)

\* A step that changes one call, to one of the forms that a call may have, keeps
\* the shape of the tree.
LEMMA ChangeCall ==
  ASSUME Shapes, NEW M, call \in Seq(CallRecords(M)), NEW j \in DOMAIN call,
         NEW r \in CallRecords(M), call' = [call EXCEPT ![j] = r],
         j = 1 => r.stage = "running" /\ r.got = "valid",
         ctx' = ctx \/ \E c : ctx' = [ctx EXCEPT ![j] = c]
  PROVE  /\ Shapes'
         /\ DOMAIN call' = DOMAIN call /\ call'[j] = r
         /\ \A k \in DOMAIN call \ {j} : call'[k] = call[k] /\ ctx'[k] = ctx[k]
<1>1. PICK C : ctx \in Seq(C)
  BY DEF Shapes
<1>2. call' \in Seq(CallRecords(M)) /\ Len(call') = Len(call)
  OBVIOUS
<1>3. (\E D : ctx' \in Seq(D)) /\ Len(ctx') = Len(ctx)
  <2>1. CASE ctx' = ctx
    BY <1>1, <2>1
  <2>2. ASSUME NEW c, ctx' = [ctx EXCEPT ![j] = c] PROVE (\E D : ctx' \in Seq(D)) /\ Len(ctx') = Len(ctx)
    <3> DEFINE D == C \cup {c}
    <3>1. ctx \in Seq(D) /\ c \in D /\ j \in 1 .. Len(ctx)
      BY <1>1 DEF Shapes
    <3> HIDE DEF D
    <3>2. ctx' \in Seq(D) /\ Len(ctx') = Len(ctx)
      BY <2>2, <3>1
    <3> QED
      BY <3>2
  <2> QED
    BY <2>1, <2>2
<1>4. call'[j] = r /\ \A k \in DOMAIN call \ {j} : call'[k] = call[k]
  OBVIOUS
<1>5. \A k \in DOMAIN call \ {j} : ctx'[k] = ctx[k]
  BY <1>1 DEF Shapes
<1> QED
  BY <1>2, <1>3, <1>4, <1>5 DEF Shapes
\* Such a step keeps the invariant if the call goes on as it may.
LEMMA ChangeKeeps ==
  ASSUME CheckInv, NEW M, call \in Seq(CallRecords(M)), NEW j \in DOMAIN call \ {1},
         NEW r \in CallRecords(M), call' = [call EXCEPT ![j] = r],
         ctx' = ctx \/ \E c : ctx' = [ctx EXCEPT ![j] = c],
         Checked(r, ctx'[j].init)
  PROVE  CheckInv'
<1>1. /\ Shapes' /\ DOMAIN call' = DOMAIN call /\ call'[j] = r
      /\ \A k \in DOMAIN call \ {j} : call'[k] = call[k] /\ ctx'[k] = ctx[k]
  BY ChangeCall, Zenon DEF CheckInv
<1>2. ASSUME NEW k \in DOMAIN call' \ {1} PROVE Checked(call'[k], ctx'[k].init)
  <2>1. CASE k = j
    BY <1>1, <2>1
  <2>2. CASE k # j
    BY <1>1, <2>2 DEF CheckInv
  <2> QED
    BY <2>1, <2>2
<1> QED
  BY <1>1, <1>2 DEF CheckInv

\* Every step keeps the invariant.
LEMMA CheckStep == ASSUME CheckInv, [Next]_vars PROVE CheckInv'
<1>1. PICK M : call \in Seq(CallRecords(M))
  BY DEF CheckInv, Shapes
<1>2. PICK C : ctx \in Seq(C)
  BY DEF CheckInv, Shapes
<1>3. /\ DOMAIN call = 1 .. Len(call) /\ Len(call) \in Nat
      /\ \A j \in DOMAIN call : call[j] \in CallRecords(M)
  BY <1>1
<1>4. ASSUME NEW i \in DOMAIN call, NEW c, Store(i, c) PROVE CheckInv'
  <2>1. /\ Running(i) /\ ctx' = [ctx EXCEPT ![i] = c] /\ call' = call
    BY <1>4 DEF Store
  <2>2. call' = [call EXCEPT ![i] = call[i]]
    BY <1>1, <2>1
  <2>3. /\ Shapes' /\ \A k \in DOMAIN call \ {i} : ctx'[k] = ctx[k]
    BY <1>1, <1>3, <2>1, <2>2, ChangeCall, Zenon DEF CheckInv, Running
  <2>4. ASSUME NEW k \in DOMAIN call' \ {1} PROVE Checked(call'[k], ctx'[k].init)
    <3>1. CASE k # i
      BY <2>1, <2>3, <3>1 DEF CheckInv
    <3>2. CASE k = i
      <4>1. Checked(call[i], ctx[i].init) /\ call[i].stage = "running" /\ call[i] \in CallRecords(M)
        BY <1>3, <2>1, <3>2 DEF CheckInv, Running
      <4>2. Checked(call[i], ctx'[i].init)
        BY <4>1, Zenon DEF Checked, CallRecords
      <4> QED
        BY <2>1, <3>2, <4>2
    <3> QED
      BY <3>1, <3>2
  <2> QED
    BY <2>3, <2>4 DEF CheckInv
<1>5. ASSUME NEW i \in DOMAIN call, ClientSend(i) PROVE CheckInv'
  <2>1. PICK stream \in Streaming, req \in Validity, clientChecks \in Checking,
             serverChecks \in Checking :
          /\ clientChecks => req = "valid"
          /\ call' = Append(call,
               [from |-> i, stream |-> stream, req |-> req, md |-> Metadata(ctx[i]),
                clientChecks |-> clientChecks, serverChecks |-> serverChecks,
                stage |-> "sent", got |-> "none", resp |-> "none", code |-> "none"])
          /\ ctx' = Append(ctx, Background)
    BY <1>5, Zenon DEF ClientSend
  <2> DEFINE md == Metadata(ctx[i])
             N == M \cup {md}
             D == C \cup {Background}
             r == [from |-> i, stream |-> stream, req |-> req, md |-> md,
                   clientChecks |-> clientChecks, serverChecks |-> serverChecks,
                   stage |-> "sent", got |-> "none", resp |-> "none", code |-> "none"]
  <2>2. r \in CallRecords(N)
    <3>1. stream \in BOOLEAN /\ req \in {"valid", "invalid"} /\ clientChecks \in BOOLEAN
          /\ serverChecks \in BOOLEAN
      BY Zenon DEF Streaming, Validity, Checking
    <3>2. i \in Nat
      BY <1>3
    <3> HIDE DEF md
    <3> QED
      BY <3>1, <3>2 DEF CallRecords
  <2>3. call \in Seq(CallRecords(N)) /\ ctx \in Seq(D) /\ Background \in D
    <3>1. CallRecords(M) \subseteq CallRecords(N)
      BY Zenon DEF CallRecords
    <3> HIDE DEF N
    <3> QED
      BY <1>1, <1>2, <3>1
  <2>4. Checked(r, Background.init)
    BY <2>1 DEF Checked, Background
  <2>5. call' = Append(call, r) /\ ctx' = Append(ctx, Background)
    BY <2>1
  <2> HIDE DEF r, N, D
  <2>6. /\ call' \in Seq(CallRecords(N)) /\ Len(call') = Len(call) + 1
        /\ ctx' \in Seq(D) /\ Len(ctx') = Len(ctx) + 1
    BY <2>2, <2>3, <2>5
  <2>7. /\ \A k \in 1 .. Len(call) : call'[k] = call[k] /\ ctx'[k] = ctx[k]
        /\ call'[Len(call) + 1] = r /\ ctx'[Len(call) + 1] = Background
    BY <2>2, <2>3, <2>5 DEF CheckInv, Shapes
  <2>8. Shapes'
    BY <1>3, <2>6, <2>7 DEF CheckInv, Shapes
  <2>9. ASSUME NEW k \in DOMAIN call' \ {1} PROVE Checked(call'[k], ctx'[k].init)
    <3>1. k \in 1 .. Len(call) \/ k = Len(call) + 1
      BY <2>6, <1>3
    <3> QED
      BY <1>3, <2>4, <2>7, <3>1 DEF CheckInv
  <2> QED
    BY <2>8, <2>9 DEF CheckInv
<1>6. ASSUME NEW j \in DOMAIN call, NEW code \in {"InvalidArgument", "Internal", "handler error"},
             Reject(j, code), j # 1, call[j].stage = "running" \/ call[j].stage = "sent",
             code = "InvalidArgument" => call[j].got = "none" /\ (~call[j].stream => ~ctx[j].init),
             ctx' = ctx
      PROVE  CheckInv'
  <2> DEFINE r == [call[j] EXCEPT !.stage = "replied", !.code = code]
  <2>1. call' = [call EXCEPT ![j] = r] /\ call[j] \in CallRecords(M)
    BY <1>3, <1>6, Zenon DEF Reject
  <2>2. Checked(call[j], ctx[j].init)
    BY <1>6, Zenon DEF CheckInv
  <2>3. r \in CallRecords(M)
    BY <2>1, Zenon DEF CallRecords
  <2>4. Checked(r, ctx'[j].init)
    BY <1>6, <2>1, <2>2, Zenon DEF Checked, CallRecords
  <2> HIDE DEF r
  <2> QED
    BY <1>1, <1>6, <2>1, <2>3, <2>4, ChangeKeeps, Zenon
<1>7. ASSUME NEW j \in DOMAIN call, UnaryReceive(j) \/ StreamOpen(j) PROVE CheckInv'
  <2>1. call[j].stage = "sent" /\ j # 1 /\ Checked(call[j], ctx[j].init) /\ call[j] \in CallRecords(M)
    BY <1>3, <1>7 DEF UnaryReceive, StreamOpen, CheckInv, Shapes
  <2>2. CASE ~call[j].stream /\ call[j].serverChecks /\ call[j].req = "invalid"
             /\ Reject(j, "InvalidArgument") /\ ctx' = ctx
    BY <1>6, <2>1, <2>2, Zenon DEF Checked
  <2>3. CASE /\ ~call[j].stream /\ ~(call[j].serverChecks /\ call[j].req = "invalid")
             /\ call' = [call EXCEPT ![j] = [@ EXCEPT !.stage = "running", !.got = call[j].req]]
             /\ ctx' = [ctx EXCEPT ![j] = getAllHeaders(call[j].md)]
    <3> DEFINE r == [call[j] EXCEPT !.stage = "running", !.got = call[j].req]
    <3>1. call' = [call EXCEPT ![j] = r]
      BY <1>3, <2>3
    <3>2. r \in CallRecords(M)
      BY <2>1, Zenon DEF CallRecords
    <3>3. Checked(r, ctx'[j].init)
      BY <2>1, <2>3, Zenon DEF Checked, CallRecords
    <3> HIDE DEF r
    <3> QED
      BY <1>1, <2>1, <2>3, <3>1, <3>2, <3>3, ChangeKeeps, Zenon
  <2>4. CASE /\ call[j].stream
             /\ call' = [call EXCEPT ![j] = [@ EXCEPT !.stage = "running"]]
             /\ ctx' = [ctx EXCEPT ![j] = getAllHeaders(call[j].md)]
    <3> DEFINE r == [call[j] EXCEPT !.stage = "running"]
    <3>1. call' = [call EXCEPT ![j] = r]
      BY <1>3, <2>4
    <3>2. r \in CallRecords(M)
      BY <2>1, Zenon DEF CallRecords
    <3>3. Checked(r, ctx'[j].init)
      BY <2>1, <2>4, Zenon DEF Checked, CallRecords
    <3> HIDE DEF r
    <3> QED
      BY <1>1, <2>1, <2>4, <3>1, <3>2, <3>3, ChangeKeeps, Zenon
  <2> QED
    BY <1>7, <2>2, <2>3, <2>4 DEF UnaryReceive, StreamOpen
<1>8. ASSUME NEW j \in DOMAIN call, StreamRecv(j) PROVE CheckInv'
  <2>1. /\ call[j].stage = "running" /\ call[j].got = "none" /\ ctx' = ctx
        /\ j # 1 /\ Checked(call[j], ctx[j].init) /\ call[j] \in CallRecords(M)
    BY <1>3, <1>8 DEF StreamRecv, CheckInv, Shapes
  <2>2. CASE Reject(j, "InvalidArgument")
    BY <1>6, <2>1, <2>2, Zenon DEF Checked, CallRecords
  <2>3. CASE /\ ~(call[j].serverChecks /\ call[j].req = "invalid")
             /\ call' = [call EXCEPT ![j] = [@ EXCEPT !.got = call[j].req]]
    <3> DEFINE r == [call[j] EXCEPT !.got = call[j].req]
    <3>1. call' = [call EXCEPT ![j] = r]
      BY <1>3, <2>3
    <3>2. r \in CallRecords(M)
      BY <2>1, Zenon DEF CallRecords
    <3>3. Checked(r, ctx'[j].init)
      BY <2>1, <2>3, Zenon DEF Checked, CallRecords
    <3> HIDE DEF r
    <3> QED
      BY <1>1, <2>1, <3>1, <3>2, <3>3, ChangeKeeps, Zenon
  <2> QED
    BY <1>8, <2>2, <2>3 DEF StreamRecv
<1>9. ASSUME NEW j \in DOMAIN call, HandlerReturn(j) PROVE CheckInv'
  <2>0. j > 1 /\ call[j].stage = "running" /\ call[j].got # "none" /\ ctx' = ctx
    BY <1>9, Zenon DEF HandlerReturn
  <2>1. /\ j # 1 /\ call[j].stage = "running" /\ call[j].got # "none" /\ ctx' = ctx
        /\ Checked(call[j], ctx[j].init) /\ call[j] \in CallRecords(M)
    BY <1>3, <2>0 DEF CheckInv
  <2>2. CASE Reject(j, "handler error") \/ Reject(j, "Internal")
    BY <1>6, <2>1, <2>2, Zenon
  <2>3. ASSUME NEW resp \in Validity, ~(call[j].serverChecks /\ resp = "invalid"),
               call' = [call EXCEPT ![j] =
                          [@ EXCEPT !.stage = "replied", !.code = "OK", !.resp = resp]]
        PROVE  CheckInv'
    <3> DEFINE r == [call[j] EXCEPT !.stage = "replied", !.code = "OK", !.resp = resp]
    <3>0. resp \in {"valid", "invalid"}
      BY DEF Validity
    <3>1. call' = [call EXCEPT ![j] = r]
      BY <1>3, <2>3
    <3>2. r \in CallRecords(M)
      BY <2>1, <3>0, Zenon DEF CallRecords
    <3>3. Checked(r, ctx'[j].init)
      BY <2>1, <2>3, <3>0, Zenon DEF Checked, CallRecords
    <3> HIDE DEF r
    <3> QED
      BY <1>1, <2>1, <3>1, <3>2, <3>3, ChangeKeeps, Zenon
  <2> QED
    BY <1>9, <2>2, <2>3, Zenon DEF HandlerReturn
<1>10. ASSUME NEW j \in DOMAIN call, ClientReceive(j) PROVE CheckInv'
  <2>1. /\ call[j].stage = "replied" /\ ctx' = ctx
        /\ j # 1 /\ Checked(call[j], ctx[j].init) /\ call[j] \in CallRecords(M)
    BY <1>3, <1>10 DEF ClientReceive, CheckInv, Shapes
  <2> DEFINE code == IF call[j].clientChecks /\ call[j].resp = "invalid" THEN "Internal"
                     ELSE call[j].code
             r == [call[j] EXCEPT !.stage = "done", !.code = code]
  <2>2. call' = [call EXCEPT ![j] = r]
    BY <1>3, <1>10 DEF ClientReceive
  <2>3. r \in CallRecords(M)
    BY <2>1, Zenon DEF CallRecords
  <2>4. Checked(r, ctx'[j].init)
    BY <2>1, Zenon DEF Checked, CallRecords
  <2> HIDE DEF r
  <2> QED
    BY <1>1, <2>1, <2>2, <2>3, <2>4, ChangeKeeps, Zenon
<1>11. CASE UNCHANGED vars
  BY <1>11 DEF vars, CheckInv, Shapes, Checked
<1> QED
  BY <1>4, <1>5, <1>7, <1>8, <1>9, <1>10, <1>11 DEF Next, Step, SetBinary, SetVersion

\* A tree starts in the invariant.
LEMMA InitChecked == Init => CheckInv
<1> SUFFICES ASSUME Init PROVE CheckInv
  OBVIOUS
<1>1. PICK c \in StartContexts : ctx = <<c>>
  BY DEF Init
<1>2. call = <<Start>> /\ Start \in CallRecords({NoHeaders})
  BY DEF Init, Start, CallRecords
<1>3. call \in Seq(CallRecords({NoHeaders})) /\ Len(call) = 1 /\ call[1] = Start
  BY <1>2
<1>4. ctx \in Seq({c}) /\ Len(ctx) = 1
  BY <1>1
<1>5. Start.stage = "running" /\ Start.got = "valid"
  BY DEF Start
<1>6. DOMAIN call \ {1} = {}
  BY <1>3
<1> QED
  BY <1>3, <1>4, <1>5, <1>6 DEF CheckInv, Shapes

\* In a tree of any size and shape, where one end validates, handlers work only on
\* valid requests and callers get OK only with valid responses.
THEOREM OnlyValidMessages == Spec => []RepliesChecked
<1>1. Init => CheckInv
  BY InitChecked
<1>2. CheckInv /\ [Next]_vars => CheckInv'
  BY CheckStep
<1>3. CheckInv => RepliesChecked
  <2> SUFFICES ASSUME CheckInv, NEW j \in DOMAIN call \ {1}
               PROVE  LET c == call[j]
                      IN  /\ c.got = "invalid" => ~c.clientChecks /\ ~c.serverChecks
                          /\ c.stage = "done" /\ c.code = "OK" /\ (c.clientChecks \/ c.serverChecks)
                               => c.got = "valid" /\ c.resp = "valid"
                          /\ c.code = "InvalidArgument" => c.got = "none" /\ (~c.stream => ~ctx[j].init)
    BY DEF RepliesChecked
  <2>1. PICK M : call \in Seq(CallRecords(M))
    BY DEF CheckInv, Shapes
  <2>2. call[j] \in CallRecords(M) /\ Checked(call[j], ctx[j].init)
    BY <2>1 DEF CheckInv
  <2> QED
    BY <2>2, Zenon DEF Checked, CallRecords
<1> QED
  BY <1>1, <1>2, <1>3, PTL DEF Spec
-----------------------------------------------------------------------------
(***************************************************************************)
(* The propagation of headers.                                             *)
(***************************************************************************)
\* The names that the keys of a map have.
KeyFits(t, k) ==
  /\ k.bin \in BOOLEAN
  /\ t = "Root" => k.pre = "root-"
  /\ t = "Propagating" => k.pre = "prop-"
  /\ t \in {"Outbound", "Inbound", "ASCII"} => k.pre = ""
  /\ t = "Inbound" => k.bin
  /\ t = "ASCII" => ~k.bin
  /\ t = "Outbound" => k.stem \in Messages

\* The kind of the values of a map.
ValueFits(t, v) == v.kind = IF t = "ASCII" THEN "string" ELSE "bytes"

\* A context as the package makes them.
Sound(c) ==
  /\ \E H : c \in [init : BOOLEAN, maps : [Types -> H]]
  /\ \A t \in Types : \A k \in DOMAIN c.maps[t] :
       KeyFits(t, k) /\ ValueFits(t, c.maps[t][k])
  /\ ~c.init => \A t \in Types : DOMAIN c.maps[t] = {}

\* Context c carries the maps.
HasHeaders(c) == c.init

BinaryTypes == {"Outbound", "Inbound", "Root", "Propagating"}

\* The key of message m in the map of type t, and what a getter finds there.
KeyIn(t, m) == getPrefixedHeaderName(getBinaryHeaderName(m), t)
Find(c, t, m) ==
  IF KeyIn(t, m) \in DOMAIN c.maps[t] THEN Unmarshal(c.maps[t][KeyIn(t, m)].data).data
  ELSE Absent

\* The prefixes of the types.
LEMMA Prefixes ==
  /\ prefix("Root") = "root-" /\ prefix("Propagating") = "prop-"
  /\ prefix("Outbound") = "" /\ prefix("Inbound") = ""
BY Zenon DEF prefix

\* The parts of a message's key.
LEMMA KeyParts ==
  ASSUME NEW m, NEW t
  PROVE  /\ KeyIn(t, m).pre = prefix(t)
         /\ KeyIn(t, m).stem = m
         /\ KeyIn(t, m).bin = TRUE
<1> DEFINE b == getBinaryHeaderName(m)
           e == [b EXCEPT !.pre = prefix(t)]
           l == [e EXCEPT !.lower = TRUE]
<1>1. KeyIn(t, m) = l
  BY Zenon DEF KeyIn, getPrefixedHeaderName, ToLower
<1>2. b.stem = m /\ b.bin = TRUE /\ DOMAIN b = {"pre", "stem", "bin", "lower"}
  BY Zenon DEF getBinaryHeaderName
<1>3. e.stem = m /\ e.bin = TRUE /\ e.pre = prefix(t) /\ DOMAIN e = DOMAIN b
  BY <1>2, Zenon
<1>4. l.stem = m /\ l.bin = TRUE /\ l.pre = prefix(t)
  BY <1>2, <1>3, Zenon
<1> QED
  BY <1>1, <1>4, Zenon

\* The data of a getter's result.
LEMMA GotData ==
  ASSUME NEW err, NEW d
  PROVE  Got(err, d).data = d
BY DEF Got

\* The map that a key is put into.
LEMMA KeyTypes ==
  ASSUME NEW k
  PROVE  /\ TypeOfKey(k) = "Root" <=> k.pre = "root-"
         /\ TypeOfKey(k) = "Propagating" <=> k.pre = "prop-"
         /\ TypeOfKey(k) = "Inbound" <=> (k.pre = "" /\ k.bin)
         /\ TypeOfKey(k) \in Types \ {"Outbound"}
BY Zenon DEF TypeOfKey, Types

\* A getter finds what the map has.
LEMMA GetterFinds ==
  ASSUME NEW c, Sound(c), NEW m, NEW t \in BinaryTypes
  PROVE  getHeader(c, getBinaryHeaderName(m), t).data = Find(c, t, m)
<1>1. t \in Types /\ t # "ASCII" /\ c.init \in BOOLEAN
  BY DEF BinaryTypes, Types, Sound
<1> DEFINE h == c.maps[t]
           k == KeyIn(t, m)
           g == getHeader(c, getBinaryHeaderName(m), t)
<1>2. CASE ~c.init
  <2>1. g = Got("not initialised", Absent)
    BY <1>2, Zenon DEF getHeader
  <2>2. KeyIn(t, m) \notin DOMAIN c.maps[t]
    BY <1>1, <1>2 DEF Sound
  <2> QED
    BY <2>1, <2>2, GotData, Zenon DEF Find
<1>3. CASE c.init /\ k \notin DOMAIN h
  <2>1. g = Got("header not found", Absent)
    BY <1>3, Zenon DEF getHeader, KeyIn
  <2> QED
    BY <1>3, <2>1, GotData, Zenon DEF Find
<1>4. CASE c.init /\ k \in DOMAIN h
  <2>1. h[k].kind = "bytes"
    BY <1>1, <1>4 DEF Sound, ValueFits
  <2>2. g = Unmarshal(h[k].data)
    BY <1>4, <2>1, Zenon DEF getHeader, KeyIn
  <2> QED
    BY <1>4, <2>2 DEF Find
<1> QED
  BY <1>1, <1>2, <1>3, <1>4
\* What comes out of Unmarshal.
LEMMA Unmarshalled ==
  ASSUME NEW d
  PROVE  /\ Unmarshal(d).data \in Payloads \cup {Empty, Absent}
         /\ d \in Payloads \cup {Empty} => Unmarshal(d).data = d
BY GotData DEF Unmarshal

\* The keys and the values of a merged map.
LEMMA MergedMap ==
  ASSUME NEW h, NEW other
  PROVE  /\ DOMAIN merge(h, other) = DOMAIN h \cup DOMAIN other
         /\ \A k \in DOMAIN other : merge(h, other)[k] = other[k]
         /\ \A k \in DOMAIN h \ DOMAIN other : merge(h, other)[k] = h[k]
BY DEF merge

\* What gRPC itself adds is none of the package's binary headers.
LEMMA TransportKeys ==
  \A k \in DOMAIN Transport : k.bin = FALSE /\ k.pre = ""
<1>1. DOMAIN Transport = {ASCIIName("user-agent")}
  BY DEF Transport
<1>2. ASCIIName("user-agent").bin = FALSE
  BY Zenon DEF ASCIIName
<1>3. ASCIIName("user-agent").pre = ""
  BY DEF ASCIIName
<1> QED
  BY <1>1, <1>2, <1>3, Zenon

\* The maps that are sent, merged.
SentMaps(c) ==
  merge(merge(merge(c.maps["Root"], c.maps["Propagating"]), c.maps["Outbound"]), c.maps["ASCII"])

\* The header of a key is the one of the last of the maps that has it.
LEMMA MergedMaps ==
  ASSUME NEW c, NEW k
  PROVE  /\ k \in DOMAIN SentMaps(c) <=>
              \E t \in {"Root", "Propagating", "Outbound", "ASCII"} : k \in DOMAIN c.maps[t]
         /\ \A t \in {"Root", "Propagating", "Outbound", "ASCII"} :
              /\ k \in DOMAIN c.maps[t]
              /\ \A u \in {"Root", "Propagating", "Outbound", "ASCII"} \ {t} :
                   k \notin DOMAIN c.maps[u]
              => SentMaps(c)[k] = c.maps[t][k]
<1> DEFINE r == c.maps["Root"]
           p == c.maps["Propagating"]
           o == c.maps["Outbound"]
           a == c.maps["ASCII"]
           rp == merge(r, p)
           rpo == merge(rp, o)
           all == merge(rpo, a)
<1>1. /\ DOMAIN rp = DOMAIN r \cup DOMAIN p
      /\ \A x \in DOMAIN p : rp[x] = p[x]
      /\ \A x \in DOMAIN r \ DOMAIN p : rp[x] = r[x]
  BY MergedMap, Zenon
<1>2. /\ DOMAIN rpo = DOMAIN rp \cup DOMAIN o
      /\ \A x \in DOMAIN o : rpo[x] = o[x]
      /\ \A x \in DOMAIN rp \ DOMAIN o : rpo[x] = rp[x]
  <2> HIDE DEF rp
  <2> QED
    BY MergedMap, Zenon
<1>3. /\ DOMAIN all = DOMAIN rpo \cup DOMAIN a
      /\ \A x \in DOMAIN a : all[x] = a[x]
      /\ \A x \in DOMAIN rpo \ DOMAIN a : all[x] = rpo[x]
  <2> HIDE DEF rpo
  <2> QED
    BY MergedMap, Zenon
<1>4. SentMaps(c) = all
  BY Zenon DEF SentMaps
<1> HIDE DEF rp, rpo, all
<1>5. DOMAIN all = DOMAIN r \cup DOMAIN p \cup DOMAIN o \cup DOMAIN a
  BY <1>1, <1>2, <1>3
<1>6. /\ k \in DOMAIN r /\ k \notin DOMAIN p \cup DOMAIN o \cup DOMAIN a => all[k] = r[k]
      /\ k \in DOMAIN p /\ k \notin DOMAIN o \cup DOMAIN a => all[k] = p[k]
      /\ k \in DOMAIN o /\ k \notin DOMAIN a => all[k] = o[k]
      /\ k \in DOMAIN a => all[k] = a[k]
  BY <1>1, <1>2, <1>3
<1> QED
  BY <1>4, <1>5, <1>6

\* The keys that are sent come from the four maps, and those of the binary
\* headers of messages never collide.
LEMMA SentKeys ==
  ASSUME NEW c, Sound(c), NEW k \in DOMAIN Metadata(c)
  PROVE  k.bin \in BOOLEAN /\ k.pre \in {"root-", "prop-", ""}
<1>1. DOMAIN Metadata(c) = DOMAIN setAllHeaders(c) \cup DOMAIN Transport
  BY MergedMap, Zenon DEF Metadata
<1>2. CASE k \in DOMAIN Transport
  BY <1>2, TransportKeys, Zenon
<1>3. CASE k \in DOMAIN setAllHeaders(c)
  <2>1. \E t \in {"Root", "Propagating", "Outbound", "ASCII"} : k \in DOMAIN c.maps[t]
    BY <1>3, MergedMaps DEF setAllHeaders, SentMaps
  <2>2. PICK t \in {"Root", "Propagating", "Outbound", "ASCII"} : k \in DOMAIN c.maps[t]
    BY <2>1
  <2>3. KeyFits(t, k)
    BY <2>2 DEF Sound, Types
  <2> QED
    BY <2>3, Zenon DEF KeyFits
<1> QED
  BY <1>1, <1>2, <1>3, Zenon

\* A binary header of a message is sent exactly when its map has it, and with the
\* bytes of that map.
LEMMA SentHeader ==
  ASSUME NEW c, Sound(c), NEW m \in Messages, NEW t \in {"Root", "Propagating", "Outbound"}
  PROVE  /\ KeyIn(t, m) \in DOMAIN Metadata(c) <=> KeyIn(t, m) \in DOMAIN c.maps[t]
         /\ KeyIn(t, m) \in DOMAIN c.maps[t] =>
              Metadata(c)[KeyIn(t, m)] = c.maps[t][KeyIn(t, m)].data
<1> DEFINE k == KeyIn(t, m)
           all == SentMaps(c)
<1>1. k.pre = prefix(t) /\ k.stem = m /\ k.bin = TRUE
  BY KeyParts, Zenon
<1>2. k.stem \notin Reserved
  BY <1>1, ReservedAssumption
<1>3. k \notin DOMAIN Transport
  BY <1>1, TransportKeys, Zenon
<1>4. k \notin DOMAIN c.maps["ASCII"]
  BY <1>1, Zenon DEF Sound, Types, KeyFits
<1>5. ASSUME NEW u \in {"Root", "Propagating", "Outbound"} \ {t} PROVE k \notin DOMAIN c.maps[u]
  <2>1. prefix(u) # prefix(t)
    BY Prefixes, Zenon
  <2>2. KeyFits(u, k) => k.pre = prefix(u)
    BY Prefixes, Zenon DEF KeyFits
  <2>3. k \in DOMAIN c.maps[u] => KeyFits(u, k)
    BY DEF Sound, Types
  <2> QED
    BY <1>1, <2>1, <2>2, <2>3, Zenon
<1>6. setAllHeaders(c) = [x \in {x \in DOMAIN all : x.stem \notin Reserved} |-> all[x].data]
  BY Zenon DEF setAllHeaders, SentMaps
<1> HIDE DEF k
<1>7. k \in DOMAIN all <=> k \in DOMAIN c.maps[t]
  BY <1>4, <1>5, MergedMaps
<1>8. k \in DOMAIN c.maps[t] => all[k] = c.maps[t][k]
  BY <1>4, <1>5, MergedMaps
<1>9. /\ k \in DOMAIN setAllHeaders(c) <=> k \in DOMAIN c.maps[t]
      /\ k \in DOMAIN c.maps[t] => setAllHeaders(c)[k] = c.maps[t][k].data
  <2> HIDE DEF all
  <2> QED
    BY <1>2, <1>6, <1>7, <1>8
<1>10. /\ k \in DOMAIN Metadata(c) <=> k \in DOMAIN c.maps[t]
       /\ k \in DOMAIN c.maps[t] => Metadata(c)[k] = c.maps[t][k].data
  <2>1. /\ DOMAIN Metadata(c) = DOMAIN setAllHeaders(c) \cup DOMAIN Transport
        /\ \A x \in DOMAIN setAllHeaders(c) \ DOMAIN Transport :
             Metadata(c)[x] = setAllHeaders(c)[x]
    BY MergedMap, Zenon DEF Metadata
  <2> QED
    BY <1>3, <1>9, <2>1
<1> QED
  BY <1>10 DEF k
\* Headers with names that the package or gRPC gives.
KeysFit(md) == \A k \in DOMAIN md : k.bin \in BOOLEAN /\ k.pre \in {"root-", "prop-", ""}

\* The context that the interceptor makes of them.
LEMMA ReceivedSound ==
  ASSUME NEW md, KeysFit(md)
  PROVE  Sound(getAllHeaders(md)) /\ getAllHeaders(md).init = TRUE
<1> DEFINE e == getAllHeaders(md)
           f == [t \in Types |-> [k \in {k \in DOMAIN md : TypeOfKey(k) = t} |->
                                    IF t = "ASCII" THEN Text(md[k]) ELSE Bytes(md[k])]]
           H == {f[t] : t \in Types}
<1>1. e = [init |-> TRUE, maps |-> f]
  BY Zenon DEF getAllHeaders
<1>2. f \in [Types -> H]
  OBVIOUS
<1>3. e.init = TRUE
  <2> HIDE DEF f, e
  <2> QED
    BY <1>1, Zenon
<1>4. e.maps = f
  BY <1>1
<1>5. e \in [init : BOOLEAN, maps : [Types -> H]]
  <2> HIDE DEF f, H
  <2> QED
    BY <1>1, <1>2
<1>6. ASSUME NEW t \in Types, NEW k \in DOMAIN e.maps[t]
      PROVE  KeyFits(t, k) /\ ValueFits(t, e.maps[t][k])
  <2>1. k \in DOMAIN md /\ TypeOfKey(k) = t
    BY <1>4, <1>6
  <2>2. k.bin \in BOOLEAN /\ k.pre \in {"root-", "prop-", ""}
    BY <2>1, Zenon DEF KeysFit
  <2>3. t \in {"Root", "Propagating", "Inbound", "ASCII"}
    <3>1. TypeOfKey(k) \in Types \ {"Outbound"}
      BY <2>2, KeyTypes, Zenon
    <3> QED
      BY <2>1, <3>1 DEF Types
  <2>4. KeyFits(t, k)
    <3>1. /\ t = "Root" <=> k.pre = "root-"
          /\ t = "Propagating" <=> k.pre = "prop-"
          /\ t = "Inbound" <=> (k.pre = "" /\ k.bin)
      BY <2>1, <2>2, KeyTypes, Zenon
    <3> QED
      BY <2>2, <2>3, <3>1, Zenon DEF KeyFits
  <2>5. e.maps[t][k] = IF t = "ASCII" THEN Text(md[k]) ELSE Bytes(md[k])
    BY <1>4, <2>1
  <2> QED
    BY <2>4, <2>5 DEF Bytes, Text, ValueFits
<1> HIDE DEF f, H, e
<1> QED
  BY <1>3, <1>5, <1>6 DEF Sound, e

\* Where the interceptor puts a key, and the bytes it finds there.
LEMMA ReceivedMap ==
  ASSUME NEW md, NEW t \in Types, NEW k
  PROVE  LET h == getAllHeaders(md).maps[t]
         IN  /\ k \in DOMAIN h <=> (k \in DOMAIN md /\ TypeOfKey(k) = t)
             /\ k \in DOMAIN h => h[k].data = md[k]
<1> DEFINE h == getAllHeaders(md).maps[t]
<1>1. h = [x \in {x \in DOMAIN md : TypeOfKey(x) = t} |->
             IF t = "ASCII" THEN Text(md[x]) ELSE Bytes(md[x])]
  BY DEF getAllHeaders
<1> HIDE DEF h
<1>2. k \in DOMAIN h <=> (k \in DOMAIN md /\ TypeOfKey(k) = t)
  BY <1>1
<1>3. k \in DOMAIN h => h[k] = Bytes(md[k]) \/ h[k] = Text(md[k])
  BY <1>1
<1>4. k \in DOMAIN h => h[k].data = md[k]
  BY <1>3 DEF Bytes, Text
<1> QED
  BY <1>2, <1>4 DEF h

\* The context that the callee's interceptor makes of a caller's context.
Passed(c) == getAllHeaders(Metadata(c))

\* It is one of the package's.
LEMMA PassedSound ==
  ASSUME NEW c, Sound(c)
  PROVE  Sound(Passed(c)) /\ Passed(c).init = TRUE
BY SentKeys, ReceivedSound, Zenon DEF KeysFit, Passed

\* What the callee finds: the caller's root and propagating headers, its outbound
\* headers as inbound ones, and nothing outbound.
LEMMA PassedHeaders ==
  ASSUME NEW c, Sound(c), NEW m \in Messages
  PROVE  /\ Find(Passed(c), "Root", m) = Find(c, "Root", m)
         /\ Find(Passed(c), "Propagating", m) = Find(c, "Propagating", m)
         /\ Find(Passed(c), "Inbound", m) = Find(c, "Outbound", m)
         /\ Find(Passed(c), "Outbound", m) = Absent
<1>1. KeyIn("Inbound", m) = KeyIn("Outbound", m)
  BY Prefixes, Zenon DEF KeyIn, getPrefixedHeaderName
<1>2. \A t \in Types : KeyIn(t, m).pre = prefix(t) /\ KeyIn(t, m).bin = TRUE
  BY KeyParts, Zenon
<1>3. /\ TypeOfKey(KeyIn("Root", m)) = "Root"
      /\ TypeOfKey(KeyIn("Propagating", m)) = "Propagating"
      /\ TypeOfKey(KeyIn("Inbound", m)) = "Inbound"
      /\ TypeOfKey(KeyIn("Outbound", m)) # "Outbound"
  <2>1. \A t \in Types :
          /\ TypeOfKey(KeyIn(t, m)) = "Root" <=> prefix(t) = "root-"
          /\ TypeOfKey(KeyIn(t, m)) = "Propagating" <=> prefix(t) = "prop-"
          /\ TypeOfKey(KeyIn(t, m)) = "Inbound" <=> prefix(t) = ""
    BY <1>2, KeyTypes, Zenon
  <2> QED
    BY <2>1, Prefixes, Zenon DEF Types
<1>4. Find(Passed(c), "Outbound", m) = Absent
  BY <1>3, ReceivedMap DEF Find, Types, Passed
<1>5. ASSUME NEW t \in {"Root", "Propagating", "Outbound"}, NEW u \in Types, u # "ASCII",
             KeyIn(u, m) = KeyIn(t, m), TypeOfKey(KeyIn(u, m)) = u
      PROVE  Find(Passed(c), u, m) = Find(c, t, m)
  BY <1>5, SentHeader, ReceivedMap DEF Find, Passed
<1> QED
  BY <1>1, <1>3, <1>4, <1>5 DEF Types
\* A store changes one map.
LEMMA WithMaps ==
  ASSUME NEW c, Sound(c), NEW t \in Types, NEW k, NEW v, NEW u \in Types
  PROVE  With(c, t, k, v).maps[u] = IF u = t THEN Put(c.maps[t], k, v) ELSE c.maps[u]
<1> DEFINE p == Put(c.maps[t], k, v)
           f == [c.maps EXCEPT ![t] = p]
           e == With(c, t, k, v)
<1>1. PICK H : c \in [init : BOOLEAN, maps : [Types -> H]]
  BY DEF Sound
<1>2. e = [c EXCEPT !.maps = f]
  BY Zenon DEF With
<1> HIDE DEF p
<1>3. e.maps = f
  BY <1>1, <1>2
<1>4. f[u] = IF u = t THEN p ELSE c.maps[u]
  BY <1>1
<1> QED
  BY <1>3, <1>4 DEF p

\* A header of its map's kind keeps a context as the package makes them.
LEMMA WithSound ==
  ASSUME NEW c, Sound(c), HasHeaders(c), NEW t \in Types, NEW k, NEW v, KeyFits(t, k), ValueFits(t, v)
  PROVE  Sound(With(c, t, k, v)) /\ HasHeaders(With(c, t, k, v))
<1> DEFINE p == Put(c.maps[t], k, v)
           e == With(c, t, k, v)
           f == [c.maps EXCEPT ![t] = p]
<1>1. PICK H : c \in [init : BOOLEAN, maps : [Types -> H]]
  BY DEF Sound
<1>2. DOMAIN p = DOMAIN c.maps[t] \cup {k} /\ \A x \in DOMAIN p : p[x] = IF x = k THEN v ELSE c.maps[t][x]
  BY DEF Put
<1> HIDE DEF p
<1>3. e = [c EXCEPT !.maps = f]
  BY Zenon DEF With, p
<1>4. f \in [Types -> H \cup {p}]
  BY <1>1
<1>5. e.init = c.init /\ e.maps = f
  BY <1>1, <1>3
<1>6. e \in [init : BOOLEAN, maps : [Types -> H \cup {p}]]
  <2> HIDE DEF f
  <2> QED
    BY <1>1, <1>3, <1>4
<1>7. \A u \in Types : f[u] = IF u = t THEN p ELSE c.maps[u]
  BY <1>1
<1>8. ASSUME NEW u \in Types, NEW x \in DOMAIN e.maps[u]
      PROVE  KeyFits(u, x) /\ ValueFits(u, e.maps[u][x])
  <2> HIDE DEF e, f
  <2>1. CASE u # t \/ x # k
    <3>1. x \in DOMAIN c.maps[u] /\ e.maps[u][x] = c.maps[u][x]
      BY <1>2, <1>5, <1>7, <1>8, <2>1
    <3> QED
      BY <3>1 DEF Sound
  <2>2. CASE u = t /\ x = k
    BY <1>2, <1>5, <1>7, <1>8, <2>2
  <2> QED
    BY <2>1, <2>2
<1> HIDE DEF e, f
<1>9. Sound(e) /\ HasHeaders(e)
  BY <1>5, <1>6, <1>8, Zenon DEF Sound, HasHeaders
<1> QED
  BY <1>9 DEF e

\* It changes what a getter finds for that key of that map, and nothing else.
LEMMA WithHeaders ==
  ASSUME NEW c, Sound(c), NEW t \in Types, NEW k, NEW v, NEW u \in BinaryTypes, NEW m
  PROVE  Find(With(c, t, k, v), u, m) =
           IF u = t /\ k = KeyIn(u, m) THEN Unmarshal(v.data).data ELSE Find(c, u, m)
<1> DEFINE e == With(c, t, k, v)
           p == Put(c.maps[t], k, v)
<1>1. u \in Types
  BY DEF BinaryTypes, Types
<1>2. DOMAIN p = DOMAIN c.maps[t] \cup {k} /\ \A x \in DOMAIN p : p[x] = IF x = k THEN v ELSE c.maps[t][x]
  BY DEF Put
<1>4. e.maps[u] = IF u = t THEN p ELSE c.maps[u]
  BY <1>1, WithMaps
<1> HIDE DEF p, e
<1>5. Find(e, u, m) = IF u = t /\ k = KeyIn(u, m) THEN Unmarshal(v.data).data ELSE Find(c, u, m)
  BY <1>2, <1>4 DEF Find
<1> QED
  BY <1>5 DEF e
\* What the handler of a context finds of each message.
FindsIn(c, t) == [m \in Messages |-> Find(c, t, m)]

LEMMA ViewFinds ==
  ASSUME NEW c, Sound(c)
  PROVE  ViewOf(c) = [root |-> FindsIn(c, "Root"), propagating |-> FindsIn(c, "Propagating"),
                      inbound |-> FindsIn(c, "Inbound"), outbound |-> FindsIn(c, "Outbound")]
<1>1. \A m \in Messages :
        /\ GetRootHeader(c, m).data = Find(c, "Root", m)
        /\ GetPropagatingHeader(c, m).data = Find(c, "Propagating", m)
        /\ GetHeader(c, m).data = Find(c, "Inbound", m)
        /\ Outgoing(c, m).data = Find(c, "Outbound", m)
  BY GetterFinds DEF BinaryTypes, GetRootHeader, GetPropagatingHeader, GetHeader, Outgoing
<1> QED
  BY <1>1 DEF ViewOf, FindsIn

\* The keys of the two setters of messages.
LEMMA MessageKeyFits ==
  ASSUME NEW m, NEW t \in {"Outbound", "Propagating", "Root"}, t = "Outbound" => m \in Messages
  PROVE  KeyFits(t, KeyIn(t, m))
<1>1. KeyIn(t, m).bin \in BOOLEAN /\ KeyIn(t, m).pre = prefix(t) /\ KeyIn(t, m).stem = m
  BY KeyParts, Zenon
<1> QED
  BY <1>1, Prefixes, Zenon DEF KeyFits

\* Keys of different messages differ.
LEMMA KeysDiffer ==
  ASSUME NEW m, NEW n, NEW t, m # n
  PROVE  KeyIn(t, m) # KeyIn(t, n)
<1>1. KeyIn(t, m).stem = m /\ KeyIn(t, n).stem = n
  BY KeyParts, Zenon
<1> QED
  BY <1>1

\* A setter of a message changes what is found of that message in that map.
LEMMA SetMessage ==
  ASSUME NEW c, Sound(c), HasHeaders(c), NEW m \in Messages, NEW d \in Payloads \cup {Empty},
         NEW t \in {"Outbound", "Propagating"},
         NEW e, e = setHeader(c, d, getBinaryHeaderName(m), t)
  PROVE  /\ Sound(e) /\ HasHeaders(e)
         /\ FindsIn(e, t) = [FindsIn(c, t) EXCEPT ![m] = d]
         /\ \A u \in BinaryTypes \ {t} : FindsIn(e, u) = FindsIn(c, u)
<1> DEFINE k == KeyIn(t, m)
<1>1. e = With(c, t, k, Bytes(d))
  BY Zenon DEF setHeader, KeyIn, HasHeaders
<1>2. t \in Types /\ t \in BinaryTypes /\ KeyFits(t, k) /\ ValueFits(t, Bytes(d))
      /\ Bytes(d).data = d
  BY MessageKeyFits DEF Types, BinaryTypes, Bytes, ValueFits
<1>3. Sound(e) /\ HasHeaders(e)
  <2>1. Sound(With(c, t, k, Bytes(d))) /\ HasHeaders(With(c, t, k, Bytes(d)))
    <3> HIDE DEF k
    <3> QED
      BY <1>2, WithSound, Zenon
  <2> QED
    BY <1>1, <2>1, Zenon
<1>4. ASSUME NEW u \in BinaryTypes, NEW n
      PROVE  Find(e, u, n) = IF u = t /\ k = KeyIn(u, n) THEN d ELSE Find(c, u, n)
  BY <1>1, <1>2, WithHeaders, Unmarshalled
<1>5. \A n \in Messages : Find(e, t, n) = IF n = m THEN d ELSE Find(c, t, n)
  BY <1>2, <1>4, KeysDiffer
<1> QED
  BY <1>3, <1>4, <1>5, Zenon DEF FindsIn

Plain(k) == k.pre = "" /\ k.bin = FALSE

\* A store under a name that is not one of a binary header changes none of them.
LEMMA SetOther ==
  ASSUME NEW c, Sound(c), HasHeaders(c), NEW t \in {"Outbound", "ASCII"}, NEW k, NEW v,
         Plain(k), k.stem \in Messages \/ t = "ASCII", ValueFits(t, v)
  PROVE  /\ Sound(With(c, t, k, v)) /\ HasHeaders(With(c, t, k, v))
         /\ \A u \in BinaryTypes : FindsIn(With(c, t, k, v), u) = FindsIn(c, u)
<1>1. t \in Types /\ KeyFits(t, k)
  BY Zenon DEF Types, KeyFits, Plain
<1>2. ASSUME NEW u, NEW m PROVE k # KeyIn(u, m)
  <2>1. KeyIn(u, m).bin = TRUE
    BY KeyParts, Zenon
  <2> QED
    BY <2>1, Zenon DEF Plain
<1>3. ASSUME NEW u \in BinaryTypes, NEW m \in Messages
      PROVE  Find(With(c, t, k, v), u, m) = Find(c, u, m)
  <2>1. Find(With(c, t, k, v), u, m) =
          IF u = t /\ k = KeyIn(u, m) THEN Unmarshal(v.data).data ELSE Find(c, u, m)
    BY <1>1, WithHeaders
  <2> QED
    BY <1>2, <2>1, Zenon
<1> QED
  BY <1>1, <1>3, WithSound DEF FindsIn

\* The names of the version headers and of a binary header under an ASCII name.
LEMMA VersionKeys ==
  /\ Plain(ToLower(KinVersionHeader))
  /\ ToLower(KinVersionHeader) = KinVersionHeader
<1> DEFINE g == ASCIIName("kin-version")
<1>1. ToLower(KinVersionHeader) = KinVersionHeader
  <2>1. ASSUME NEW f, f = [x \in DOMAIN f |-> f[x]], NEW v, f["lower"] = v
        PROVE  [f EXCEPT !["lower"] = v] = f
    BY <2>1
  <2>2. g.lower = TRUE
    BY Zenon DEF ASCIIName
  <2>3. g = [x \in DOMAIN g |-> g[x]]
    BY Zenon DEF ASCIIName
  <2> HIDE DEF g
  <2>4. [g EXCEPT !["lower"] = TRUE] = g
    BY <2>1, <2>2, <2>3
  <2> QED
    BY <2>4, Zenon DEF ToLower, KinVersionHeader, g
<1>2. g.bin = FALSE
  BY Zenon DEF ASCIIName
<1>3. g.pre = ""
  BY DEF ASCIIName
<1> QED
  BY <1>1, <1>2, <1>3, Zenon DEF Plain, KinVersionHeader

LEMMA NamedKey ==
  ASSUME NEW m
  PROVE  LET k == getPrefixedHeaderName(ASCIIName(m), "Outbound") IN Plain(k) /\ k.stem = m
<1> DEFINE k == getPrefixedHeaderName(ASCIIName(m), "Outbound")
           b == ASCIIName(m)
           f == [b EXCEPT !.pre = prefix("Outbound")]
<1>1. k.pre = "" /\ k.stem = m
  BY Prefixes, Zenon DEF getPrefixedHeaderName, ASCIIName, ToLower
<1>2. b.bin = FALSE /\ DOMAIN b = {"pre", "stem", "bin", "lower"}
  BY Zenon DEF ASCIIName
<1>3. f.bin = FALSE /\ DOMAIN f = DOMAIN b
  BY <1>2, Zenon
<1>4. k = [f EXCEPT !.lower = TRUE]
  BY Zenon DEF getPrefixedHeaderName, ToLower
<1> HIDE DEF f, b, k
<1>5. k.bin = FALSE
  BY <1>2, <1>3, <1>4, Zenon
<1> QED
  BY <1>1, <1>5, Zenon DEF Plain, k

\* The two uses of it: a binary header under an ASCII name, and the Kin version.
NamedSet(c, e, m, d) ==
  \/ m \in Messages /\ e = SetHeaderByName(c, ASCIIName(m), d)
  \/ e = SetASCIIHeader(c, KinVersionHeader, d)

LEMMA SetNamed ==
  ASSUME NEW c, Sound(c), HasHeaders(c), NEW e, NEW d, NEW m,
         NamedSet(c, e, m, d)
  PROVE  Sound(e) /\ HasHeaders(e) /\ \A u \in BinaryTypes : FindsIn(e, u) = FindsIn(c, u)
<1> DEFINE k == getPrefixedHeaderName(ASCIIName(m), "Outbound")
           l == ToLower(KinVersionHeader)
<1>1. \/ m \in Messages /\ e = With(c, "Outbound", k, Bytes(d))
      \/ e = With(c, "ASCII", l, Text(d))
  BY Zenon DEF NamedSet, SetHeaderByName, setHeader, SetASCIIHeader, HasHeaders
<1>2. Plain(k) /\ k.stem = m /\ Plain(l)
  BY NamedKey, VersionKeys
<1>3. ValueFits("Outbound", Bytes(d)) /\ ValueFits("ASCII", Text(d))
  BY DEF Bytes, Text, ValueFits
<1> QED
  <2> HIDE DEF k, l
  <2>1. ASSUME NEW t \in {"Outbound", "ASCII"}, NEW x, NEW v, Plain(x),
               x.stem \in Messages \/ t = "ASCII", ValueFits(t, v), e = With(c, t, x, v)
        PROVE  Sound(e) /\ HasHeaders(e) /\ \A u \in BinaryTypes : FindsIn(e, u) = FindsIn(c, u)
    <3>1. /\ Sound(With(c, t, x, v)) /\ HasHeaders(With(c, t, x, v))
          /\ \A u \in BinaryTypes : FindsIn(With(c, t, x, v), u) = FindsIn(c, u)
      BY <2>1, SetOther
    <3> QED
      BY <2>1, <3>1, Zenon
  <2> QED
    BY <1>1, <1>2, <1>3, <2>1

\* A context with nothing inbound, as a tree starts with.
StartsSound(c) == Sound(c) /\ DOMAIN c.maps["Inbound"] = {}

\* A context made of maps whose keys and values fit.
LEMMA MadeSound ==
  ASSUME NEW f, NEW b \in BOOLEAN, f = [t \in Types |-> f[t]],
         \A t \in Types : \A k \in DOMAIN f[t] : b /\ t # "ASCII" /\ KeyFits(t, k) /\ f[t][k].kind = "bytes",
         DOMAIN f["Inbound"] = {}
  PROVE  StartsSound([init |-> b, maps |-> f])
<1> DEFINE e == [init |-> b, maps |-> f]
           H == {f[t] : t \in Types}
<1>1. f \in [Types -> H]
  OBVIOUS
<1> HIDE DEF H
<1>2. e \in [init : BOOLEAN, maps : [Types -> H]]
  BY <1>1
<1>3. e.init = b /\ e.maps = f
  OBVIOUS
<1> HIDE DEF e
<1>4. Sound(e)
  BY <1>2, <1>3 DEF Sound, ValueFits
<1> QED
  BY <1>3, <1>4 DEF StartsSound, e

\* Contexts without a header.
LEMMA EmptySound == StartsSound(Background) /\ StartsSound(FreshContext)
<1> DEFINE f == [t \in Types |-> NoHeaders]
<1>1. DOMAIN NoHeaders = {}
  BY DEF NoHeaders
<1>2. \A t \in Types : f[t] = NoHeaders
  OBVIOUS
<1>3. "Inbound" \in Types /\ f = [t \in Types |-> f[t]]
  BY DEF Types
<1> HIDE DEF f
<1>4. \A b \in BOOLEAN : StartsSound([init |-> b, maps |-> f])
  BY <1>1, <1>2, <1>3, MadeSound
<1>5. Background = [init |-> FALSE, maps |-> f] /\ FreshContext = [init |-> TRUE, maps |-> f]
  BY Zenon DEF Background, FreshContext, f
<1>6. StartsSound([init |-> FALSE, maps |-> f]) /\ StartsSound([init |-> TRUE, maps |-> f])
  BY <1>4, Zenon
<1> QED
  BY <1>5, <1>6, Zenon

\* What ContextWithHeaders returns.
LEMMA SettersSound ==
  ASSUME NEW setters \in Seq(Setters)
  PROVE  StartsSound(ContextWithHeaders(setters))
<1> DEFINE of(t) == {n \in DOMAIN setters : setters[n].type = t}
           last(t, k) == CHOOSE n \in of(t) :
                           /\ SetterKey(setters[n]) = k
                           /\ \A l \in of(t) : SetterKey(setters[l]) = k => l <= n
           f == [t \in Types |-> [k \in {SetterKey(setters[n]) : n \in of(t)} |->
                                    Bytes(setters[last(t, k)].data)]]
<1>1. CASE \E n \in DOMAIN setters : ~setters[n].ok
  <2>1. ContextWithHeaders(setters) = Background
    BY <1>1, Zenon DEF ContextWithHeaders
  <2> QED
    BY <2>1, EmptySound, Zenon
<1>2. CASE ~\E n \in DOMAIN setters : ~setters[n].ok
  <2>1. ContextWithHeaders(setters) = [init |-> TRUE, maps |-> f]
    BY <1>2, Zenon DEF ContextWithHeaders
  <2>2. f = [t \in Types |-> f[t]] /\ "Inbound" \in Types
    BY DEF Types
  <2>3. ASSUME NEW t \in Types, NEW k \in DOMAIN f[t]
        PROVE  KeyFits(t, k) /\ f[t][k].kind = "bytes" /\ t \notin {"Inbound", "ASCII"}
    <3>1. PICK n \in of(t) : k = SetterKey(setters[n])
      BY <2>3
    <3>2. setters[n] \in Setters /\ setters[n].type = t
      BY <3>1
    <3>3. t \in {"Outbound", "Propagating"} /\ k = KeyIn(t, setters[n].m) /\ setters[n].m \in Messages
      BY <3>1, <3>2 DEF Setters, SetterKey, KeyIn
    <3>4. KeyFits(t, k)
      BY <3>3, MessageKeyFits
    <3>5. f[t][k] = Bytes(setters[last(t, k)].data)
      <4> HIDE DEF of, last
      <4> QED
        BY <2>3
    <3> QED
      BY <3>3, <3>4, <3>5 DEF Bytes
  <2> HIDE DEF f
  <2>4. DOMAIN f["Inbound"] = {}
    BY <2>2, <2>3
  <2>5. StartsSound([init |-> TRUE, maps |-> f])
    BY <2>2, <2>3, <2>4, MadeSound, Zenon
  <2> QED
    BY <2>1, <2>5, Zenon
<1> QED
  BY <1>1, <1>2
\* A context into which root headers were put.
LEMMA RootSound ==
  ASSUME NEW c, StartsSound(c), HasHeaders(c), NEW roots, NEW d
  PROVE  StartsSound(WithRoot(c, roots, d))
<1> DEFINE p == [k \in {getPrefixedHeaderName(getBinaryHeaderName(m), "Root") : m \in roots} |->
                   Bytes(d)]
           f == [c.maps EXCEPT !["Root"] = p]
           e == [c EXCEPT !.maps = f]
<1>1. PICK H : c \in [init : BOOLEAN, maps : [Types -> H]]
  BY DEF StartsSound, Sound
<1>2. WithRoot(c, roots, d) = e
  BY Zenon DEF WithRoot
<1>3. \A k \in DOMAIN p : KeyFits("Root", k) /\ ValueFits("Root", p[k])
  BY MessageKeyFits DEF KeyIn, Bytes, ValueFits
<1> HIDE DEF p
<1>4. f \in [Types -> H \cup {p}]
  BY <1>1, Zenon
<1>5. e.init = c.init /\ e.maps = f
  BY <1>1
<1>6. e \in [init : BOOLEAN, maps : [Types -> H \cup {p}]]
  <2> HIDE DEF f
  <2> QED
    BY <1>1, <1>4
<1>7. \A u \in Types : f[u] = IF u = "Root" THEN p ELSE c.maps[u]
  BY <1>1
<1> HIDE DEF e, f
<1>8. Sound(e)
  <2>1. \A u \in Types : \A k \in DOMAIN c.maps[u] :
          KeyFits(u, k) /\ ValueFits(u, c.maps[u][k])
    BY DEF StartsSound, Sound
  <2>2. \A u \in Types : \A k \in DOMAIN e.maps[u] :
          KeyFits(u, k) /\ ValueFits(u, e.maps[u][k])
    BY <1>3, <1>5, <1>7, <2>1
  <2>3. e.init
    BY <1>5, Zenon DEF HasHeaders
  <2> QED
    BY <1>6, <2>2, <2>3, Zenon DEF Sound
<1>9. DOMAIN e.maps["Inbound"] = {}
  BY <1>5, <1>7 DEF StartsSound, Types
<1> QED
  BY <1>2, <1>8, <1>9 DEF StartsSound

\* The context of a request that brings versions only.
LEMMA RequestSound ==
  ASSUME NEW ks \in SUBSET {KinVersionHeader, DesiredKinVersionHeader}, NEW v
  PROVE  StartsSound(ClientRequest([k \in ks |-> v]))
<1> DEFINE texts == [k \in ks |-> v]
           md == merge(texts, Transport)
<1>1. Plain(KinVersionHeader) /\ Plain(DesiredKinVersionHeader)
  <2>1. \A stem : ASCIIName(stem).pre = ""
    BY DEF ASCIIName
  <2>2. \A stem : ASCIIName(stem).bin = FALSE
    BY Zenon DEF ASCIIName
  <2> QED
    BY <2>1, <2>2, Zenon DEF Plain, KinVersionHeader, DesiredKinVersionHeader
<1>2. DOMAIN md = ks \cup DOMAIN Transport
  <2>1. DOMAIN texts = ks
    OBVIOUS
  <2>2. DOMAIN md = DOMAIN texts \cup DOMAIN Transport
    BY MergedMap, Zenon
  <2> QED
    BY <2>1, <2>2
<1>3. \A k \in DOMAIN md : Plain(k)
  BY <1>1, <1>2, TransportKeys, Zenon DEF Plain
<1>4. ClientRequest(texts) = getAllHeaders(md)
  BY Zenon DEF ClientRequest
<1> HIDE DEF md
<1>5. KeysFit(md)
  BY <1>3, Zenon DEF KeysFit, Plain
<1>6. \A k \in DOMAIN md : TypeOfKey(k) # "Inbound"
  BY <1>3, KeyTypes, Zenon DEF Plain
<1>7. DOMAIN getAllHeaders(md).maps["Inbound"] = {}
  BY <1>6, ReceivedMap DEF Types
<1> QED
  BY <1>4, <1>5, <1>7, ReceivedSound, Zenon DEF StartsSound

\* Every start of a tree.
LEMMA StartSound == ASSUME NEW c \in StartContexts PROVE StartsSound(c)
<1>1. CASE c = Background
  BY <1>1, EmptySound
<1>2. ASSUME NEW s \in Setters, c = ContextWithHeaders(<<s>>) PROVE StartsSound(c)
  <2>1. <<s>> \in Seq(Setters)
    OBVIOUS
  <2> QED
    BY <1>2, <2>1, SettersSound, Zenon
<1>3. ASSUME NEW r, NEW d, c = WithRoot(ContextWithHeaders(<<>>), r, d) PROVE StartsSound(c)
  <2>1. <<>> \in Seq(Setters) /\ ~\E n \in DOMAIN <<>> : ~(<<>>)[n].ok
    OBVIOUS
  <2>2. HasHeaders(ContextWithHeaders(<<>>))
    BY <2>1, Zenon DEF ContextWithHeaders, HasHeaders
  <2> QED
    BY <1>3, <2>1, <2>2, SettersSound, RootSound, Zenon
<1>4. \/ c = Background
      \/ \E s \in Setters : c = ContextWithHeaders(<<s>>)
      \/ \E r, d : c = WithRoot(ContextWithHeaders(<<>>), r, d)
      \/ \E ks \in SUBSET {KinVersionHeader, DesiredKinVersionHeader}, v \in VersionTexts :
           c = ClientRequest([k \in ks |-> v])
  <2> DEFINE A == {ContextWithHeaders(<<s>>) : s \in Setters}
             B == {WithRoot(ContextWithHeaders(<<>>), r, d) : r \in SUBSET Messages, d \in Payloads}
             R == {ClientRequest([k \in ks |-> v]) :
                     ks \in SUBSET {KinVersionHeader, DesiredKinVersionHeader}, v \in VersionTexts}
  <2>1. c = Background \/ c \in A \/ c \in B \/ c \in R
    <3>1. StartContexts = {Background} \cup A \cup B \cup R
      BY DEF StartContexts
    <3> HIDE DEF A, B, R
    <3> QED
      BY <3>1
  <2>2. c \in A => \E s \in Setters : c = ContextWithHeaders(<<s>>)
    BY Zenon
  <2>3. c \in B => \E r, d : c = WithRoot(ContextWithHeaders(<<>>), r, d)
    BY SMT
  <2>4. c \in R => \E ks \in SUBSET {KinVersionHeader, DesiredKinVersionHeader}, v \in VersionTexts :
                    c = ClientRequest([k \in ks |-> v])
    BY SMT
  <2> HIDE DEF A, B, R
  <2> QED
    BY <2>1, <2>2, <2>3, <2>4, Zenon
<1> QED
  BY <1>1, <1>2, <1>3, <1>4, RequestSound, Zenon
(***************************************************************************)
(* The forms of a step, as far as headers go: a handler sets a header,     *)
(* calls, or a call moves on without a change to what was sent with it.    *)
(***************************************************************************)
Setting(i, c) ==
  /\ Running(i) /\ HasHeaders(ctx[i]) /\ call' = call /\ ctx' = [ctx EXCEPT ![i] = c]
  /\ \/ \E m \in Messages, d \in Payloads \cup {Empty} :
          /\ \/ c = SetHeader(ctx[i], m, d)
             \/ c = SetPropagatingHeader(ctx[i], m, d)
             \/ c = SetHeaderByName(ctx[i], ASCIIName(m), d)
          /\ blanked' = IF d = Empty THEN blanked \cup {m} ELSE blanked
          /\ versioned' = versioned
     \/ \E v \in VersionTexts :
          /\ c = SetASCIIHeader(ctx[i], KinVersionHeader, v)
          /\ blanked' = blanked /\ versioned' = [versioned EXCEPT ![i] = [set |-> TRUE, may |-> {v}]]

Sending(i, r) ==
  /\ Running(i) /\ call' = Append(call, r) /\ ctx' = Append(ctx, Background)
  /\ r.md = Metadata(ctx[i]) /\ r.stage = "sent"
  /\ blanked' = blanked /\ versioned' = Append(versioned, Inherited(i))

Moving(j, r) ==
  /\ call' = [call EXCEPT ![j] = r] /\ r.md = call[j].md
  /\ blanked' = blanked /\ versioned' = versioned
  /\ \/ ctx' = ctx /\ (r.stage = "running" => call[j].stage = "running")
     \/ call[j].stage = "sent" /\ ctx' = [ctx EXCEPT ![j] = getAllHeaders(call[j].md)]

LEMMA StepForms ==
  ASSUME CheckInv, NEW i \in DOMAIN call, Step(i)
  PROVE  (\E c : Setting(i, c)) \/ (\E r : Sending(i, r)) \/ (\E r : Moving(i, r))
<1>1. PICK M : call \in Seq(CallRecords(M))
  BY DEF CheckInv, Shapes
<1>2. call[i] \in CallRecords(M)
  BY <1>1
<1>3. CASE SetBinary(i) \/ SetVersion(i)
  BY <1>3 DEF SetBinary, SetVersion, Store, Setting, HasHeaders
<1>4. CASE ClientSend(i)
  <2>1. PICK stream, req, clientChecks, serverChecks :
          /\ Running(i)
          /\ call' = Append(call,
               [from |-> i, stream |-> stream, req |-> req, md |-> Metadata(ctx[i]),
                clientChecks |-> clientChecks, serverChecks |-> serverChecks,
                stage |-> "sent", got |-> "none", resp |-> "none", code |-> "none"])
          /\ ctx' = Append(ctx, Background)
          /\ blanked' = blanked /\ versioned' = Append(versioned, Inherited(i))
    BY <1>4, Zenon DEF ClientSend
  <2> DEFINE md == Metadata(ctx[i])
             r == [from |-> i, stream |-> stream, req |-> req, md |-> md,
                   clientChecks |-> clientChecks, serverChecks |-> serverChecks,
                   stage |-> "sent", got |-> "none", resp |-> "none", code |-> "none"]
  <2> HIDE DEF md
  <2>2. r.md = md /\ r.stage = "sent"
    OBVIOUS
  <2>3. call' = Append(call, r) /\ ctx' = Append(ctx, Background)
    BY <2>1, Zenon DEF md
  <2> HIDE DEF r
  <2>4. Sending(i, r)
    BY <2>1, <2>2, <2>3, Zenon DEF Sending, md
  <2> QED
    BY <2>4
<1>5. ASSUME NEW code, Reject(i, code), ctx' = ctx, blanked' = blanked, versioned' = versioned
      PROVE  \E r : Moving(i, r)
  <2> DEFINE r == [call[i] EXCEPT !.stage = "replied", !.code = code]
  <2>1. call' = [call EXCEPT ![i] = r]
    BY <1>1, <1>5 DEF Reject
  <2>2. r.md = call[i].md /\ r.stage = "replied"
    BY <1>2, Zenon DEF CallRecords
  <2> HIDE DEF r
  <2>3. Moving(i, r)
    BY <1>5, <2>1, <2>2 DEF Moving
  <2> QED
    BY <2>3
<1>6. CASE UnaryReceive(i)
  <2> DEFINE r == [call[i] EXCEPT !.stage = "running", !.got = call[i].req]
  <2>1. CASE call' = [call EXCEPT ![i] = [@ EXCEPT !.stage = "running", !.got = call[i].req]]
             /\ ctx' = [ctx EXCEPT ![i] = getAllHeaders(call[i].md)]
    <3>1. call' = [call EXCEPT ![i] = r]
      BY <1>1, <2>1
    <3>2. r.md = call[i].md
      BY <1>2, Zenon DEF CallRecords
    <3> HIDE DEF r
    <3>3. Moving(i, r)
      BY <1>6, <2>1, <3>1, <3>2, Zenon DEF Moving, UnaryReceive
    <3> QED
      BY <3>3
  <2> QED
    BY <1>5, <1>6, <2>1 DEF UnaryReceive
<1>7. CASE StreamOpen(i)
  <2> DEFINE r == [call[i] EXCEPT !.stage = "running"]
  <2>1. call' = [call EXCEPT ![i] = r]
    BY <1>1, <1>7 DEF StreamOpen
  <2>2. r.md = call[i].md
    BY <1>2, Zenon DEF CallRecords
  <2> HIDE DEF r
  <2>3. Moving(i, r)
    BY <1>7, <2>1, <2>2, Zenon DEF Moving, StreamOpen
  <2> QED
    BY <2>3
<1>8. CASE StreamRecv(i)
  <2> DEFINE r == [call[i] EXCEPT !.got = call[i].req]
  <2>1. CASE call' = [call EXCEPT ![i] = [@ EXCEPT !.got = call[i].req]]
    <3>1. call' = [call EXCEPT ![i] = r]
      BY <1>1, <2>1
    <3>2. r.md = call[i].md
      BY <1>2, Zenon DEF CallRecords
    <3> HIDE DEF r
    <3>3. Moving(i, r)
      BY <1>8, <3>1, <3>2 DEF Moving, StreamRecv
    <3> QED
      BY <3>3
  <2> QED
    BY <1>5, <1>8, <2>1 DEF StreamRecv
<1>9. CASE HandlerReturn(i)
  <2>1. ASSUME NEW resp,
               call' = [call EXCEPT ![i] =
                          [@ EXCEPT !.stage = "replied", !.code = "OK", !.resp = resp]]
        PROVE  \E r : Moving(i, r)
    <3> DEFINE r == [call[i] EXCEPT !.stage = "replied", !.code = "OK", !.resp = resp]
    <3>1. call' = [call EXCEPT ![i] = r]
      BY <1>1, <2>1
    <3>2. r.md = call[i].md /\ r.stage = "replied"
      BY <1>2, Zenon DEF CallRecords
    <3>3. ctx' = ctx /\ blanked' = blanked /\ versioned' = versioned
      BY <1>9, Zenon DEF HandlerReturn
    <3> HIDE DEF r
    <3>4. Moving(i, r)
      BY <3>1, <3>2, <3>3 DEF Moving
    <3> QED
      BY <3>4
  <2>2. ctx' = ctx /\ blanked' = blanked /\ versioned' = versioned
    BY <1>9, Zenon DEF HandlerReturn
  <2> QED
    BY <1>5, <1>9, <2>1, <2>2, Zenon DEF HandlerReturn
<1>10. CASE ClientReceive(i)
  <2> DEFINE code == IF call[i].clientChecks /\ call[i].resp = "invalid" THEN "Internal"
                     ELSE call[i].code
             r == [call[i] EXCEPT !.stage = "done", !.code = code]
  <2>1. call' = [call EXCEPT ![i] = r] /\ ctx' = ctx /\ blanked' = blanked /\ versioned' = versioned
    BY <1>1, <1>10 DEF ClientReceive
  <2> HIDE DEF code
  <2>2. r.md = call[i].md /\ r.stage = "done"
    BY <1>2, Zenon DEF CallRecords
  <2> HIDE DEF r
  <2>3. Moving(i, r)
    BY <2>1, <2>2 DEF Moving
  <2> QED
    BY <2>3
<1> QED
  BY <1>3, <1>4, <1>6, <1>7, <1>8, <1>9, <1>10 DEF Step
\* The contexts of the tree, and what the interceptors make of what was sent, are
\* the package's, and a handler that runs has the maps.
PropInv ==
  /\ CheckInv
  /\ \A j \in DOMAIN call : Sound(ctx[j])
  /\ \A j \in DOMAIN call \ {1} :
       /\ Sound(getAllHeaders(call[j].md)) /\ HasHeaders(getAllHeaders(call[j].md))
       /\ call[j].stage = "running" => HasHeaders(ctx[j])

\* What a handler's setter does to its context.
SetsOne(c, e) ==
  \E m \in Messages, d \in Payloads \cup {Empty}, t \in {"Outbound", "Propagating"} :
    /\ FindsIn(e, t) = [FindsIn(c, t) EXCEPT ![m] = d]
    /\ \A u \in BinaryTypes \ {t} : FindsIn(e, u) = FindsIn(c, u)
SetsNone(c, e) == \A u \in BinaryTypes : FindsIn(e, u) = FindsIn(c, u)

LEMMA SetEffect ==
  ASSUME NEW i, NEW c, Sound(ctx[i]), Setting(i, c)
  PROVE  Sound(c) /\ HasHeaders(c) /\ (SetsOne(ctx[i], c) \/ SetsNone(ctx[i], c))
<1>1. HasHeaders(ctx[i])
  BY DEF Setting
<1>2. ASSUME NEW m \in Messages, NEW d \in Payloads \cup {Empty},
             NEW t \in {"Outbound", "Propagating"},
             c = setHeader(ctx[i], d, getBinaryHeaderName(m), t)
      PROVE  Sound(c) /\ HasHeaders(c) /\ SetsOne(ctx[i], c)
  <2>1. /\ Sound(c) /\ HasHeaders(c)
        /\ FindsIn(c, t) = [FindsIn(ctx[i], t) EXCEPT ![m] = d]
        /\ \A u \in BinaryTypes \ {t} : FindsIn(c, u) = FindsIn(ctx[i], u)
    BY <1>1, <1>2, SetMessage
  <2> QED
    BY <2>1, Zenon DEF SetsOne
<1>3. ASSUME NEW m, NEW d, NamedSet(ctx[i], c, m, d)
      PROVE  Sound(c) /\ HasHeaders(c) /\ SetsNone(ctx[i], c)
  BY <1>1, <1>3, SetNamed DEF SetsNone
<1>4. ASSUME NEW m \in Messages, NEW d \in Payloads \cup {Empty},
             c = SetHeader(ctx[i], m, d) \/ c = SetPropagatingHeader(ctx[i], m, d)
      PROVE  Sound(c) /\ HasHeaders(c) /\ SetsOne(ctx[i], c)
  BY <1>2, <1>4 DEF SetHeader, SetPropagatingHeader
<1> QED
  BY <1>3, <1>4 DEF Setting, NamedSet

\* The lengths and the elements of the two sequences after a step.
LEMMA Shaped ==
  ASSUME CheckInv
  PROVE  /\ Len(call) \in Nat /\ Len(call) >= 1 /\ Len(ctx) = Len(call)
         /\ DOMAIN call = 1 .. Len(call) /\ DOMAIN ctx = 1 .. Len(call)
BY DEF CheckInv, Shapes

LEMMA ChangedContext ==
  ASSUME CheckInv, NEW i \in DOMAIN call, NEW c, ctx' = [ctx EXCEPT ![i] = c]
  PROVE  /\ Len(ctx') = Len(ctx) /\ ctx'[i] = c
         /\ \A k \in DOMAIN call \ {i} : ctx'[k] = ctx[k]
<1>1. PICK C : ctx \in Seq(C)
  BY DEF CheckInv, Shapes
<1> QED
  BY <1>1 DEF CheckInv, Shapes

LEMMA ChangedCall ==
  ASSUME CheckInv, NEW i \in DOMAIN call, NEW r, call' = [call EXCEPT ![i] = r]
  PROVE  /\ DOMAIN call' = DOMAIN call /\ call'[i] = r
         /\ \A k \in DOMAIN call \ {i} : call'[k] = call[k]
BY DEF CheckInv, Shapes

LEMMA MoreCalls ==
  ASSUME CheckInv, NEW r, call' = Append(call, r), ctx' = Append(ctx, Background)
  PROVE  /\ DOMAIN call' = 1 .. (Len(call) + 1) /\ Len(ctx') = Len(ctx) + 1
         /\ \A k \in DOMAIN call : call'[k] = call[k] /\ ctx'[k] = ctx[k]
         /\ call'[Len(call) + 1] = r /\ ctx'[Len(call) + 1] = Background
<1>1. PICK C : ctx \in Seq(C)
  BY DEF CheckInv, Shapes
<1>2. PICK M : call \in Seq(CallRecords(M))
  BY DEF CheckInv, Shapes
<1> DEFINE D == C \cup {Background}
           N == CallRecords(M) \cup {r}
<1>3. ctx \in Seq(D) /\ Background \in D /\ call \in Seq(N) /\ r \in N
  BY <1>1, <1>2
<1> HIDE DEF D, N
<1> QED
  BY <1>3 DEF CheckInv, Shapes

\* Every step keeps the invariant.
LEMMA PropStep == ASSUME PropInv, [Next]_vars PROVE PropInv'
<1>1. CheckInv /\ CheckInv'
  BY CheckStep DEF PropInv
<1>2. CASE UNCHANGED vars
  BY <1>1, <1>2 DEF vars, PropInv
<1>3. ASSUME NEW i \in DOMAIN call, NEW c, Setting(i, c) PROVE PropInv'
  <2>1. Sound(c) /\ HasHeaders(c)
    BY <1>3, SetEffect DEF PropInv
  <2>2. call' = call /\ ctx'[i] = c /\ \A k \in DOMAIN call \ {i} : ctx'[k] = ctx[k]
    BY <1>1, <1>3, ChangedContext, Zenon DEF Setting
  <2> QED
    BY <1>1, <2>1, <2>2 DEF PropInv
<1>4. ASSUME NEW i \in DOMAIN call, NEW r, Sending(i, r) PROVE PropInv'
  <2>1. /\ DOMAIN call' = 1 .. (Len(call) + 1)
        /\ \A k \in DOMAIN call : call'[k] = call[k] /\ ctx'[k] = ctx[k]
        /\ call'[Len(call) + 1] = r /\ ctx'[Len(call) + 1] = Background
    BY <1>1, <1>4, MoreCalls, Zenon DEF Sending
  <2>2. Sound(Background)
    BY EmptySound DEF StartsSound
  <2>3. /\ Sound(getAllHeaders(r.md)) /\ HasHeaders(getAllHeaders(r.md))
        /\ r.stage # "running"
    <3>1. Sound(Passed(ctx[i])) /\ HasHeaders(Passed(ctx[i]))
      BY PassedSound, Zenon DEF PropInv, HasHeaders
    <3> QED
      BY <1>4, <3>1 DEF Sending, Passed
  <2>4. \A k \in DOMAIN call' : k \in DOMAIN call \/ k = Len(call) + 1
    BY <1>1, <2>1, Shaped
  <2> QED
    BY <1>1, <2>1, <2>2, <2>3, <2>4 DEF PropInv
<1>5. ASSUME NEW j \in DOMAIN call, NEW r, Moving(j, r) PROVE PropInv'
  <2>1. /\ DOMAIN call' = DOMAIN call /\ call'[j] = r
        /\ \A k \in DOMAIN call \ {j} : call'[k] = call[k]
    BY <1>1, <1>5, ChangedCall DEF Moving
  <2>2. CASE ctx' = ctx /\ (r.stage = "running" => call[j].stage = "running")
    BY <1>1, <1>5, <2>1, <2>2 DEF PropInv, Moving
  <2>3. CASE call[j].stage = "sent" /\ ctx' = [ctx EXCEPT ![j] = getAllHeaders(call[j].md)]
    <3>1. ctx'[j] = getAllHeaders(call[j].md) /\ \A k \in DOMAIN call \ {j} : ctx'[k] = ctx[k]
      BY <1>1, <2>3, ChangedContext, Zenon
    <3>2. j # 1
      BY <1>1, <2>3 DEF CheckInv, Shapes
    <3> QED
      BY <1>1, <1>5, <2>1, <3>1, <3>2 DEF PropInv, Moving
  <2> QED
    BY <1>5, <2>2, <2>3 DEF Moving
<1> QED
  BY <1>1, <1>2, <1>3, <1>4, <1>5, StepForms DEF Next
\* Which context a handler has, or will have.
LEMMA ServedIs ==
  ASSUME NEW j
  PROVE  /\ j = 1 \/ HasHeaders(ctx[j]) => Served(j) = ctx[j]
         /\ j # 1 /\ ~HasHeaders(ctx[j]) => Served(j) = getAllHeaders(call[j].md)
BY Zenon DEF Served, HasHeaders

\* A tree starts in the invariant, and every handler is served a context of the
\* package.
LEMMA InitSound == Init => PropInv
<1> SUFFICES ASSUME Init PROVE PropInv
  OBVIOUS
<1>1. PICK c \in StartContexts : ctx = <<c>>
  BY DEF Init
<1>2. CheckInv /\ call = <<Start>>
  BY InitChecked, Zenon DEF Init
<1>3. StartsSound(c)
  BY StartSound
<1>4. DOMAIN call = {1} /\ ctx[1] = c
  BY <1>1, <1>2
<1> QED
  BY <1>2, <1>3, <1>4 DEF PropInv, StartsSound

LEMMA ServedSound ==
  ASSUME PropInv, NEW j \in DOMAIN call
  PROVE  Sound(Served(j))
BY ServedIs DEF PropInv

\* A setter changes what its handler is served with.
LEMMA SettingServes ==
  ASSUME PropInv, NEW i \in DOMAIN call, NEW c, Setting(i, c)
  PROVE  /\ call' = call /\ Len(ctx') = Len(ctx)
         /\ Sound(ctx[i]) /\ Sound(c) /\ HasHeaders(ctx[i]) /\ HasHeaders(c)
         /\ Served(i) = ctx[i] /\ Served(i)' = c
         /\ \A k \in DOMAIN call \ {i} : Served(k)' = Served(k)
<1>1. Sound(ctx[i]) /\ Sound(c) /\ HasHeaders(ctx[i]) /\ HasHeaders(c)
  BY SetEffect, Zenon DEF PropInv, Setting
<1>2. /\ call' = call /\ Len(ctx') = Len(ctx) /\ ctx'[i] = c
      /\ \A k \in DOMAIN call \ {i} : ctx'[k] = ctx[k]
  BY ChangedContext, Zenon DEF PropInv, Setting
<1>3. Served(i) = ctx[i] /\ Served(i)' = c
  BY <1>1, <1>2, Zenon DEF Served, HasHeaders
<1>4. \A k \in DOMAIN call \ {i} : Served(k)' = Served(k)
  BY <1>2, Zenon DEF Served
<1> QED
  BY <1>1, <1>2, <1>3, <1>4

\* A call is served with what its interceptor makes of the caller's context.
LEMMA SendingServes ==
  ASSUME PropInv, NEW i \in DOMAIN call, NEW r, Sending(i, r), NEW n, n = Len(call) + 1
  PROVE  /\ Len(ctx') = n /\ DOMAIN call' = DOMAIN call \cup {n}
         /\ Sound(ctx[i]) /\ Served(i) = ctx[i] /\ Served(n)' = Passed(ctx[i])
         /\ call'[n] = r
         /\ \A k \in DOMAIN call : Served(k)' = Served(k) /\ call'[k] = call[k]
<1>1. CheckInv /\ Len(call) \in Nat /\ Len(call) >= 1 /\ Len(ctx) = Len(call)
  BY Shaped DEF PropInv
<1>2. /\ DOMAIN call' = 1 .. n /\ Len(ctx') = n
      /\ \A k \in DOMAIN call : call'[k] = call[k] /\ ctx'[k] = ctx[k]
      /\ call'[n] = r /\ ctx'[n] = Background
  BY <1>1, MoreCalls DEF Sending
<1>3. n # 1 /\ DOMAIN call' = DOMAIN call \cup {n}
  BY <1>1, <1>2, Shaped
<1>4. ~ctx'[n].init
  <2>1. ~Background.init
    BY Zenon DEF Background
  <2> QED
    BY <1>2, <2>1
<1>5. Served(n)' = getAllHeaders(call'[n].md)
  BY <1>3, <1>4, Zenon DEF Served
<1>6. Served(n)' = Passed(ctx[i])
  BY <1>2, <1>5 DEF Sending, Passed
<1>7. \A k \in DOMAIN call : Served(k)' = Served(k)
  BY <1>2, Zenon DEF Served
<1>8. Sound(ctx[i]) /\ Served(i) = ctx[i]
  BY ServedIs DEF PropInv, Sending, Running
<1> QED
  BY <1>2, <1>3, <1>6, <1>7, <1>8, Zenon

\* No other step changes what a handler is, or will be, served with.
LEMMA MovingServes ==
  ASSUME PropInv, NEW j \in DOMAIN call, NEW r, Moving(j, r)
  PROVE  /\ DOMAIN call' = DOMAIN call /\ Len(ctx') = Len(ctx)
         /\ \A k \in DOMAIN call : Served(k)' = Served(k)
<1>1. /\ CheckInv /\ DOMAIN call' = DOMAIN call
      /\ \A k \in DOMAIN call : call'[k].md = call[k].md
  BY ChangedCall DEF PropInv, Moving
<1>2. CASE ctx' = ctx
  <2>1. \A k \in DOMAIN call : Served(k)' = Served(k)
    BY <1>1, <1>2, Zenon DEF Served
  <2> QED
    BY <1>1, <1>2, <2>1
<1>3. CASE call[j].stage = "sent" /\ ctx' = [ctx EXCEPT ![j] = getAllHeaders(call[j].md)]
  <2>1. /\ ctx'[j] = getAllHeaders(call[j].md) /\ Len(ctx') = Len(ctx)
        /\ \A k \in DOMAIN call \ {j} : ctx'[k] = ctx[k]
    BY <1>1, <1>3, ChangedContext, Zenon
  <2>2. j # 1 /\ Checked(call[j], ctx[j].init)
    BY <1>1, <1>3 DEF CheckInv, Shapes
  <2>3. ~HasHeaders(ctx[j])
    BY <1>3, <2>2, Zenon DEF Checked, HasHeaders
  <2>4. Served(j) = getAllHeaders(call[j].md)
    BY <2>2, <2>3, ServedIs
  <2>5. HasHeaders(getAllHeaders(call[j].md))
    BY <2>2 DEF PropInv
  <2>6. Served(j)' = getAllHeaders(call[j].md)
    BY <2>1, <2>5, Zenon DEF Served, HasHeaders
  <2>7. \A k \in DOMAIN call \ {j} : Served(k)' = Served(k)
    BY <1>1, <2>1, Zenon DEF Served
  <2> QED
    BY <1>1, <2>1, <2>4, <2>6, <2>7
<1> QED
  BY <1>2, <1>3 DEF Moving

\* The views of a tree.
LEMMA ViewsAre ==
  ASSUME CheckInv
  PROVE  /\ Views = [j \in 1 .. Len(call) |-> ViewOf(Served(j))]
         /\ DOMAIN Views = DOMAIN call
         /\ \A j \in DOMAIN call : Views[j] = ViewOf(Served(j))
<1>1. Len(ctx) = Len(call) /\ DOMAIN call = 1 .. Len(call)
  BY Shaped
<1>2. Views = [j \in 1 .. Len(call) |-> ViewOf(Served(j))]
  BY <1>1, Zenon DEF Views
<1> QED
  BY <1>1, <1>2

\* A set of one header is one in the view.
LEMMA SetInView ==
  ASSUME NEW c, NEW e, Sound(c), Sound(e), SetsOne(c, e)
  PROVE  \E m \in Messages, d \in Payloads \cup {Empty} :
           \/ ViewOf(e) = [ViewOf(c) EXCEPT !.propagating = [ViewOf(c).propagating EXCEPT ![m] = d]]
           \/ ViewOf(e) = [ViewOf(c) EXCEPT !.outbound = [ViewOf(c).outbound EXCEPT ![m] = d]]
<1>1. PICK m \in Messages, d \in Payloads \cup {Empty}, t \in {"Outbound", "Propagating"} :
        /\ FindsIn(e, t) = [FindsIn(c, t) EXCEPT ![m] = d]
        /\ \A u \in BinaryTypes \ {t} : FindsIn(e, u) = FindsIn(c, u)
  BY DEF SetsOne
<1>2. CASE t = "Propagating"
  <2>1. ViewOf(e) = [ViewOf(c) EXCEPT !.propagating = [ViewOf(c).propagating EXCEPT ![m] = d]]
    BY <1>1, <1>2, ViewFinds DEF BinaryTypes
  <2> QED
    BY <2>1
<1>3. CASE t = "Outbound"
  <2>1. ViewOf(e) = [ViewOf(c) EXCEPT !.outbound = [ViewOf(c).outbound EXCEPT ![m] = d]]
    BY <1>1, <1>3, ViewFinds DEF BinaryTypes
  <2> QED
    BY <2>1, Zenon
<1> QED
  BY <1>2, <1>3

\* A setter of another header is no change in the view.
LEMMA SameView ==
  ASSUME NEW c, NEW e, Sound(c), Sound(e), SetsNone(c, e)
  PROVE  ViewOf(e) = ViewOf(c)
BY ViewFinds DEF SetsNone, BinaryTypes

\* A sequence with one more element.
LEMMA Appended ==
  ASSUME NEW S, NEW q \in Seq(S), NEW v, NEW n \in Nat, n = Len(q) + 1
  PROVE  Append(q, v) = [j \in 1 .. n |-> IF j = n THEN v ELSE q[j]]
<1> DEFINE T == S \cup {v}
           a == Append(q, v)
           b == [j \in 1 .. n |-> IF j = n THEN v ELSE q[j]]
<1>1. q \in Seq(T) /\ v \in T
  OBVIOUS
<1> HIDE DEF T
<1>2. a \in Seq(T) /\ Len(a) = n /\ \A j \in 1 .. n : a[j] = IF j = n THEN v ELSE q[j]
  BY <1>1
<1>3. b \in Seq(T) /\ Len(b) = n /\ \A j \in 1 .. n : b[j] = IF j = n THEN v ELSE q[j]
  BY <1>1
<1> HIDE DEF a, b
<1>4. a = b
  BY <1>2, <1>3
<1> QED
  BY <1>4 DEF a, b

\* The view of a callee is what the promise says.
LEMMA CalleeView ==
  ASSUME NEW c, Sound(c)
  PROVE  ViewOf(Passed(c)) =
           [root |-> ViewOf(c).root, propagating |-> ViewOf(c).propagating,
            inbound |-> ViewOf(c).outbound, outbound |-> [m \in Messages |-> Absent]]
<1>1. /\ FindsIn(Passed(c), "Root") = FindsIn(c, "Root")
      /\ FindsIn(Passed(c), "Propagating") = FindsIn(c, "Propagating")
      /\ FindsIn(Passed(c), "Inbound") = FindsIn(c, "Outbound")
      /\ FindsIn(Passed(c), "Outbound") = [m \in Messages |-> Absent]
  BY PassedHeaders DEF FindsIn
<1>2. ViewOf(Passed(c)) =
        [root |-> FindsIn(Passed(c), "Root"), propagating |-> FindsIn(Passed(c), "Propagating"),
         inbound |-> FindsIn(Passed(c), "Inbound"), outbound |-> FindsIn(Passed(c), "Outbound")]
  BY PassedSound, ViewFinds, Zenon
<1>3. /\ ViewOf(c).root = FindsIn(c, "Root") /\ ViewOf(c).propagating = FindsIn(c, "Propagating")
      /\ ViewOf(c).outbound = FindsIn(c, "Outbound")
  BY ViewFinds
<1> QED
  BY <1>1, <1>2, <1>3

\* Root and propagating headers reach every service further down, and outbound
\* ones the next service only, in a tree of any size and shape, for any messages
\* and encodings, whatever is set and in whatever order the calls are served.
THEOREM PropagationRefinement == Spec => ImplementsPropagation
<1>1. Init => PropInv /\ Promise!Init
  <2> SUFFICES ASSUME Init PROVE PropInv /\ Promise!Init
    OBVIOUS
  <2>1. PICK c \in StartContexts : ctx = <<c>>
    BY DEF Init
  <2>2. CheckInv /\ call = <<Start>>
    BY InitChecked, Zenon DEF Init
  <2>3. StartsSound(c)
    BY StartSound
  <2>4. Len(call) = 1 /\ DOMAIN call = {1} /\ ctx[1] = c
    BY <2>1, <2>2
  <2>5. PropInv
    BY InitSound
  <2>6. Views = <<ViewOf(c)>>
    <3>1. Views = [j \in 1 .. 1 |-> ViewOf(Served(j))] /\ Served(1) = c
      BY <2>2, <2>4, ViewsAre, ServedIs
    <3> QED
      BY <3>1
  <2>7. ViewOf(c).inbound = Promise!Blank
    <3>1. ViewOf(c).inbound = FindsIn(c, "Inbound")
      BY <2>3, ViewFinds DEF StartsSound
    <3>2. \A m \in Messages : Find(c, "Inbound", m) = Absent
      BY <2>3 DEF Find, StartsSound
    <3> QED
      BY <3>1, <3>2 DEF Promise!Blank, FindsIn
  <2>8. ViewOf(c) \in Promise!View
    <3>1. \A t : FindsIn(c, t) \in Promise!Column
      BY Unmarshalled DEF FindsIn, Find, Promise!Column
    <3> QED
      BY <2>3, <3>1, ViewFinds DEF Promise!View, StartsSound
  <2> QED
    BY <2>5, <2>6, <2>7, <2>8 DEF Promise!Init
<1>2. PropInv /\ [Next]_vars => PropInv'
  BY PropStep
<1>3. PropInv /\ PropInv' /\ [Next]_vars => [Promise!Next]_Views
  <2> SUFFICES ASSUME PropInv, PropInv', [Next]_vars PROVE Promise!Next \/ Views' = Views
    OBVIOUS
  <2>0. /\ CheckInv /\ DOMAIN Views = DOMAIN call
        /\ Views = [j \in 1 .. Len(call) |-> ViewOf(Served(j))]
        /\ \A j \in DOMAIN call : Views[j] = ViewOf(Served(j))
    BY ViewsAre DEF PropInv
  <2>1. Views' = [j \in 1 .. Len(ctx') |-> ViewOf(Served(j)')]
    BY Zenon DEF Views
  <2>3. Len(ctx) = Len(call) /\ DOMAIN call = 1 .. Len(call) /\ Len(call) \in Nat /\ Len(call) >= 1
    BY <2>0, Shaped
  <2>4. ASSUME Len(ctx') = Len(ctx), \A j \in DOMAIN call : Served(j)' = Served(j)
        PROVE  Views' = Views
    BY <2>0, <2>1, <2>3, <2>4
  <2>5. ASSUME NEW i \in DOMAIN call, NEW c, Setting(i, c) PROVE Promise!Next \/ Views' = Views
    <3>1. /\ Len(ctx') = Len(ctx) /\ Sound(ctx[i]) /\ Sound(c)
          /\ Served(i) = ctx[i] /\ Served(i)' = c
          /\ \A k \in DOMAIN call \ {i} : Served(k)' = Served(k)
      BY <2>5, SettingServes
    <3>2. SetsOne(ctx[i], c) \/ SetsNone(ctx[i], c)
      BY <2>5, <3>1, SetEffect
    <3>5. Views' = [Views EXCEPT ![i] = ViewOf(c)] /\ Views[i] = ViewOf(ctx[i])
      BY <2>0, <2>1, <2>3, <3>1, Zenon
    <3>6. CASE SetsNone(ctx[i], c)
      <4>1. ViewOf(c) = ViewOf(ctx[i])
        BY <3>1, <3>6, SameView
      <4> QED
        BY <2>0, <3>5, <4>1
    <3>7. CASE SetsOne(ctx[i], c)
      <4>1. \E m \in Messages, d \in Payloads \cup {Empty} :
              \/ ViewOf(c) = [Views[i] EXCEPT !.propagating = [Views[i].propagating EXCEPT ![m] = d]]
              \/ ViewOf(c) = [Views[i] EXCEPT !.outbound = [Views[i].outbound EXCEPT ![m] = d]]
        BY <3>1, <3>5, <3>7, SetInView
      <4>2. Promise!Set(i)
        BY <3>5, <4>1, Zenon DEF Promise!Set
      <4> QED
        BY <2>0, <4>2, Zenon DEF Promise!Next
    <3> QED
      BY <3>2, <3>6, <3>7
  <2>6. ASSUME NEW i \in DOMAIN call, NEW r, Sending(i, r) PROVE Promise!Next
    <3>0. PICK n \in Nat : n = Len(call) + 1
      BY <2>3
    <3> DEFINE v == ViewOf(Passed(ctx[i]))
    <3>1. /\ Len(ctx') = n /\ Sound(ctx[i]) /\ Served(i) = ctx[i]
          /\ Served(n)' = Passed(ctx[i]) /\ \A k \in DOMAIN call : Served(k)' = Served(k)
      BY <2>6, <3>0, SendingServes, Zenon
    <3>6. Views' = Append(Views, v)
      <4>1. Views' = [j \in 1 .. n |-> ViewOf(Served(j)')]
        BY <2>1, <3>1
      <4>2. Views \in Seq({ViewOf(Served(j)) : j \in DOMAIN call}) /\ Len(Views) = Len(call)
        BY <2>0, <2>3
      <4> HIDE DEF v
      <4>3. Append(Views, v) = [j \in 1 .. n |-> IF j = n THEN v ELSE Views[j]]
        BY <3>0, <4>2, Appended
      <4>4. \A j \in 1 .. n : ViewOf(Served(j)') = IF j = n THEN v ELSE Views[j]
        BY <2>0, <2>3, <3>0, <3>1 DEF v
      <4> QED
        BY <4>1, <4>3, <4>4
    <3>7. v = [root |-> Views[i].root, propagating |-> Views[i].propagating,
               inbound |-> Views[i].outbound, outbound |-> Promise!Blank]
      BY <2>0, <3>1, CalleeView DEF Promise!Blank
    <3> HIDE DEF v
    <3>8. Promise!Call(i)
      BY <3>6, <3>7, Zenon DEF Promise!Call
    <3> QED
      BY <2>0, <3>8, Zenon DEF Promise!Next
  <2>7. ASSUME NEW j \in DOMAIN call, NEW r, Moving(j, r) PROVE Views' = Views
    BY <2>4, <2>7, MovingServes
  <2>8. CASE UNCHANGED vars
    BY <2>8 DEF vars, Views, Served
  <2> QED
    BY <2>0, <2>5, <2>6, <2>7, <2>8, StepForms DEF Next
<1> QED
  BY <1>1, <1>2, <1>3, PTL DEF Spec, ImplementsPropagation, Promise!Spec
-----------------------------------------------------------------------------
(***************************************************************************)
(* Headers of messages that were stored without bytes.                     *)
(***************************************************************************)
\* A store blanks the message of its key, and no other.
LEMMA BlankWith ==
  ASSUME NEW c, Sound(c), NEW t \in Types, NEW k, NEW v
  PROVE  \A m \in BlankIn(With(c, t, k, v)) :
           m \in BlankIn(c) \/ (t # "ASCII" /\ m = k.stem /\ v.data = Empty)
<1> DEFINE e == With(c, t, k, v)
           p == Put(c.maps[t], k, v)
<1>2. DOMAIN p = DOMAIN c.maps[t] \cup {k} /\ \A x \in DOMAIN p : p[x] = IF x = k THEN v ELSE c.maps[t][x]
  BY DEF Put
<1>4. \A u \in Types : e.maps[u] = IF u = t THEN p ELSE c.maps[u]
  BY WithMaps
<1> HIDE DEF p, e
<1>5. ASSUME NEW m \in BlankIn(e) PROVE m \in BlankIn(c) \/ (t # "ASCII" /\ m = k.stem /\ v.data = Empty)
  <2>1. PICK u \in Types \ {"ASCII"} : \E x \in DOMAIN e.maps[u] :
          x.stem = m /\ e.maps[u][x].data = Empty
    BY DEF BlankIn
  <2>0. PICK x \in DOMAIN e.maps[u] : x.stem = m /\ e.maps[u][x].data = Empty
    BY <2>1
  <2>2. CASE u = t /\ x = k
    BY <1>2, <1>4, <2>0, <2>2
  <2>3. CASE ~(u = t /\ x = k)
    <3>1. x \in DOMAIN c.maps[u] /\ c.maps[u][x] = e.maps[u][x]
      BY <1>2, <1>4, <2>0, <2>3
    <3> QED
      BY <2>0, <3>1 DEF BlankIn
  <2> QED
    BY <2>2, <2>3
<1> QED
  BY <1>5 DEF e

\* What is sent is taken from one of the maps, the binary headers from a binary one.
LEMMA SentFrom ==
  ASSUME NEW c, Sound(c), NEW k \in DOMAIN Metadata(c), TypeOfKey(k) # "ASCII"
  PROVE  \E t \in {"Root", "Propagating", "Outbound"} :
           k \in DOMAIN c.maps[t] /\ Metadata(c)[k] = c.maps[t][k].data
<1> DEFINE all == SentMaps(c)
<1>1. /\ DOMAIN Metadata(c) = DOMAIN setAllHeaders(c) \cup DOMAIN Transport
      /\ \A x \in DOMAIN setAllHeaders(c) \ DOMAIN Transport : Metadata(c)[x] = setAllHeaders(c)[x]
  BY MergedMap, Zenon DEF Metadata
<1>2. ~(k.pre = "" /\ k.bin = FALSE)
  BY Zenon DEF TypeOfKey
<1>3. k \notin DOMAIN Transport
  BY <1>2, TransportKeys, Zenon
<1>4. setAllHeaders(c) = [x \in {x \in DOMAIN all : x.stem \notin Reserved} |-> all[x].data]
  BY Zenon DEF setAllHeaders, SentMaps
<1>5. k \in DOMAIN all /\ Metadata(c)[k] = all[k].data
  <2> HIDE DEF all
  <2> QED
    BY <1>1, <1>3, <1>4
<1>6. \A t \in {"Root", "Propagating", "Outbound", "ASCII"} : k \in DOMAIN c.maps[t] => KeyFits(t, k)
  BY DEF Sound, Types
<1>7. k \notin DOMAIN c.maps["ASCII"]
  <2>1. KeyFits("ASCII", k) => k.pre = "" /\ k.bin = FALSE
    BY Zenon DEF KeyFits
  <2> QED
    BY <1>2, <1>6, <2>1, Zenon
<1>8. PICK t \in {"Root", "Propagating", "Outbound"} : k \in DOMAIN c.maps[t]
  BY <1>5, <1>7, MergedMaps
<1>9. \A u \in {"Root", "Propagating", "Outbound", "ASCII"} \ {t} : k \notin DOMAIN c.maps[u]
  BY <1>6, <1>7, <1>8, Zenon DEF KeyFits
<1>10. all[k] = c.maps[t][k]
  BY <1>8, <1>9, MergedMaps
<1> HIDE DEF all
<1> QED
  BY <1>5, <1>8, <1>10

\* A call blanks no header.
LEMMA BlankPassed ==
  ASSUME NEW c, Sound(c)
  PROVE  BlankIn(Passed(c)) \subseteq BlankIn(c)
<1> SUFFICES ASSUME NEW m \in BlankIn(Passed(c)) PROVE m \in BlankIn(c)
  OBVIOUS
<1> DEFINE md == Metadata(c)
<1>0. PICK t \in Types \ {"ASCII"} : \E k \in DOMAIN Passed(c).maps[t] :
        k.stem = m /\ Passed(c).maps[t][k].data = Empty
  BY DEF BlankIn
<1>1. PICK k \in DOMAIN Passed(c).maps[t] : k.stem = m /\ Passed(c).maps[t][k].data = Empty
  BY <1>0
<1>2. k \in DOMAIN md /\ TypeOfKey(k) = t /\ md[k] = Empty
  <2> HIDE DEF md
  <2>1. Passed(c) = getAllHeaders(md)
    BY DEF Passed, md
  <2> QED
    BY <1>1, <2>1, ReceivedMap
<1>3. PICK u \in {"Root", "Propagating", "Outbound"} :
        k \in DOMAIN c.maps[u] /\ c.maps[u][k].data = Empty
  BY <1>1, <1>2, SentFrom
<1>4. m \in Messages /\ u \in Types \ {"ASCII"}
  BY DEF BlankIn, Types
<1> QED
  BY <1>1, <1>3, <1>4 DEF BlankIn

\* How a getter of one map can end.
LEMMA GetterEnds ==
  ASSUME NEW c, Sound(c), NEW m, NEW t \in BinaryTypes
  PROVE  LET g == getHeader(c, getBinaryHeaderName(m), t)
         IN  /\ g.err # "panic"
             /\ g = Got("nil", Empty) =>
                  KeyIn(t, m) \in DOMAIN c.maps[t] /\ c.maps[t][KeyIn(t, m)].data = Empty
<1> DEFINE g == getHeader(c, getBinaryHeaderName(m), t)
           h == c.maps[t]
           k == KeyIn(t, m)
<1>1. t \in Types /\ t # "ASCII" /\ c.init \in BOOLEAN
  BY DEF BinaryTypes, Types, Sound
<1>2. \A err, d : Got(err, d).err = err
  BY DEF Got
<1>3. \/ g = Got("not initialised", Absent)
      \/ g = Got("header not found", Absent)
      \/ k \in DOMAIN h /\ g = Unmarshal(h[k].data)
  <2>1. CASE ~c.init
    BY <2>1, Zenon DEF getHeader
  <2>2. CASE c.init /\ k \notin DOMAIN h
    BY <2>2, Zenon DEF getHeader, KeyIn
  <2>3. CASE c.init /\ k \in DOMAIN h
    <3>1. h[k].kind = "bytes"
      BY <1>1, <2>3 DEF Sound, ValueFits
    <3> QED
      BY <2>3, <3>1, Zenon DEF getHeader, KeyIn
  <2> QED
    BY <1>1, <2>1, <2>2, <2>3, Zenon
<1>4. Unmarshal(h[k].data) \in {Got("nil", h[k].data), Got("unmarshal", Absent)}
  BY Zenon DEF Unmarshal
<1> HIDE DEF g, h, k
<1>5. \/ g.err \in {"not initialised", "header not found", "unmarshal"}
      \/ g.err = "nil" /\ g.data = h[k].data /\ k \in DOMAIN h
  <2>1. CASE k \in DOMAIN h /\ g = Unmarshal(h[k].data)
    <3>1. g = Got("nil", h[k].data) \/ g = Got("unmarshal", Absent)
      BY <1>4, <2>1
    <3>2. \A d : g = Got("nil", d) => g.err = "nil" /\ g.data = d
      BY <1>2, GotData, Zenon
    <3>3. g = Got("unmarshal", Absent) => g.err = "unmarshal"
      BY <1>2, Zenon
    <3> QED
      BY <2>1, <3>1, <3>2, <3>3, Zenon
  <2> QED
    BY <1>2, <1>3, <2>1, Zenon
<1>6. g.err # "panic"
  BY <1>5, Zenon
<1>7. g = Got("nil", Empty) => g.err = "nil" /\ g.data = Empty
  BY <1>2, GotData, Zenon
<1>8. g = Got("nil", Empty) => k \in DOMAIN h /\ h[k].data = Empty
  BY <1>5, <1>7, Zenon
<1> QED
  BY <1>6, <1>8 DEF g, h, k

\* A panic is over a message of defaults in one of the three maps.
LEMMA PanicBlank ==
  ASSUME NEW c, Sound(c), NEW m \in Messages,
         GetAnyBinaryHeaderByName(c, getBinaryHeaderName(m)).err = "panic"
  PROVE  m \in BlankIn(c)
<1> DEFINE order == <<"Root", "Inbound", "Propagating">>
           found(n) == getHeader(c, getBinaryHeaderName(m), order[n])
           stops == {n \in 1 .. 3 : found(n).err # "header not found"}
           first == CHOOSE k \in stops : \A l \in stops : k <= l
           any == GetAnyBinaryHeaderByName(c, getBinaryHeaderName(m))
<1>1. \A err, d : Got(err, d).err = err
  BY DEF Got
<1>2. \A n \in 1 .. 3 : order[n] \in {"Root", "Inbound", "Propagating"}
  OBVIOUS
<1>3. any = CASE stops = {} -> Got("not found in any", Absent)
              [] stops # {} /\ found(first) = Got("nil", Empty) -> Got("panic", Absent)
              [] OTHER -> found(first)
  BY Zenon DEF GetAnyBinaryHeaderByName
<1> HIDE DEF order, found, any
<1>4. stops # {} => first \in 1 .. 3
  <2>1. stops \subseteq 1 .. 3
    BY Zenon
  <2> HIDE DEF stops
  <2>2. ASSUME stops # {} PROVE \E k \in stops : \A l \in stops : k <= l
    <3>1. CASE 1 \in stops
      BY <2>1, <3>1
    <3>2. CASE 1 \notin stops /\ 2 \in stops
      BY <2>1, <3>2
    <3>3. CASE stops = {3}
      BY <3>3
    <3>4. 1 .. 3 = {1, 2, 3}
      OBVIOUS
    <3> QED
      BY <2>1, <2>2, <3>1, <3>2, <3>3, <3>4, Zenon
  <2> QED
    BY <2>1, <2>2, Zenon
<1> HIDE DEF stops, first
<1>5. stops # {}
  <2>1. any.err = "panic"
    BY DEF any
  <2>2. stops = {} => any = Got("not found in any", Absent)
    BY <1>3, Zenon
  <2>3. stops = {} => any.err = "not found in any"
    BY <1>1, <2>2, Zenon
  <2> QED
    BY <2>1, <2>3
<1>6. found(first).err # "panic"
  BY <1>2, <1>4, <1>5, GetterEnds DEF found, BinaryTypes
<1>7. found(first) = Got("nil", Empty)
  BY <1>3, <1>5, <1>6, Zenon DEF any
<1> DEFINE t == order[first]
<1>8. t \in {"Root", "Inbound", "Propagating"}
  BY <1>2, <1>4, <1>5
<1> HIDE DEF t
<1>9. KeyIn(t, m) \in DOMAIN c.maps[t] /\ c.maps[t][KeyIn(t, m)].data = Empty
  BY <1>7, <1>8, GetterEnds DEF found, BinaryTypes, t
<1>10. KeyIn(t, m).stem = m
  BY KeyParts, Zenon
<1> QED
  BY <1>8, <1>9, <1>10 DEF BlankIn, Types
\* What is blank where a handler looks was stored so.
BlankInv == PropInv /\ \A j \in DOMAIN call : BlankIn(Served(j)) \subseteq blanked

\* A setter stores one header, and the history records it.
StoresMessage(i, c) ==
  \E m \in Messages, d \in Payloads \cup {Empty}, t \in {"Outbound", "Propagating"} :
    /\ \E k : KeyFits(t, k) /\ k.stem = m /\ c = With(ctx[i], t, k, Bytes(d))
    /\ blanked' = IF d = Empty THEN blanked \cup {m} ELSE blanked
    /\ versioned' = versioned
StoresVersion(i, c) ==
  \E v :
    /\ c = With(ctx[i], "ASCII", KinVersionHeader, Text(v))
    /\ blanked' = blanked /\ versioned' = [versioned EXCEPT ![i] = [set |-> TRUE, may |-> {v}]]

LEMMA SettingStores ==
  ASSUME NEW i, NEW c, Setting(i, c)
  PROVE  StoresMessage(i, c) \/ StoresVersion(i, c)
<1>1. HasHeaders(ctx[i])
  BY DEF Setting
<1>2. ASSUME NEW v, c = SetASCIIHeader(ctx[i], KinVersionHeader, v)
      PROVE  c = With(ctx[i], "ASCII", KinVersionHeader, Text(v))
  BY <1>1, <1>2, VersionKeys, Zenon DEF SetASCIIHeader, HasHeaders
<1>3. ASSUME NEW m \in Messages, NEW d \in Payloads \cup {Empty},
             \/ c = SetHeader(ctx[i], m, d)
             \/ c = SetPropagatingHeader(ctx[i], m, d)
             \/ c = SetHeaderByName(ctx[i], ASCIIName(m), d)
      PROVE  \E t \in {"Outbound", "Propagating"} : \E k :
               KeyFits(t, k) /\ k.stem = m /\ c = With(ctx[i], t, k, Bytes(d))
  <2> DEFINE k == getPrefixedHeaderName(ASCIIName(m), "Outbound")
  <2>1. \/ c = With(ctx[i], "Outbound", KeyIn("Outbound", m), Bytes(d))
        \/ c = With(ctx[i], "Propagating", KeyIn("Propagating", m), Bytes(d))
        \/ c = With(ctx[i], "Outbound", k, Bytes(d))
    BY <1>1, <1>3, Zenon
       DEF SetHeader, SetPropagatingHeader, SetHeaderByName, setHeader, KeyIn, HasHeaders
  <2>2. \A t \in {"Outbound", "Propagating"} : KeyFits(t, KeyIn(t, m)) /\ KeyIn(t, m).stem = m
    BY KeyParts, MessageKeyFits, Zenon
  <2>3. KeyFits("Outbound", k) /\ k.stem = m
    BY NamedKey, Zenon DEF KeyFits, Plain
  <2> HIDE DEF k
  <2> QED
    BY <2>1, <2>2, <2>3
<1>4. CASE \E m \in Messages, d \in Payloads \cup {Empty} :
             /\ \/ c = SetHeader(ctx[i], m, d)
                \/ c = SetPropagatingHeader(ctx[i], m, d)
                \/ c = SetHeaderByName(ctx[i], ASCIIName(m), d)
             /\ blanked' = IF d = Empty THEN blanked \cup {m} ELSE blanked
             /\ versioned' = versioned
  BY <1>3, <1>4, Zenon DEF StoresMessage
<1> QED
  BY <1>2, <1>4 DEF Setting, StoresVersion

\* What a setter blanks is recorded.
LEMMA BlankSet ==
  ASSUME NEW i, NEW c, Sound(ctx[i]), StoresMessage(i, c) \/ StoresVersion(i, c)
  PROVE  BlankIn(c) \subseteq BlankIn(ctx[i]) \cup blanked' /\ blanked \subseteq blanked'
<1>1. CASE StoresVersion(i, c)
  <2>1. PICK v : c = With(ctx[i], "ASCII", KinVersionHeader, Text(v)) /\ blanked' = blanked
    BY <1>1 DEF StoresVersion
  <2>2. "ASCII" \in Types
    BY DEF Types
  <2> QED
    BY <2>1, <2>2, BlankWith
<1>2. CASE StoresMessage(i, c)
  <2>1. PICK m \in Messages, d \in Payloads \cup {Empty}, t \in {"Outbound", "Propagating"} :
          /\ \E k : KeyFits(t, k) /\ k.stem = m /\ c = With(ctx[i], t, k, Bytes(d))
          /\ blanked' = IF d = Empty THEN blanked \cup {m} ELSE blanked
    BY <1>2 DEF StoresMessage
  <2>0. PICK k : k.stem = m /\ c = With(ctx[i], t, k, Bytes(d))
    BY <2>1
  <2>2. t \in Types /\ Bytes(d).data = d
    BY DEF Bytes, Types
  <2>3. \A x \in BlankIn(c) : x \in BlankIn(ctx[i]) \/ (x = m /\ d = Empty)
    BY <2>0, <2>2, BlankWith
  <2> QED
    BY <2>1, <2>3
<1> QED
  BY <1>1, <1>2

LEMMA BlankStep == ASSUME BlankInv, [Next]_vars PROVE BlankInv'
<1>1. PropInv /\ PropInv' /\ CheckInv
  BY PropStep DEF BlankInv, PropInv
<1>2. ASSUME NEW i \in DOMAIN call, NEW c, Setting(i, c) PROVE BlankInv'
  <2>1. /\ call' = call /\ Sound(ctx[i]) /\ HasHeaders(ctx[i])
        /\ Served(i) = ctx[i] /\ Served(i)' = c
        /\ \A k \in DOMAIN call \ {i} : Served(k)' = Served(k)
    BY <1>1, <1>2, SettingServes
  <2>2. BlankIn(c) \subseteq BlankIn(ctx[i]) \cup blanked' /\ blanked \subseteq blanked'
    BY <1>2, <2>1, SettingStores, BlankSet
  <2> QED
    BY <1>1, <2>1, <2>2 DEF BlankInv
<1>3. ASSUME NEW i \in DOMAIN call, NEW r, Sending(i, r) PROVE BlankInv'
  <2>0. PICK n : n = Len(call) + 1
    OBVIOUS
  <2>1. /\ DOMAIN call' = DOMAIN call \cup {n} /\ Sound(ctx[i]) /\ Served(i) = ctx[i] /\ Served(n)' = Passed(ctx[i])
        /\ \A k \in DOMAIN call : Served(k)' = Served(k)
    BY <1>1, <1>3, <2>0, SendingServes
  <2>3. BlankIn(Passed(ctx[i])) \subseteq BlankIn(ctx[i]) /\ blanked' = blanked
    BY <1>3, <2>1, BlankPassed DEF Sending
  <2> QED
    BY <1>1, <2>1, <2>3 DEF BlankInv
<1>4. ASSUME NEW j \in DOMAIN call, NEW r, Moving(j, r) PROVE BlankInv'
  <2>1. DOMAIN call' = DOMAIN call /\ \A k \in DOMAIN call : Served(k)' = Served(k)
    BY <1>1, <1>4, MovingServes
  <2>2. blanked' = blanked
    BY <1>4 DEF Moving
  <2> QED
    BY <1>1, <2>1, <2>2 DEF BlankInv
<1>5. CASE UNCHANGED vars
  BY <1>1, <1>5 DEF vars, BlankInv, Served
<1> QED
  BY <1>1, <1>2, <1>3, <1>4, <1>5, StepForms DEF Next

\* GetAnyBinaryHeader panics only over a message that was stored without bytes.
THEOREM PanicsExplained == Spec => []PanicsOnlyOnEmptyHeader
<1>1. Init => BlankInv
  <2> SUFFICES ASSUME Init PROVE BlankInv
    OBVIOUS
  <2>1. PropInv
    BY InitSound
  <2>2. DOMAIN call = {1} /\ ctx[1] \in StartContexts /\ blanked = BlankIn(ctx[1])
    BY DEF Init
  <2>3. Served(1) = ctx[1]
    BY ServedIs
  <2> QED
    BY <2>1, <2>2, <2>3 DEF BlankInv
<1>2. BlankInv /\ [Next]_vars => BlankInv'
  BY BlankStep
<1>3. BlankInv => PanicsOnlyOnEmptyHeader
  <2> SUFFICES ASSUME BlankInv, NEW j \in DOMAIN call, NEW m \in Messages,
                      GetAnyBinaryHeaderByName(Served(j), getBinaryHeaderName(m)).err = "panic"
               PROVE  m \in blanked
    BY DEF PanicsOnlyOnEmptyHeader
  <2>1. Sound(Served(j))
    BY ServedSound DEF BlankInv
  <2> QED
    BY <2>1, PanicBlank DEF BlankInv
<1> QED
  BY <1>1, <1>2, <1>3, PTL DEF Spec
-----------------------------------------------------------------------------
(***************************************************************************)
(* The version headers.                                                    *)
(***************************************************************************)
\* The text of an ASCII header in a context.
TextAt(c, k) == IF k \in DOMAIN c.maps["ASCII"] THEN c.maps["ASCII"][k].data ELSE Empty

VersionHeaders == {KinVersionHeader, DesiredKinVersionHeader}

LEMMA VersionNames ==
  /\ \A k \in VersionHeaders : Plain(k) /\ k.stem \notin Messages \cup Reserved
  /\ KinVersionHeader # DesiredKinVersionHeader
<1>1. \A stem : ASCIIName(stem).pre = "" /\ ASCIIName(stem).stem = stem
  BY DEF ASCIIName
<1>2. \A stem : ASCIIName(stem).bin = FALSE
  BY Zenon DEF ASCIIName
<1>3. KinVersionHeader.stem = "kin-version" /\ DesiredKinVersionHeader.stem = "desired-kin-version"
  BY <1>1, Zenon DEF KinVersionHeader, DesiredKinVersionHeader
<1>4. Plain(KinVersionHeader) /\ Plain(DesiredKinVersionHeader)
  BY <1>1, <1>2, Zenon DEF Plain, KinVersionHeader, DesiredKinVersionHeader
<1> QED
  BY <1>3, <1>4, VersionAssumption DEF VersionHeaders, Reserved

\* What GetASCIIHeaderByName returns.
LEMMA GetsText ==
  ASSUME NEW c, Sound(c), HasHeaders(c), NEW k
  PROVE  GetASCIIHeaderByName(c, k) = Got("nil", TextAt(c, k))
<1> DEFINE h == c.maps["ASCII"]
<1>1. k \in DOMAIN h => h[k].kind = "string"
  BY DEF Sound, ValueFits, Types
<1>2. CASE k \in DOMAIN h
  BY <1>1, <1>2, Zenon DEF GetASCIIHeaderByName, HasHeaders, TextAt
<1>3. CASE k \notin DOMAIN h
  BY <1>3, Zenon DEF GetASCIIHeaderByName, HasHeaders, TextAt
<1> QED
  BY <1>2, <1>3

\* A callee has the caller's version headers.
LEMMA PassedText ==
  ASSUME NEW c, Sound(c), NEW k \in VersionHeaders
  PROVE  TextAt(Passed(c), k) = TextAt(c, k)
<1> DEFINE all == SentMaps(c)
           md == Metadata(c)
           h == c.maps["ASCII"]
<1>1. Plain(k) /\ k.stem \notin Messages \cup Reserved
  BY VersionNames
<1>2. k \notin DOMAIN Transport
  <2>1. DOMAIN Transport = {ASCIIName("user-agent")} /\ ASCIIName("user-agent").stem = "user-agent"
    BY DEF Transport, ASCIIName
  <2> QED
    BY <1>1, <2>1 DEF Reserved
<1>3. \A t \in {"Root", "Propagating", "Outbound"} : k \notin DOMAIN c.maps[t]
  <2>1. \A t \in Types : k \in DOMAIN c.maps[t] => KeyFits(t, k)
    BY DEF Sound
  <2> QED
    BY <1>1, <2>1, Zenon DEF Types, KeyFits, Plain
<1>4. setAllHeaders(c) = [x \in {x \in DOMAIN all : x.stem \notin Reserved} |-> all[x].data]
  BY Zenon DEF setAllHeaders, SentMaps
<1>5. /\ k \in DOMAIN all <=> k \in DOMAIN h
      /\ k \in DOMAIN h => all[k] = h[k]
  BY <1>3, MergedMaps
<1>6. /\ DOMAIN md = DOMAIN setAllHeaders(c) \cup DOMAIN Transport
      /\ \A x \in DOMAIN setAllHeaders(c) \ DOMAIN Transport : md[x] = setAllHeaders(c)[x]
  BY MergedMap, Zenon DEF Metadata
<1> HIDE DEF all, md, h
<1>7. /\ k \in DOMAIN md <=> k \in DOMAIN h
      /\ k \in DOMAIN h => md[k] = h[k].data
  BY <1>1, <1>2, <1>4, <1>5, <1>6
<1>8. TypeOfKey(k) = "ASCII" /\ "ASCII" \in Types
  <2>1. TypeOfKey(k) = "ASCII"
    BY <1>1, Zenon DEF TypeOfKey, Plain
  <2> QED
    BY <2>1 DEF Types
<1> DEFINE g == getAllHeaders(md).maps["ASCII"]
<1>9. /\ k \in DOMAIN g <=> k \in DOMAIN md
      /\ k \in DOMAIN g => g[k].data = md[k]
  BY <1>8, ReceivedMap
<1> HIDE DEF g
<1>10. TextAt(Passed(c), k) = IF k \in DOMAIN g THEN g[k].data ELSE Empty
  BY DEF TextAt, Passed, g, md
<1>11. TextAt(c, k) = IF k \in DOMAIN h THEN h[k].data ELSE Empty
  BY DEF TextAt, h
<1> QED
  BY <1>7, <1>9, <1>10, <1>11

\* A setter changes no version header but the one it is asked to.
LEMMA SetTexts ==
  ASSUME NEW i, NEW c, Sound(ctx[i]), StoresMessage(i, c) \/ StoresVersion(i, c)
  PROVE  /\ TextAt(c, DesiredKinVersionHeader) = TextAt(ctx[i], DesiredKinVersionHeader)
         /\ \/ /\ TextAt(c, KinVersionHeader) = TextAt(ctx[i], KinVersionHeader)
               /\ versioned' = versioned
            \/ versioned' = [versioned EXCEPT ![i] = [set |-> TRUE,
                                                      may |-> {TextAt(c, KinVersionHeader)}]]
<1>1. "ASCII" \in Types
  BY DEF Types
<1>2. CASE StoresVersion(i, c)
  <2>1. PICK v : /\ c = With(ctx[i], "ASCII", KinVersionHeader, Text(v))
                 /\ versioned' = [versioned EXCEPT ![i] = [set |-> TRUE, may |-> {v}]]
    BY <1>2, Zenon DEF StoresVersion
  <2> DEFINE p == Put(ctx[i].maps["ASCII"], KinVersionHeader, Text(v))
  <2>2. c.maps["ASCII"] = p
    <3> DEFINE e == With(ctx[i], "ASCII", KinVersionHeader, Text(v))
    <3>1. \A u \in Types : e.maps[u] = IF u = "ASCII" THEN p ELSE ctx[i].maps[u]
      BY ONLY Sound(ctx[i]), <1>1, WithMaps
    <3> HIDE DEF p, e
    <3>2. e.maps["ASCII"] = p
      BY ONLY <1>1, <3>1
    <3> QED
      BY <2>1, <3>2, Zenon DEF e
  <2>3. \A x : x # KinVersionHeader =>
          /\ x \in DOMAIN p <=> x \in DOMAIN ctx[i].maps["ASCII"]
          /\ x \in DOMAIN p => p[x] = ctx[i].maps["ASCII"][x]
    BY DEF Put
  <2>4. KinVersionHeader \in DOMAIN p /\ p[KinVersionHeader].data = v
    BY DEF Put, Text
  <2> HIDE DEF p
  <2>5. TextAt(c, KinVersionHeader) = v
    BY <2>2, <2>4 DEF TextAt
  <2>6. TextAt(c, DesiredKinVersionHeader) = TextAt(ctx[i], DesiredKinVersionHeader)
    BY <2>2, <2>3, VersionNames DEF TextAt
  <2> QED
    BY <2>1, <2>5, <2>6, Zenon
<1>3. CASE StoresMessage(i, c)
  <2>1. PICK m \in Messages, d \in Payloads \cup {Empty}, t \in {"Outbound", "Propagating"} :
          (\E k : c = With(ctx[i], t, k, Bytes(d))) /\ versioned' = versioned
    BY <1>3 DEF StoresMessage
  <2>2. PICK k : c = With(ctx[i], t, k, Bytes(d))
    BY <2>1
  <2>3. t \in Types
    BY DEF Types
  <2>4. c.maps["ASCII"] = ctx[i].maps["ASCII"]
    BY <1>1, <2>2, <2>3, WithMaps
  <2> QED
    BY <2>1, <2>4 DEF TextAt
<1> QED
  BY <1>2, <1>3

\* Every handler is served a text of the Kin version that it may find, and the
\* desired version of the start.
VersionInv ==
  /\ PropInv
  /\ (\E V : versioned \in Seq(V)) /\ Len(versioned) = Len(call)
  /\ \A j \in DOMAIN call :
       /\ TextAt(Served(j), KinVersionHeader) \in versioned[j].may
       /\ TextAt(Served(j), DesiredKinVersionHeader) = TextAt(Served(1), DesiredKinVersionHeader)

LEMMA VersionStep == ASSUME VersionInv, [Next]_vars PROVE VersionInv'
<1>1. PropInv /\ PropInv' /\ CheckInv /\ 1 \in DOMAIN call
  <2>1. PropInv /\ PropInv' /\ CheckInv
    BY PropStep DEF VersionInv, PropInv
  <2> QED
    BY <2>1, Shaped
<1>2. PICK V : versioned \in Seq(V)
  BY DEF VersionInv
<1>3. Len(versioned) = Len(call) /\ Len(call) \in Nat /\ DOMAIN call = 1 .. Len(call)
  BY <1>1, Shaped DEF VersionInv
<1>4. ASSUME NEW i \in DOMAIN call, NEW c, Setting(i, c) PROVE VersionInv'
  <2>1. /\ call' = call /\ Sound(ctx[i]) /\ HasHeaders(ctx[i])
        /\ Served(i) = ctx[i] /\ Served(i)' = c
        /\ \A k \in DOMAIN call \ {i} : Served(k)' = Served(k)
    BY <1>1, <1>4, SettingServes
  <2> DEFINE w == [set |-> TRUE, may |-> {TextAt(c, KinVersionHeader)}]
             W == V \cup {w}
  <2>2. /\ TextAt(c, DesiredKinVersionHeader) = TextAt(ctx[i], DesiredKinVersionHeader)
        /\ \/ /\ TextAt(c, KinVersionHeader) = TextAt(ctx[i], KinVersionHeader)
              /\ versioned' = versioned
           \/ versioned' = [versioned EXCEPT ![i] = w]
    BY <1>4, <2>1, SettingStores, SetTexts
  <2>3. TextAt(c, KinVersionHeader) \in w.may
    OBVIOUS
  <2> HIDE DEF w
  <2>4. ASSUME NEW j \in DOMAIN call
        PROVE  TextAt(Served(j)', DesiredKinVersionHeader) = TextAt(Served(j), DesiredKinVersionHeader)
    BY <2>1, <2>2
  <2>5. versioned \in Seq(W) /\ w \in W
    BY <1>2
  <2> HIDE DEF W
  <2>6. versioned' \in Seq(W) /\ Len(versioned') = Len(call')
    BY <1>3, <2>1, <2>2, <2>5
  <2>7. ASSUME NEW j \in DOMAIN call PROVE TextAt(Served(j)', KinVersionHeader) \in versioned'[j].may
    <3>1. TextAt(Served(j), KinVersionHeader) \in versioned[j].may
      BY DEF VersionInv
    <3>2. CASE versioned' = [versioned EXCEPT ![i] = w]
      <4>1. versioned'[j] = IF j = i THEN w ELSE versioned[j]
        BY <1>3, <2>5, <3>2
      <4> QED
        BY <2>1, <2>3, <3>1, <4>1
    <3>3. CASE TextAt(c, KinVersionHeader) = TextAt(ctx[i], KinVersionHeader) /\ versioned' = versioned
      BY <2>1, <3>1, <3>3
    <3> QED
      BY <2>2, <3>2, <3>3
  <2> QED
    BY <1>1, <2>1, <2>4, <2>6, <2>7 DEF VersionInv
<1>5. ASSUME NEW i \in DOMAIN call, NEW r, Sending(i, r) PROVE VersionInv'
  <2>1. PICK n : n = Len(call) + 1
    OBVIOUS
  <2>2. /\ DOMAIN call' = DOMAIN call \cup {n} /\ Sound(ctx[i]) /\ Served(i) = ctx[i]
        /\ Served(n)' = Passed(ctx[i])
        /\ \A k \in DOMAIN call : Served(k)' = Served(k)
    BY <1>1, <1>5, <2>1, SendingServes, Zenon
  <2>3. \A k \in VersionHeaders : TextAt(Served(n)', k) = TextAt(Served(i), k)
    BY <2>2, PassedText
  <2>4. versioned[i].may \subseteq Inherited(i).may
    BY DEF Inherited
  <2> DEFINE w == Inherited(i)
             W == V \cup {w}
  <2>5. versioned \in Seq(W) /\ w \in W
    BY <1>2
  <2>6. versioned' = Append(versioned, w) /\ Len(call') = Len(call) + 1
    <3>1. PICK M : call \in Seq(CallRecords(M))
      BY <1>1 DEF CheckInv, Shapes
    <3> QED
      BY <1>5, <3>1 DEF Sending
  <2> HIDE DEF w, W
  <2>7. /\ versioned' \in Seq(W) /\ Len(versioned') = Len(call')
        /\ versioned'[n] = w /\ \A k \in DOMAIN call : versioned'[k] = versioned[k]
    BY <1>3, <2>1, <2>5, <2>6
  <2>8. /\ TextAt(Served(n)', KinVersionHeader) \in versioned'[n].may
        /\ TextAt(Served(n)', DesiredKinVersionHeader) = TextAt(Served(1)', DesiredKinVersionHeader)
    BY <1>1, <2>2, <2>3, <2>4, <2>7 DEF VersionInv, VersionHeaders, w
  <2>9. ASSUME NEW k \in DOMAIN call
        PROVE  /\ TextAt(Served(k)', KinVersionHeader) \in versioned'[k].may
               /\ TextAt(Served(k)', DesiredKinVersionHeader) = TextAt(Served(1)', DesiredKinVersionHeader)
    BY <1>1, <2>2, <2>7 DEF VersionInv
  <2> QED
    BY <1>1, <2>2, <2>7, <2>8, <2>9 DEF VersionInv
<1>6. ASSUME NEW j \in DOMAIN call, NEW r, Moving(j, r) PROVE VersionInv'
  <2>1. DOMAIN call' = DOMAIN call /\ \A k \in DOMAIN call : Served(k)' = Served(k)
    BY <1>1, <1>6, MovingServes
  <2>2. versioned' = versioned
    BY <1>6 DEF Moving
  <2>3. Len(call') = Len(call)
    <3>1. PICK M : call \in Seq(CallRecords(M))
      BY <1>1 DEF CheckInv, Shapes
    <3> QED
      BY <1>6, <3>1 DEF Moving
  <2> QED
    BY <1>1, <2>1, <2>2, <2>3 DEF VersionInv
<1>7. CASE UNCHANGED vars
  BY <1>1, <1>7 DEF vars, VersionInv, Served
<1> QED
  BY <1>1, <1>4, <1>5, <1>6, <1>7, StepForms DEF Next

\* In a tree of any size, a service reads the Kin version that its caller set before
\* the call, and otherwise the default or what was sent from above; the desired
\* version it reads is that of the start.
THEOREM VersionsArrive == Spec => []VersionArrives
<1>1. Init => VersionInv
  <2> SUFFICES ASSUME Init PROVE VersionInv
    OBVIOUS
  <2>1. PropInv /\ CheckInv
    BY InitSound DEF PropInv
  <2>2. DOMAIN call = {1} /\ Len(call) = 1
    BY DEF Init
  <2>3. PICK c : /\ ctx = <<c>>
                 /\ versioned = <<[set |-> FALSE, may |-> {GetASCIIHeaderByName(c, KinVersionHeader).data}]>>
    BY Zenon DEF Init
  <2> DEFINE w == [set |-> FALSE, may |-> {GetASCIIHeaderByName(c, KinVersionHeader).data}]
  <2>4. w.may = {GetASCIIHeaderByName(c, KinVersionHeader).data}
    OBVIOUS
  <2> HIDE DEF w
  <2>5. versioned \in Seq({w}) /\ Len(versioned) = 1 /\ versioned[1] = w
    BY <2>3 DEF w
  <2>6. Served(1) = c /\ Sound(c)
    <3>1. ctx[1] = c
      BY ONLY <2>3
    <3>2. Served(1) = ctx[1]
      BY ServedIs, Zenon
    <3>3. Sound(ctx[1])
      BY <2>1, <2>2 DEF PropInv
    <3> QED
      BY ONLY <3>1, <3>2, <3>3, Zenon
  <2>7. GetASCIIHeaderByName(c, KinVersionHeader).data = TextAt(c, KinVersionHeader)
    <3>1. \A e, d : Got(e, d).data = d
      BY DEF Got
    <3>2. CASE HasHeaders(c)
      BY <2>6, <3>1, <3>2, GetsText
    <3>3. CASE ~HasHeaders(c)
      <4>1. GetASCIIHeaderByName(c, KinVersionHeader) = Got("not initialised", Empty)
        BY <3>3, Zenon DEF GetASCIIHeaderByName, HasHeaders
      <4>2. "ASCII" \in Types
        BY DEF Types
      <4>3. DOMAIN c.maps["ASCII"] = {}
        BY <2>6, <3>3, <4>2 DEF Sound, HasHeaders
      <4> QED
        BY <3>1, <4>1, <4>3, Zenon DEF TextAt
    <3> QED
      BY <3>2, <3>3
  <2> QED
    BY <2>1, <2>2, <2>4, <2>5, <2>6, <2>7 DEF VersionInv
<1>2. VersionInv /\ [Next]_vars => VersionInv'
  BY VersionStep
<1>3. VersionInv => VersionArrives
  <2> SUFFICES ASSUME VersionInv, NEW j \in DOMAIN call \ {1}
               PROVE  /\ GetCtxKinVersion(Served(j)) \in {VersionOf(text) : text \in versioned[j].may}
                      /\ GetCtxDesiredVersion(Served(j))
                           \in {Got("no desired version", 0), GetCtxDesiredVersion(ctx[1])}
    BY Zenon DEF VersionArrives
  <2>1. PropInv /\ 1 \in DOMAIN call /\ Served(1) = ctx[1]
    <3>1. PropInv /\ CheckInv
      BY DEF VersionInv, PropInv
    <3> QED
      BY <3>1, Shaped, ServedIs
  <2>2. Sound(Served(j)) /\ HasHeaders(Served(j)) /\ Sound(ctx[1])
    BY <2>1, ServedIs DEF PropInv
  <2>3. \A e, d : Got(e, d).err = e /\ Got(e, d).data = d
    BY DEF Got
  <2> DEFINE kin == TextAt(Served(j), KinVersionHeader)
             desired == TextAt(Served(j), DesiredKinVersionHeader)
  <2>4. /\ GetASCIIHeaderByName(Served(j), KinVersionHeader) = Got("nil", kin)
        /\ GetASCIIHeaderByName(Served(j), DesiredKinVersionHeader) = Got("nil", desired)
    BY <2>2, GetsText
  <2>5. kin \in versioned[j].may /\ desired = TextAt(ctx[1], DesiredKinVersionHeader)
    BY <2>1 DEF VersionInv
  <2> HIDE DEF kin, desired
  <2>6. GetCtxKinVersion(Served(j)) = VersionOf(kin)
    <3>1. CASE kin = Empty
      BY <2>3, <2>4, <3>1, Zenon DEF GetCtxKinVersion, VersionOf
    <3>2. CASE kin # Empty
      <4>1. Got("nil", kin) # Got("nil", Empty)
        BY <3>2 DEF Got
      <4> QED
        BY <2>3, <2>4, <3>2, <4>1, Zenon DEF GetCtxKinVersion, VersionOf
    <3> QED
      BY <3>1, <3>2
  <2>7. CASE desired = Empty
    <3>1. GetCtxDesiredVersion(Served(j)) = Got("no desired version", 0)
      BY <2>3, <2>4, <2>7, Zenon DEF GetCtxDesiredVersion
    <3> QED
      BY <2>5, <2>6, <3>1, Zenon
  <2>8. CASE desired # Empty
    <3>1. HasHeaders(ctx[1])
      <4> SUFFICES ASSUME ~HasHeaders(ctx[1]) PROVE FALSE
        OBVIOUS
      <4>1. "ASCII" \in Types
        BY DEF Types
      <4>2. DOMAIN ctx[1].maps["ASCII"] = {}
        BY <2>2, <4>1 DEF Sound, HasHeaders
      <4> QED
        BY <2>5, <2>8, <4>2 DEF TextAt
    <3>2. GetASCIIHeaderByName(ctx[1], DesiredKinVersionHeader) = Got("nil", desired)
      BY <2>2, <2>5, <3>1, GetsText
    <3>3. GetCtxDesiredVersion(Served(j)) = GetCtxDesiredVersion(ctx[1])
      BY <2>4, <3>2, Zenon DEF GetCtxDesiredVersion
    <3> QED
      BY <2>5, <2>6, <3>3
  <2> QED
    BY <2>7, <2>8, Zenon
<1> QED
  BY <1>1, <1>2, <1>3, PTL DEF Spec
=============================================================================
