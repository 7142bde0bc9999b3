------------------------------ MODULE Headers ------------------------------
(***************************************************************************)
(* The headers of a tree of service calls: the headers package (its        *)
(* context maps and interceptors), the validation interceptors installed   *)
(* beside it by app.Run, and the Kin version read from an ASCII header.    *)
(*                                                                         *)
(* Handler 1 is where the tree starts; handler j > 1 serves call j.  A     *)
(* name is a record: its prefix, its stem, whether it ends in "-bin" and   *)
(* whether it is in lower case.  A context is FALSE-initialised when it    *)
(* does not carry the five maps.  A message is valid or not for Validate.  *)
(***************************************************************************)
EXTENDS Naturals, Sequences, FiniteSets

CONSTANTS
  Messages,      \* names of the protobuf messages used as headers
  Payloads,      \* their encodings that are not empty
  Empty,         \* the empty string, the encoding of a message of defaults
  Absent,        \* no header of that name
  VersionTexts,  \* texts of a version header: integers, and NotANumber
  NotANumber,    \* a text that strconv.Atoi refuses
  OneAtATime,    \* bound: vary either the headers or the validity of messages
  MaxCalls,      \* bound on the calls of the tree
  MaxSets        \* bound on the headers set after the start

ASSUME HeadersAssumption ==
  /\ Empty \notin Payloads
  /\ Absent \notin Payloads \cup {Empty}
  /\ OneAtATime \in BOOLEAN /\ MaxCalls \in Nat /\ MaxSets \in Nat

VARIABLES
  ctx,      \* the context of each handler
  call,     \* the calls, call[1] being the start of the tree
  sets,     \* headers set after the start
  versioned,\* history: whether a handler set the Kin version, and the texts it may find
  blanked   \* history: messages that were ever stored with no bytes

vars == <<ctx, call, sets, versioned, blanked>>

-----------------------------------------------------------------------------
(***************************************************************************)
(* Names and maps (headers.go, headers_context.go).                        *)
(***************************************************************************)
Types == {"Outbound", "Inbound", "Root", "Propagating", "ASCII"}

prefix(headerType) ==
  CASE headerType = "Root" -> "root-"
    [] headerType = "Propagating" -> "prop-"
    [] OTHER -> ""

ToLower(name) == [name EXCEPT !.lower = TRUE]

\* proto.MessageName has capitals, the name of the version header has none.
getBinaryHeaderName(m) == [pre |-> "", stem |-> m, bin |-> TRUE, lower |-> FALSE]
ASCIIName(stem) == [pre |-> "", stem |-> stem, bin |-> FALSE, lower |-> TRUE]

getPrefixedHeaderName(name, headerType) ==
  ToLower([name EXCEPT !.pre = prefix(headerType)])

NoHeaders == [k \in {} |-> Empty]
Put(h, k, v) == [x \in DOMAIN h \cup {k} |-> IF x = k THEN v ELSE h[x]]
merge(h, other) ==
  [x \in DOMAIN h \cup DOMAIN other |-> IF x \in DOMAIN other THEN other[x] ELSE h[x]]

Bytes(d) == [kind |-> "bytes", data |-> d]
Text(d) == [kind |-> "string", data |-> d]

\* context.Background: none of the five keys is there.
Background == [init |-> FALSE, maps |-> [t \in Types |-> NoHeaders]]
FreshContext == [init |-> TRUE, maps |-> [t \in Types |-> NoHeaders]]

\* Context c after a store into its map of type t.
With(c, t, k, v) == [c EXCEPT !.maps = [c.maps EXCEPT ![t] = Put(c.maps[t], k, v)]]

(***************************************************************************)
(* Setters.  The result of proto.Marshal is stored before its error is     *)
(* looked at, so a failed set leaves nil bytes in the map.                 *)
(***************************************************************************)
setHeader(c, marshalled, name, headerType) ==
  IF ~c.init THEN c
  ELSE With(c, headerType, getPrefixedHeaderName(name, headerType), Bytes(marshalled))

SetHeader(c, m, marshalled) ==
  setHeader(c, marshalled, getBinaryHeaderName(m), "Outbound")

SetHeaderByName(c, name, marshalled) == setHeader(c, marshalled, name, "Outbound")

SetPropagatingHeader(c, m, marshalled) ==
  setHeader(c, marshalled, getBinaryHeaderName(m), "Propagating")

SetASCIIHeader(c, name, text) ==
  IF ~c.init THEN c
  ELSE With(c, "ASCII", ToLower(name), Text(text))

(***************************************************************************)
(* Getters: the data, and how the call ended.  Anything but one of our     *)
(* encodings fails to unmarshal; no bytes give a message of defaults.      *)
(***************************************************************************)
Got(err, d) == [err |-> err, data |-> d]

Unmarshal(d) ==
  IF d \in Payloads \cup {Empty} THEN Got("nil", d) ELSE Got("unmarshal", Absent)

\* Variant: a missing header is a message of defaults, as its comment says.
getHeaderDefaults(c, name, headerType) ==
  LET h == c.maps[headerType]
      k == getPrefixedHeaderName(name, headerType)
  IN  IF c.init /\ k \in DOMAIN h THEN Unmarshal(h[k].data) ELSE Got("nil", Empty)

getHeader(c, name, headerType) ==
  LET h == c.maps[headerType]
      k == getPrefixedHeaderName(name, headerType)
  IN  CASE ~c.init -> Got("not initialised", Absent)
        [] c.init /\ k \notin DOMAIN h -> Got("header not found", Absent)
        [] c.init /\ k \in DOMAIN h /\ h[k].kind = "bytes" -> Unmarshal(h[k].data)
        [] OTHER -> Got("not binary", Absent)

GetASCIIHeaderByName(c, name) ==
  LET h == c.maps["ASCII"]
  IN  CASE ~c.init -> Got("not initialised", Empty)
        [] c.init /\ name \notin DOMAIN h -> Got("nil", Empty)
        [] c.init /\ name \in DOMAIN h /\ h[name].kind = "string" -> Got("nil", h[name].data)
        [] OTHER -> Got("not ASCII", Empty)

\* The search goes on only past "header not found"; a header that is there but
\* decodes to the defaults has no error to look at, and err.Error() panics.
GetAnyBinaryHeaderByName(c, name) ==
  LET order == <<"Root", "Inbound", "Propagating">>
      found(n) == getHeader(c, name, order[n])
      stops == {n \in 1..3 : found(n).err # "header not found"}
      n == CHOOSE k \in stops : \A l \in stops : k <= l
  IN  CASE stops = {} -> Got("not found in any", Absent)
        [] stops # {} /\ found(n) = Got("nil", Empty) -> Got("panic", Absent)
        [] OTHER -> found(n)

GetHeader(c, m) == getHeader(c, getBinaryHeaderName(m), "Inbound")
GetPropagatingHeader(c, m) == getHeader(c, getBinaryHeaderName(m), "Propagating")
GetRootHeader(c, m) == getHeader(c, getBinaryHeaderName(m), "Root")

(***************************************************************************)
(* kin/version.  An integer out of range is reported by wrapping an error  *)
(* that is nil, so the caller gets version 0 and no error.                 *)
(***************************************************************************)
KinVersionHeader == ASCIIName("kin-version")
DesiredKinVersionHeader == ASCIIName("desired-kin-version")
\* No message has the name of one of them: a message's name is qualified by its
\* package and has capitals.
ASSUME VersionAssumption == Messages \cap {"kin-version", "desired-kin-version"} = {}

minVersion == 2
maxVersion == 4
defaultVersion == 4

Parsed(text) ==
  CASE text = NotANumber -> Got("could not parse", 0)
    [] text # NotANumber /\ text \in minVersion..maxVersion -> Got("nil", text)
    [] OTHER -> Got("nil", 0)

GetCtxKinVersion(c) ==
  LET val == GetASCIIHeaderByName(c, KinVersionHeader)
  IN  CASE val.err # "nil" -> Got(val.err, 0)
        [] val = Got("nil", Empty) -> Got("nil", defaultVersion)
        [] OTHER -> Parsed(val.data)

GetCtxDesiredVersion(c) ==
  LET val == GetASCIIHeaderByName(c, DesiredKinVersionHeader)
  IN  CASE val.err # "nil" -> Got(val.err, 0)
        [] val = Got("nil", Empty) -> Got("no desired version", 0)
        [] OTHER -> Parsed(val.data)

-----------------------------------------------------------------------------
(***************************************************************************)
(* The interceptors.  gRPC itself adds the reserved headers to a request.  *)
(***************************************************************************)
Reserved == {"content-type", "user-agent", ":authority"}
\* No message has the name of one of them.
ASSUME ReservedAssumption == Messages \cap Reserved = {}

Transport == [k \in {ASCIIName("user-agent")} |-> Empty]

\* Variant: what was received inbound goes on as well.
setAllHeadersInbound(c) ==
  LET all == merge(merge(merge(merge(c.maps["Inbound"], c.maps["Root"]),
                               c.maps["Propagating"]),
                         c.maps["Outbound"]), c.maps["ASCII"])
  IN  [k \in {k \in DOMAIN all : k.stem \notin Reserved} |-> all[k].data]

\* Variant: the ASCII headers of the context are not sent.
setAllHeadersBinary(c) ==
  LET all == merge(merge(c.maps["Root"], c.maps["Propagating"]), c.maps["Outbound"])
  IN  [k \in {k \in DOMAIN all : k.stem \notin Reserved} |-> all[k].data]

setAllHeaders(c) ==
  LET all == merge(merge(merge(c.maps["Root"], c.maps["Propagating"]),
                         c.maps["Outbound"]), c.maps["ASCII"])
  IN  [k \in {k \in DOMAIN all : k.stem \notin Reserved} |-> all[k].data]

TypeOfKey(k) ==
  CASE k.pre = "root-" -> "Root"
    [] k.pre = "prop-" -> "Propagating"
    [] k.pre = "" /\ k.bin -> "Inbound"
    [] OTHER -> "ASCII"

getAllHeaders(md) ==
  [init |-> TRUE,
   maps |-> [t \in Types |->
               [k \in {k \in DOMAIN md : TypeOfKey(k) = t} |->
                  IF t = "ASCII" THEN Text(md[k]) ELSE Bytes(md[k])]]]

\* What the callee's interceptor is given for a call made from context c.
Metadata(c) == merge(setAllHeaders(c), Transport)

-----------------------------------------------------------------------------
(***************************************************************************)
(* The start of the tree: a context without headers, one that a service    *)
(* made with ContextWithHeaders (an edge layer then puts root headers into *)
(* it by hand), or a request of a client that only sends versions.         *)
(***************************************************************************)
Setters == [type : {"Outbound", "Propagating"}, m : Messages,
            data : Payloads \cup {Empty}, ok : BOOLEAN]

SetterKey(s) == getPrefixedHeaderName(getBinaryHeaderName(s.m), s.type)

\* The setters run in order, so the last one for a key decides; when one fails
\* the caller gets an empty context.
ContextWithHeaders(setters) ==
  LET of(t) == {n \in DOMAIN setters : setters[n].type = t}
      last(t, k) == CHOOSE n \in of(t) :
                      /\ SetterKey(setters[n]) = k
                      /\ \A l \in of(t) : SetterKey(setters[l]) = k => l <= n
  IN  IF \E n \in DOMAIN setters : ~setters[n].ok THEN Background
      ELSE [init |-> TRUE,
            maps |-> [t \in Types |-> [k \in {SetterKey(setters[n]) : n \in of(t)} |->
                                         Bytes(setters[last(t, k)].data)]]]

WithRoot(c, roots, d) ==
  [c EXCEPT !.maps = [c.maps EXCEPT !["Root"] =
     [k \in {getPrefixedHeaderName(getBinaryHeaderName(m), "Root") : m \in roots} |->
        Bytes(d)]]]

ClientRequest(texts) ==
  getAllHeaders(merge(texts, Transport))

StartContexts ==
  {Background}
    \cup {ContextWithHeaders(<<s>>) : s \in Setters}
    \cup {WithRoot(ContextWithHeaders(<<>>), r, d) : r \in SUBSET Messages, d \in Payloads}
    \cup {ClientRequest([k \in ks |-> v]) :
            ks \in SUBSET {KinVersionHeader, DesiredKinVersionHeader}, v \in VersionTexts}

Start == [from |-> 1, stream |-> FALSE, req |-> "valid", md |-> NoHeaders,
          clientChecks |-> FALSE, serverChecks |-> FALSE,
          stage |-> "running", got |-> "valid", resp |-> "none", code |-> "none"]

BlankIn(c) ==
  {m \in Messages : \E t \in Types \ {"ASCII"} : \E k \in DOMAIN c.maps[t] :
                      k.stem = m /\ c.maps[t][k].data = Empty}

Init ==
  /\ \E c \in StartContexts :
       /\ ctx = <<c>>
       /\ blanked = BlankIn(c)
       /\ versioned = <<[set |-> FALSE, may |-> {GetASCIIHeaderByName(c, KinVersionHeader).data}]>>
  /\ call = <<Start>>
  /\ sets = 0

-----------------------------------------------------------------------------
(***************************************************************************)
(* Handlers.  A handler may set headers and call while earlier calls of it *)
(* are still under way.  Setting in a context without headers is refused.  *)
(***************************************************************************)
\* Validation never looks at headers nor headers at messages, so an instance may
\* set headers only in a tree that starts with some, and let messages be invalid
\* and handlers fail only in one that starts without.
HeaderTree == OneAtATime /\ ctx[1].init
MessageTree == OneAtATime /\ ~ctx[1].init

Validity == IF HeaderTree THEN {"valid"} ELSE {"valid", "invalid"}
Checking == IF HeaderTree THEN {TRUE} ELSE BOOLEAN
Streaming == IF HeaderTree THEN {FALSE} ELSE BOOLEAN

Running(i) == call[i].stage = "running" /\ call[i].got = "valid"

Store(i, c) ==
  /\ Running(i) /\ ctx[i].init /\ ~MessageTree /\ sets < MaxSets
  /\ ctx' = [ctx EXCEPT ![i] = c]
  /\ sets' = sets + 1
  /\ UNCHANGED call

SetBinary(i) ==
  \E m \in Messages, d \in Payloads \cup {Empty} :
    /\ \/ Store(i, SetHeader(ctx[i], m, d))
       \/ Store(i, SetPropagatingHeader(ctx[i], m, d))
       \/ Store(i, SetHeaderByName(ctx[i], ASCIIName(m), d))
    /\ blanked' = IF d = Empty THEN blanked \cup {m} ELSE blanked
    /\ UNCHANGED versioned

SetVersion(i) ==
  \E v \in VersionTexts :
    /\ Store(i, SetASCIIHeader(ctx[i], KinVersionHeader, v))
    /\ versioned' = [versioned EXCEPT ![i] = [set |-> TRUE, may |-> {v}]]
    /\ UNCHANGED blanked

(***************************************************************************)
(* A call, unary or a stream of one request and one response.  A client    *)
(* that validates drops an invalid request before it is sent.              *)
(***************************************************************************)
\* What a handler sets is for the services that it calls.  What it was sent, by
\* the comments on the types, may go on or not.
Inherited(i) ==
  [set |-> FALSE,
   may |-> IF versioned[i].set THEN versioned[i].may ELSE versioned[i].may \cup {Empty}]

ClientSend(i) ==
  \E stream \in Streaming, req \in Validity,
     clientChecks \in Checking, serverChecks \in Checking :
    /\ Running(i) /\ Len(call) <= MaxCalls
    /\ clientChecks => req = "valid"
    /\ call' = Append(call,
         [from |-> i, stream |-> stream, req |-> req, md |-> Metadata(ctx[i]),
          clientChecks |-> clientChecks, serverChecks |-> serverChecks,
          stage |-> "sent", got |-> "none", resp |-> "none", code |-> "none"])
    /\ ctx' = Append(ctx, Background)
    /\ versioned' = Append(versioned, Inherited(i))
    /\ UNCHANGED <<sets, blanked>>

Reject(j, code) ==
  call' = [call EXCEPT ![j] = [@ EXCEPT !.stage = "replied", !.code = code]]

\* The validation interceptor runs before the headers interceptor.
UnaryReceive(j) ==
  /\ call[j].stage = "sent" /\ ~call[j].stream
  /\ \/ /\ call[j].serverChecks /\ call[j].req = "invalid"
        /\ Reject(j, "InvalidArgument")
        /\ UNCHANGED ctx
     \/ /\ ~(call[j].serverChecks /\ call[j].req = "invalid")
        /\ call' = [call EXCEPT ![j] = [@ EXCEPT !.stage = "running", !.got = call[j].req]]
        /\ ctx' = [ctx EXCEPT ![j] = getAllHeaders(call[j].md)]
  /\ UNCHANGED <<sets, versioned, blanked>>

StreamOpen(j) ==
  /\ call[j].stage = "sent" /\ call[j].stream
  /\ call' = [call EXCEPT ![j] = [@ EXCEPT !.stage = "running"]]
  /\ ctx' = [ctx EXCEPT ![j] = getAllHeaders(call[j].md)]
  /\ UNCHANGED <<sets, versioned, blanked>>

\* Variant: streams are not validated by the server.
StreamRecvUnchecked(j) ==
  /\ call[j].stage = "running" /\ call[j].got = "none"
  /\ call' = [call EXCEPT ![j] = [@ EXCEPT !.got = call[j].req]]
  /\ UNCHANGED <<ctx, sets, versioned, blanked>>

\* A stream handler ends with the error of its RecvMsg.
StreamRecv(j) ==
  /\ call[j].stage = "running" /\ call[j].got = "none"
  /\ \/ /\ call[j].serverChecks /\ call[j].req = "invalid"
        /\ Reject(j, "InvalidArgument")
     \/ /\ ~(call[j].serverChecks /\ call[j].req = "invalid")
        /\ call' = [call EXCEPT ![j] = [@ EXCEPT !.got = call[j].req]]
  /\ UNCHANGED <<ctx, sets, versioned, blanked>>

\* The handler's error goes back as it is, its response if it is valid.
HandlerReturn(j) ==
  /\ j > 1 /\ call[j].stage = "running" /\ call[j].got # "none"
  /\ \/ ~HeaderTree /\ Reject(j, "handler error")
     \/ \E resp \in Validity :
          IF call[j].serverChecks /\ resp = "invalid" THEN Reject(j, "Internal")
          ELSE call' = [call EXCEPT ![j] =
                          [@ EXCEPT !.stage = "replied", !.code = "OK", !.resp = resp]]
  /\ UNCHANGED <<ctx, sets, versioned, blanked>>

ClientReceive(j) ==
  /\ call[j].stage = "replied"
  /\ call' = [call EXCEPT ![j] =
       [@ EXCEPT !.stage = "done",
                 !.code = IF call[j].clientChecks /\ call[j].resp = "invalid" THEN "Internal"
                          ELSE call[j].code]]
  /\ UNCHANGED <<ctx, sets, versioned, blanked>>

Step(i) ==
  \/ SetBinary(i) \/ SetVersion(i) \/ ClientSend(i)
  \/ UnaryReceive(i) \/ StreamOpen(i) \/ StreamRecv(i)
  \/ HandlerReturn(i) \/ ClientReceive(i)

Next == \E i \in DOMAIN call : Step(i)

Spec == Init /\ [][Next]_vars

-----------------------------------------------------------------------------
(***************************************************************************)
(* Properties.                                                             *)
(***************************************************************************)
\* The headers that the handler of call j has, or will have once it starts.
Served(j) == IF j = 1 \/ ctx[j].init THEN ctx[j] ELSE getAllHeaders(call[j].md)

Outgoing(c, m) == getHeader(c, getBinaryHeaderName(m), "Outbound")

ViewOf(c) ==
  [root        |-> [m \in Messages |-> GetRootHeader(c, m).data],
   propagating |-> [m \in Messages |-> GetPropagatingHeader(c, m).data],
   inbound     |-> [m \in Messages |-> GetHeader(c, m).data],
   outbound    |-> [m \in Messages |-> Outgoing(c, m).data]]

Views == [j \in 1..Len(ctx) |-> ViewOf(Served(j))]

Promise == INSTANCE HeaderPropagation
             WITH Data <- Payloads \cup {Empty}, view <- Views

\* Root and propagating headers reach every service further down unchanged
\* unless one on the way sets them again, outbound headers arrive as inbound at
\* the next service and stop there: the maps, key names, metadata and
\* interceptors together do what the header types say.
ImplementsPropagation == Promise!Spec

\* The version that GetCtxKinVersion makes of a text.
VersionOf(text) == IF text = Empty THEN Got("nil", defaultVersion) ELSE Parsed(text)

\* A service reads the Kin version that its caller set before the call, whatever
\* else the caller, its other calls or the services below it set.  If the caller
\* set none it reads the default or what the last service above sent that did.
\* The desired version is that of the request the tree starts with, or none.
VersionArrives ==
  \A j \in DOMAIN call \ {1} :
    /\ GetCtxKinVersion(Served(j)) \in {VersionOf(text) : text \in versioned[j].may}
    /\ GetCtxDesiredVersion(Served(j))
         \in {Got("no desired version", 0), GetCtxDesiredVersion(ctx[1])}

\* GetAnyBinaryHeader dies on its nil error only for a message that somebody
\* above stored as an empty encoding; headers lost on the way never cause it.
PanicsOnlyOnEmptyHeader ==
  \A j \in DOMAIN call, m \in Messages :
    GetAnyBinaryHeaderByName(Served(j), getBinaryHeaderName(m)).err = "panic"
      => m \in blanked

\* Where one end validates, a handler works only on valid requests and a caller
\* gets OK only with a valid response; a unary InvalidArgument means that the
\* handler never ran.
RepliesChecked ==
  \A j \in DOMAIN call \ {1} :
    LET c == call[j]
    IN  /\ c.got = "invalid" => ~c.clientChecks /\ ~c.serverChecks
        /\ c.stage = "done" /\ c.code = "OK" /\ (c.clientChecks \/ c.serverChecks)
             => c.got = "valid" /\ c.resp = "valid"
        /\ c.code = "InvalidArgument" => c.got = "none" /\ (~c.stream => ~ctx[j].init)
=============================================================================
