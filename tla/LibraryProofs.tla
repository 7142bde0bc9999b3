--------------------------- MODULE LibraryProofs ----------------------------
(***************************************************************************)
(* The smaller libraries: GetSafe, for any number of goroutines that share *)
(* a wrapper and any number of calls and of changes of the source;         *)
(* SubmitBatch, for any batch, any limit and any number of calls; and the  *)
(* timer that keeps a message invisible, for any number of workers, any    *)
(* timeout, any number of extensions and any latency that leaves the timer *)
(* time; and Retry and Loop, for any number of strategies in any order,    *)
(* any limit, any errors and any number of calls.                          *)
(***************************************************************************)
EXTENDS TaskSubmitter, VisibilityTimer, ConfigWrapper, Retry, TLAPS

-----------------------------------------------------------------------------
(***************************************************************************)
(* The wrappers of config.                                                 *)
(***************************************************************************)
Raws == Bytes \cup Typed

\* A value that a wrapper over this source may hand out.
Fit(v) == v = Default \/ \E raw \in held : Convert(wrapper, raw) = <<v>>

\* A conversion fails or gives one value.
LEMMA ConversionIsOne ==
  ASSUME NEW w \in Wrappers, NEW raw \in Raws
  PROVE  Convert(w, raw) = <<>> \/ \E t \in Values : Convert(w, raw) = <<t>>
<1>1. ASSUME NEW parsed, NEW types
      PROVE  FromBytes(raw, parsed, types) \in {parsed, <<raw.text>>, <<>>}
  BY Zenon DEF FromBytes
<1>2. raw.text \in Values
  BY DEF Values, Raws
<1>3. "true" \in Values /\ "1s" \in Values
  <2>1. [type |-> "bool", text |-> "true"] \in Typed
    BY DEF Typed
  <2>2. [type |-> "time.Duration", text |-> "1s"] \in Typed
    BY DEF Typed
  <2>3. \A r \in Typed : r.text \in Values
    BY DEF Values
  <2> QED
    BY <2>1, <2>2, <2>3
<1>4. /\ ParseBool(raw.text) \in {<<"true">>, <<>>}
      /\ ParseInt(raw.text) \in {<<raw.text>>, <<>>}
      /\ ParseUint(raw.text) \in {<<raw.text>>, <<>>}
      /\ ParseTime(raw.text) \in {<<"1s">>, <<>>}
  BY DEF ParseBool, ParseInt, ParseUint, ParseTime
<1>5. Convert(w, raw) \in {<<raw.text>>, <<"true">>, <<"1s">>, <<>>}
  <2>1. CASE w = "Bytes"
    BY <1>1, <2>1 DEF Convert, BytesConfig
  <2>2. CASE w = "Bool"
    BY <1>1, <1>4, <2>2 DEF Convert, BoolConfig
  <2>3. CASE w = "Int64"
    BY <1>1, <1>4, <2>3 DEF Convert, Int64Config
  <2>4. CASE w = "Uint64"
    BY <1>1, <1>4, <2>4 DEF Convert, Uint64Config
  <2>5. CASE w = "Float64"
    BY <1>1, <1>4, <2>5 DEF Convert, Float64Config
  <2>6. CASE w = "Duration"
    BY <1>1, <1>4, <2>6 DEF Convert, DurationConfig
  <2>7. CASE w = "String"
    BY <1>1, <2>7 DEF Convert, StringConfig
  <2> QED
    BY <2>1, <2>2, <2>3, <2>4, <2>5, <2>6, <2>7 DEF Wrappers
<1> QED
  BY <1>2, <1>3, <1>5

\* What the source and the conversion give together.
LEMMA GetGivesFit ==
  ASSUME wrapper \in Wrappers, value \in Raws \cup {NoValue}, value \in held \cup {NoValue}
  PROVE  Get \in [err : GetErrors, value : Values] /\ Fit(Get.value)
<1>0. Default \in Values
  BY DEF Values
<1>1. \/ \E e \in {"shutdown", "induced", "noValue", "conversion"} :
             Get = [err |-> e, value |-> Default]
      \/ /\ value # NoValue /\ Convert(wrapper, value) # <<>>
         /\ Get = [err |-> "nil", value |-> Convert(wrapper, value)[1]]
  BY Zenon DEF Get
<1>2. CASE \E e \in {"shutdown", "induced", "noValue", "conversion"} :
             Get = [err |-> e, value |-> Default]
  BY <1>0, <1>2 DEF GetErrors, Fit
<1>3. CASE /\ value # NoValue /\ Convert(wrapper, value) # <<>>
           /\ Get = [err |-> "nil", value |-> Convert(wrapper, value)[1]]
  <2>1. value \in Raws /\ value \in held
    BY <1>3
  <2>2. PICK t \in Values : Convert(wrapper, value) = <<t>>
    BY <1>3, <2>1, ConversionIsOne
  <2>3. Get = [err |-> "nil", value |-> t]
    BY <1>3, <2>2
  <2> QED
    BY <2>1, <2>2, <2>3 DEF GetErrors, Fit
<1> QED
  BY <1>1, <1>2, <1>3
-----------------------------------------------------------------------------
\* Calls have numbers of their own and finish once; the cached value was written
\* by a call that no finished call began after.
CallInv ==
  /\ finished \subseteq 0 .. gets
  /\ \A c \in Callers : call[c] <= gets
  /\ \A c \in Callers : getting[c] # "idle" => call[c] \notin finished
  /\ \A c, d \in Callers :
       c # d /\ getting[c] # "idle" /\ getting[d] # "idle" => call[c] # call[d]
  /\ lastValue.by \notin outdated
  /\ LastKnownValue

\* Whatever a caller or the cache has is fit to be returned.
FitInv ==
  /\ value \in held \cup {NoValue}
  /\ Fit(lastValue.value)
  /\ \A c \in Callers : Fit(fetched[c].value) /\ Fit(result[c].value)

WrapperInv == ConfigTypeOK /\ CallInv /\ FitInv

\* A change of the source keeps the invariant.
LEMMA SourceStep ==
  ASSUME WrapperInv, Change,
         value' \in Raws \cup {NoValue}, failing' \in BOOLEAN, shutdown' \in BOOLEAN,
         held' \subseteq Raws, held \subseteq held', value' \in held' \cup {NoValue}
  PROVE  WrapperInv'
<1> USE WrapperAssumption DEF WrapperInv
<1>1. ConfigTypeOK'
  BY DEF ConfigTypeOK, Change, history, Raws
<1>2. CallInv'
  BY DEF CallInv, Change, history, LastKnownValue
<1>3. FitInv'
  <2>1. ASSUME NEW v, Fit(v) PROVE Fit(v)'
    BY <2>1 DEF Fit, Change
  <2> QED
    BY <2>1 DEF FitInv, Change
<1> QED
  BY <1>1, <1>2, <1>3

\* Every step of GetSafe keeps the invariant.
LEMMA GetSafeStep ==
  ASSUME WrapperInv, NEW c \in Callers, Fetch(c) \/ ReadLast(c) \/ Write(c)
  PROVE  WrapperInv'
<1> USE WrapperAssumption DEF WrapperInv
<1>1. wrapper' = wrapper /\ UNCHANGED sourceVars /\ \A v : Fit(v)' <=> Fit(v)
  BY DEF Fetch, ReadLast, Write, sourceVars, Fit
<1>2. CASE Fetch(c)
  <2>1. Get \in [err : GetErrors, value : Values] /\ Fit(Get.value)
    BY GetGivesFit DEF ConfigTypeOK, FitInv, Raws
  <2>2. /\ getting[c] = "idle" /\ gets + 1 \in 0 .. MaxGets /\ gets' = gets + 1
        /\ getting' = [getting EXCEPT ![c] = "fetched"] /\ call' = [call EXCEPT ![c] = gets + 1]
        /\ fetched' = [fetched EXCEPT ![c] = Get]
        /\ before' = [before EXCEPT ![c] = finished]
        /\ unwanted' = [unwanted EXCEPT ![c] = outdated]
        /\ UNCHANGED <<wrapper, source, lastValue, result, finished, outdated>>
    BY <1>2 DEF Fetch, ConfigTypeOK
  <2>3. ConfigTypeOK'
    BY <1>1, <2>1, <2>2 DEF ConfigTypeOK, sourceVars
  <2>4. CallInv'
    BY <2>2 DEF CallInv, ConfigTypeOK, LastKnownValue
  <2>5. FitInv'
    BY <1>1, <2>1, <2>2 DEF FitInv, ConfigTypeOK, sourceVars
  <2> QED
    BY <2>3, <2>4, <2>5
<1>3. CASE ReadLast(c)
  <2>1. /\ getting[c] = "fetched"
        /\ UNCHANGED <<wrapper, source, lastValue, gets, call, fetched, finished, before,
                       outdated, unwanted>>
    BY <1>3 DEF ReadLast, history
  <2>2. CASE getting' = [getting EXCEPT ![c] = "writing"] /\ result' = result
    <3>1. ConfigTypeOK'
      BY <1>1, <2>1, <2>2 DEF ConfigTypeOK, sourceVars
    <3>2. LastKnownValue'
      BY <2>1, <2>2 DEF CallInv, ConfigTypeOK, LastKnownValue
    <3>3. CallInv'
      BY <2>1, <2>2, <3>2 DEF CallInv, ConfigTypeOK
    <3>4. FitInv'
      BY <1>1, <2>1, <2>2 DEF FitInv, ConfigTypeOK, sourceVars
    <3> QED
      BY <3>1, <3>3, <3>4
  <2>3. CASE /\ getting' = [getting EXCEPT ![c] = "idle"]
             /\ result' = [result EXCEPT ![c] = [err |-> fetched[c].err,
                             value |-> lastValue.value, by |-> lastValue.by]]
    <3>1. ConfigTypeOK'
      BY <1>1, <2>1, <2>3 DEF ConfigTypeOK, sourceVars
    <3>2. LastKnownValue'
      BY <2>1, <2>3 DEF CallInv, ConfigTypeOK, LastKnownValue
    <3>3. CallInv'
      BY <2>1, <2>3, <3>2 DEF CallInv, ConfigTypeOK
    <3>4. FitInv'
      BY <1>1, <2>1, <2>3 DEF FitInv, ConfigTypeOK, sourceVars
    <3> QED
      BY <3>1, <3>3, <3>4
  <2> QED
    BY <1>3, <2>2, <2>3 DEF ReadLast
<1>4. CASE Write(c)
  <2>1. /\ getting[c] = "writing" /\ getting' = [getting EXCEPT ![c] = "idle"]
        /\ lastValue' = [value |-> fetched[c].value, by |-> call[c]]
        /\ result' = [result EXCEPT ![c] = [err |-> "nil", value |-> fetched[c].value,
                                            by |-> call[c]]]
        /\ finished' = finished \cup {call[c]} /\ outdated' = outdated \cup before[c]
        /\ UNCHANGED <<wrapper, source, gets, call, fetched, before, unwanted>>
    BY <1>4 DEF Write
  <2>2. ConfigTypeOK'
    BY <1>1, <2>1, Zenon DEF ConfigTypeOK, sourceVars, GetErrors
  <2>3. CallInv'
    <3>1. call[c] \notin finished /\ call[c] \in 0 .. gets
      BY <2>1 DEF CallInv, ConfigTypeOK
    <3>2. lastValue'.by \notin outdated'
      BY <2>1, <3>1 DEF ConfigTypeOK
    <3>3. \A d \in Callers : getting'[d] # "idle" =>
            d # c /\ getting[d] # "idle" /\ call[d] \notin finished'
      BY <2>1 DEF CallInv, ConfigTypeOK
    <3>4. LastKnownValue'
      BY <2>1 DEF CallInv, ConfigTypeOK, LastKnownValue
    <3> QED
      BY <2>1, <3>1, <3>2, <3>3, <3>4, Zenon DEF CallInv, ConfigTypeOK
  <2>4. FitInv'
    BY <1>1, <2>1 DEF FitInv, ConfigTypeOK, sourceVars
  <2> QED
    BY <2>2, <2>3, <2>4
<1> QED
  BY <1>2, <1>3, <1>4

\* The invariant holds in every state.
LEMMA WrapperInvariant == ConfigSpec => []WrapperInv
<1>1. ConfigInit => WrapperInv
  <2> SUFFICES ASSUME ConfigInit PROVE WrapperInv
    OBVIOUS
  <2>1. value \in Raws \cup {NoValue} /\ held \subseteq Raws /\ value \in held \cup {NoValue}
    BY DEF ConfigInit, Raws
  <2>2. failing \in BOOLEAN /\ shutdown \in BOOLEAN
    BY Zenon DEF ConfigInit
  <2>3. ConfigTypeOK
    BY <2>1, <2>2, WrapperAssumption DEF ConfigInit, ConfigTypeOK, Raws, Values, GetErrors
  <2>4. CallInv /\ FitInv
    BY <2>1, WrapperAssumption DEF ConfigInit, CallInv, FitInv, Fit, LastKnownValue
  <2> QED
    BY <2>3, <2>4 DEF WrapperInv
<1>2. WrapperInv /\ [ConfigNext]_configVars => WrapperInv'
  <2> SUFFICES ASSUME WrapperInv, [ConfigNext]_configVars PROVE WrapperInv'
    OBVIOUS
  <2>1. value \in Raws \cup {NoValue} /\ held \subseteq Raws /\ value \in held \cup {NoValue}
    BY DEF WrapperInv, ConfigTypeOK, FitInv, Raws
  <2>2. failing \in BOOLEAN /\ shutdown \in BOOLEAN
    BY DEF WrapperInv, ConfigTypeOK
  <2>3. ASSUME NEW raw \in Raws, SetValue(raw) PROVE WrapperInv'
    BY <2>1, <2>2, <2>3, SourceStep DEF SetValue
  <2>4. CASE ClearValue
    BY <2>1, <2>2, <2>4, SourceStep DEF ClearValue
  <2>5. CASE InduceErrors
    <3>1. failing' \in BOOLEAN
      BY <2>5, Zenon DEF InduceErrors
    <3> QED
      BY <2>1, <2>2, <2>5, <3>1, SourceStep DEF InduceErrors
  <2>6. CASE StopInducingErrors
    <3>1. failing' \in BOOLEAN
      BY <2>6, Zenon DEF StopInducingErrors
    <3> QED
      BY <2>1, <2>2, <2>6, <3>1, SourceStep DEF StopInducingErrors
  <2>7. CASE Shutdown
    <3>1. shutdown' \in BOOLEAN
      BY <2>7, Zenon DEF Shutdown
    <3> QED
      BY <2>1, <2>2, <2>7, <3>1, SourceStep DEF Shutdown
  <2>8. CASE \E c \in Callers : Fetch(c) \/ ReadLast(c) \/ Write(c)
    BY <2>8, GetSafeStep
  <2>9. CASE UNCHANGED configVars
    <3>1. ConfigTypeOK'
      BY <2>9 DEF configVars, sourceVars, history, WrapperInv, ConfigTypeOK
    <3>2. CallInv'
      BY <2>9 DEF configVars, history, WrapperInv, CallInv, LastKnownValue
    <3>3. FitInv'
      BY <2>9 DEF configVars, sourceVars, WrapperInv, FitInv, Fit
    <3> QED
      BY <3>1, <3>2, <3>3 DEF WrapperInv
  <2> QED
    BY <2>3, <2>4, <2>5, <2>6, <2>7, <2>8, <2>9 DEF ConfigNext, Raws
<1> QED
  BY <1>1, <1>2, PTL DEF ConfigSpec

\* With any number of goroutines, the value returned with an error was never
\* replaced for good before the call began.
THEOREM ReturnsLastKnown == ConfigSpec => []LastKnownValue
<1>1. WrapperInv => LastKnownValue
  BY DEF WrapperInv, CallInv
<1> QED
  BY <1>1, WrapperInvariant, PTL

\* With any number of goroutines, whatever is returned is the default or was
\* converted from a value that the source has held.
THEOREM ReturnsConverted == ConfigSpec => []OnlyConvertedValues
<1>1. WrapperInv => OnlyConvertedValues
  BY DEF WrapperInv, FitInv, Fit, OnlyConvertedValues
<1> QED
  BY <1>1, WrapperInvariant, PTL

-----------------------------------------------------------------------------
(***************************************************************************)
(* SubmitBatch.                                                            *)
(***************************************************************************)
\* This call has sent the first n messages, each of them once.
SentUpTo(n) == \A m \in Messages : offered[m] = IF m <= n THEN 1 ELSE 0

SubmitInv ==
  /\ bad # {} => submit # "nil" /\ \A m \in Messages : stored[m] = 0
  /\ submit = "running" => \A m \in 1 .. marshalled : m \notin bad
  /\ submit \in {"running", "nil"} => SentUpTo(batchStart)
  /\ \E n \in Nat : SentUpTo(n)
  /\ submit = "nil" => batchStart >= len
  /\ \A m \in Messages : stored[m] <= submits
  /\ submit = "running" => submits > 0 /\ \A m \in Messages : stored[m] < submits + offered[m]

\* Every step keeps the types and the invariant.
LEMMA SubmitStep ==
  SubmitTypeOK /\ SubmitInv /\ [SubmitNext]_submitVars => SubmitTypeOK' /\ SubmitInv'
<1> SUFFICES ASSUME SubmitTypeOK, SubmitInv, [SubmitNext]_submitVars
             PROVE  SubmitTypeOK' /\ SubmitInv'
  OBVIOUS
<1> USE SubmitterAssumption DEF SubmitTypeOK, SubmitInv, SentUpTo, Messages
<1>1. CASE SubmitBatch
  <2>1. SubmitTypeOK'
    BY <1>1 DEF SubmitBatch
  <2>2. SentUpTo(0)'
    BY <1>1, <2>1 DEF SubmitBatch
  <2>3. \A m \in Messages : stored'[m] < submits' + offered'[m] /\ stored'[m] <= submits'
    BY <1>1 DEF SubmitBatch
  <2>4. submit' # "nil" /\ submits' > 0
    BY <1>1 DEF SubmitBatch
  <2>5. submit' = "running" => batchStart' = 0
    BY <1>1 DEF SubmitBatch
  <2>7. \A m \in 1 .. marshalled' : m \notin bad'
    BY <1>1 DEF SubmitBatch
  <2>6. len' = len /\ bad' = bad /\ stored' = stored /\ submit' \in {"running", "err"}
    BY <1>1 DEF SubmitBatch
  <2> QED
    BY <2>1, <2>2, <2>3, <2>4, <2>5, <2>6, <2>7, Zenon
<1>6. CASE MarshalTask
  <2>1. /\ UNCHANGED <<len, bad, closed, batchStart, offered, stored, submits>>
        /\ submit = "running" /\ marshalled < len
    BY <1>6 DEF MarshalTask
  <2>2. CASE marshalled + 1 \in bad /\ submit' = "err" /\ marshalled' = marshalled
    BY <2>1, <2>2, Zenon
  <2>3. CASE marshalled + 1 \notin bad /\ marshalled' = marshalled + 1 /\ submit' = submit
    <3>1. len \in Nat /\ marshalled \in 0 .. len /\ \A m \in 1 .. marshalled : m \notin bad
      BY <2>1
    <3>2. marshalled' \in 0 .. len
      BY ONLY <2>1, <2>3, <3>1
    <3>3. ASSUME NEW m \in 1 .. marshalled' PROVE m \in 1 .. marshalled \/ m = marshalled + 1
      BY ONLY <2>3, <3>1, <3>3
    <3>4. \A m \in 1 .. marshalled' : m \notin bad
      BY ONLY <2>3, <3>1, <3>3, Zenon
    <3> QED
      BY <2>1, <2>3, <3>2, <3>4, Zenon
  <2> QED
    BY <1>6, <2>2, <2>3, Zenon DEF MarshalTask
<1>2. CASE SendBatch
  <2>1. PICK S \in SUBSET Batch : stored' = AddOne(stored, S)
    BY <1>2 DEF SendBatch
  <2>8. bad = {}
    BY <1>2 DEF SendBatch, Marshalled
  <2>2. /\ offered' = AddOne(offered, Batch) /\ len' = len /\ bad' = bad
        /\ marshalled' = marshalled
        /\ submits' = submits /\ closed' = closed /\ submit = "running"
        /\ \/ batchStart' = batchStart + BatchLimit /\ submit' = submit
           \/ batchStart' = batchStart /\ submit' = "err"
    BY <1>2 DEF SendBatch
  <2>0. PICK n \in Nat : n = batchStart + BatchLimit
    OBVIOUS
  <2>3. SentUpTo(n)'
    <3>1. \A m \in Messages : offered'[m] = IF m <= n THEN 1 ELSE 0
      BY <2>0, <2>2 DEF AddOne, Batch
    <3> QED
      BY <2>2, <3>1
  <2>4. \A m \in Messages : /\ stored'[m] <= submits
                            /\ stored'[m] < submits + offered'[m]
    <3> SUFFICES ASSUME NEW m \in Messages
                 PROVE  stored'[m] <= submits /\ stored'[m] < submits + offered'[m]
      OBVIOUS
    <3>1. offered'[m] = IF m \in Batch THEN offered[m] + 1 ELSE offered[m]
      BY <2>2 DEF AddOne
    <3>2. stored'[m] = IF m \in S THEN stored[m] + 1 ELSE stored[m]
      BY <2>1 DEF AddOne
    <3>3. m \in S => m \in Batch
      BY <2>1
    <3>4. m \in Batch => offered[m] = 0
      BY <2>2 DEF Batch
    <3> QED
      BY <2>2, <3>1, <3>2, <3>3, <3>4
  <2>5. offered' \in [Messages -> Nat] /\ stored' \in [Messages -> Nat]
    BY <2>1, <2>2 DEF AddOne
  <2>6. SubmitTypeOK'
    <3>1. closed' \in BOOLEAN
      BY <2>2, Zenon
    <3>2. /\ len' \in 0 .. MaxLen /\ bad' \subseteq Messages' /\ submits' \in 0 .. MaxSubmits
          /\ submit' \in {"idle", "running", "nil", "err"} /\ batchStart' \in Nat
          /\ marshalled' \in 0 .. len'
          /\ Messages' = Messages
      BY <2>2
    <3> QED
      BY <2>5, <3>1, <3>2, Zenon
  <2>7. submit' \in {"running", "nil"} => SentUpTo(batchStart)'
    BY <2>0, <2>2, <2>3
  <2> QED
    BY <2>2, <2>3, <2>4, <2>6, <2>7, <2>8, Zenon
<1>3. CASE ReturnNil
  <2>1. bad = {}
    BY <1>3 DEF ReturnNil, Marshalled
  <2> QED
    BY <1>3, <2>1, Zenon DEF ReturnNil
<1>4. CASE Close
  BY <1>4, Zenon DEF Close
<1>5. CASE UNCHANGED submitVars
  BY <1>5, Zenon DEF submitVars
<1> QED
  BY <1>1, <1>2, <1>3, <1>4, <1>5, <1>6, Zenon DEF SubmitNext

\* The types and the invariant hold in every reachable state.
LEMMA SubmitInvariance == SubmitSpec => [](SubmitTypeOK /\ SubmitInv)
<1>1. SubmitInit => SubmitTypeOK /\ SubmitInv
  <2> SUFFICES ASSUME SubmitInit PROVE SubmitTypeOK /\ SubmitInv
    OBVIOUS
  <2>1. closed \in BOOLEAN
    BY Zenon DEF SubmitInit
  <2>2. len \in 0 .. MaxLen /\ submits \in 0 .. MaxSubmits
    BY SubmitterAssumption DEF SubmitInit
  <2>3. SubmitTypeOK
    BY <2>1, <2>2 DEF SubmitInit, SubmitTypeOK
  <2>4. SentUpTo(0)
    BY <2>2, SubmitterAssumption DEF SubmitInit, SentUpTo, Messages
  <2>5. \A m \in Messages : stored[m] = 0
    BY DEF SubmitInit
  <2> QED
    BY <2>3, <2>4, <2>5 DEF SubmitInv, SubmitInit
<1> QED
  BY <1>1, SubmitStep, PTL DEF SubmitSpec

\* A batch with a message that does not marshal, wherever it is in the batch, leaves
\* nothing in the queue, and no call with it returns nil.
THEOREM MarshalFirst == SubmitSpec => []AllOrNothingMarshalled
<1>1. SubmitInv => AllOrNothingMarshalled
  BY DEF SubmitInv, AllOrNothingMarshalled
<1> QED
  BY <1>1, SubmitInvariance, PTL

\* At every moment a call has sent a prefix of its batch.
LEMMA PrefixSent == SubmitTypeOK /\ SubmitInv => SentIsPrefix
<1> SUFFICES ASSUME SubmitTypeOK, SubmitInv PROVE SentIsPrefix
  OBVIOUS
<1>1. PICK n \in Nat : SentUpTo(n)
  BY DEF SubmitInv
<1>2. \A m \in Messages : m \in Nat
  BY SubmitterAssumption DEF SubmitTypeOK, Messages
<1>3. \A m \in Messages : offered[m] = IF m <= n THEN 1 ELSE 0
  BY <1>1 DEF SentUpTo
<1> QED
  BY <1>1, <1>2, <1>3 DEF SentIsPrefix

\* The slices cover a batch of any length, each message once, and a task is
\* duplicated only by a caller that repeats the call.
THEOREM SlicesCoverBatch == SubmitSpec => []SentOncePerCall
<1>1. SubmitTypeOK /\ SubmitInv => (submit = "nil" => \A m \in Messages : offered[m] = 1)
  BY SubmitterAssumption DEF SubmitTypeOK, SubmitInv, SentUpTo, Messages
<1>2. SubmitInv => \A m \in Messages : stored[m] <= submits
  BY DEF SubmitInv
<1>3. SubmitTypeOK /\ SubmitInv => SentOncePerCall
  BY <1>1, <1>2, PrefixSent DEF SentOncePerCall
<1> QED
  BY <1>3, SubmitInvariance, PTL

-----------------------------------------------------------------------------
(***************************************************************************)
(* The keep-alive timer of a worker.                                       *)
(***************************************************************************)
\* How long the message has been hidden at most, counted from the moment SQS
\* last started the timeout, when the worker has just entered its state.
Age(state) ==
  CASE state \in {"reply", "granted"}  -> 0
    [] state = "await"                 -> Latency
    [] state \in {"request", "deleting"} -> Latency + KeepAliveInterval
    [] OTHER                           -> 2 * Latency + KeepAliveInterval

Limit(state) == IF state = "await" THEN KeepAliveInterval ELSE Latency

\* A worker busy with the message has the latest receipt, has not stayed in its
\* state longer than it may, and the message stays hidden for the rest.
TimerInv ==
  \A w \in Workers : phase[w] # "idle" =>
    /\ holder = w
    /\ ~gone
    /\ waited[w] <= Limit(phase[w])
    /\ hidden + Age(phase[w]) + waited[w] >= SqsTimeout
    /\ phase[w] \in Handling => ext[w] < MaxVisibilityExtensions

\* Both intervals are natural numbers.
LEMMA Intervals == SqsTimeout \in Nat /\ KeepAliveInterval \in Nat
<1>1. VisibilityTimeout \div TicksPerSecond \in Nat
  BY TimerAssumption
<1> QED
  BY <1>1, TimerAssumption DEF SqsTimeout, KeepAliveInterval

\* Every step keeps TypeOK and TimerInv, if the timer leaves time for transit.
LEMMA TimerStep ==
  ASSUME Timely, TimerTypeOK, TimerInv, [TimerNext]_timerVars
  PROVE  TimerTypeOK' /\ TimerInv'
<1> USE TimerAssumption, Intervals DEF TimerTypeOK, Transit, Handling
<1>1. hidden = 0 => \A w \in Workers : phase[w] = "idle"
  BY DEF TimerInv, Timely, Age, Limit
<1>2. ASSUME NEW w \in Workers, WorkerStep(w) PROVE TimerTypeOK' /\ TimerInv'
  <2> USE DEF TimerInv, Enter, Age, Limit
  <2>1. CASE Receive(w)
    BY <1>1, <2>1 DEF Receive
  <2>2. CASE BeginTask(w)
    BY <2>2 DEF BeginTask
  <2>3. CASE HandlerSucceeds(w)
    BY <2>3 DEF HandlerSucceeds
  <2>4. CASE GiveUp(w)
    BY <2>4 DEF GiveUp
  <2>5. CASE TimerFires(w)
    BY <2>5 DEF TimerFires
  <2>6. CASE Extend(w)
    BY <2>6 DEF Extend
  <2>7. CASE ExtendFails(w)
    BY <2>7 DEF ExtendFails
  <2>8. CASE Answer(w)
    BY <2>8 DEF Answer
  <2>9. CASE Delete(w)
    BY <2>9, Zenon DEF Delete
  <2> QED
    BY <1>2, <2>1, <2>2, <2>3, <2>4, <2>5, <2>6, <2>7, <2>8, <2>9 DEF WorkerStep
<1>3. CASE Tick
  <2>1. TimerTypeOK'
    BY <1>3 DEF Tick
  <2>2. ASSUME NEW w \in Workers, phase'[w] # "idle"
        PROVE  /\ holder' = w /\ ~gone'
               /\ waited'[w] <= Limit(phase'[w])
               /\ hidden' + Age(phase'[w]) + waited'[w] >= SqsTimeout
               /\ phase'[w] \in Handling => ext'[w] < MaxVisibilityExtensions
    BY <1>3, <2>2 DEF Tick, TimerInv, Age, Limit
  <2> QED
    BY <2>1, <2>2 DEF TimerInv
<1>4. CASE UNCHANGED timerVars
  BY <1>4 DEF timerVars, TimerInv
<1> QED
  BY <1>2, <1>3, <1>4 DEF TimerNext

\* The invariant holds in every reachable state.
LEMMA TimerInvariance ==
  ASSUME Timely
  PROVE  TimerSpec => [](TimerTypeOK /\ TimerInv)
<1>1. TimerInit => TimerTypeOK /\ TimerInv
  <2> SUFFICES ASSUME TimerInit PROVE TimerTypeOK /\ TimerInv
    OBVIOUS
  <2>1. \A w \in Workers : phase[w] = "idle"
    BY DEF TimerInit
  <2>2. TimerTypeOK
    <3>1. gone \in BOOLEAN
      BY Zenon DEF TimerInit
    <3>2. 0 \in 0 .. MaxVisibilityExtensions
      BY TimerAssumption
    <3>3. hidden \in Nat /\ holder \in Workers \cup {None}
      BY DEF TimerInit
    <3> QED
      BY <3>1, <3>2, <3>3 DEF TimerInit, TimerTypeOK, Transit
  <2> QED
    BY <2>1, <2>2 DEF TimerInv
<1>2. TimerTypeOK /\ TimerInv /\ [TimerNext]_timerVars => (TimerTypeOK /\ TimerInv)'
  BY TimerStep
<1> QED
  BY <1>1, <1>2, PTL DEF TimerSpec

\* Whatever the timeout, the number of workers and of extensions: if the timer
\* interval and three transits fit into the whole seconds that SQS counts, every
\* extension and every delete finds the message hidden under the caller's receipt.
THEOREM CallsArriveInTime ==
  ASSUME Timely
  PROVE  TimerSpec => []CallsInTime
<1>1. TimerTypeOK /\ TimerInv => CallsInTime
  BY Intervals, TimerAssumption
  DEF TimerTypeOK, TimerInv, CallsInTime, Timely, Age, Limit
<1> QED
  BY <1>1, TimerInvariance, PTL

\* Under the same condition no two handlers run the task at the same time.
THEOREM NoConcurrentHandlers ==
  ASSUME Timely
  PROVE  TimerSpec => []OneHandlerAtATime
<1>1. TimerInv => OneHandlerAtATime
  BY DEF TimerInv, OneHandlerAtATime, Handling
<1> QED
  BY <1>1, TimerInvariance, PTL
-----------------------------------------------------------------------------
(***************************************************************************)
(* Retry and Loop.                                                         *)
(***************************************************************************)
\* What a strategy decides about, without the clock.
DecideTypes ==
  /\ strategies \in Seq(Names) /\ maxAttempts \in Nat /\ looping \in BOOLEAN
  /\ retrying \in {"act", "decide", "done"}
  /\ i \in Nat /\ k \in Nat \ {0}
  /\ lastErr \in Errors \cup {"nil"}
  /\ calls \in Nat /\ fails \in Nat

\* The counter counts the failures since the last success, and the strategies
\* already asked about the last error have all agreed.
RetryInv ==
  /\ retrying = "act" => i = fails + 1
  /\ retrying = "act" /\ fails > 0 =>
       /\ \A n \in DOMAIN strategies : /\ strategies[n] = "limit" => fails < maxAttempts
                                       /\ strategies[n] = "retriable" => lastErr \in Listed
                                       /\ strategies[n] = "nonRetriable" => lastErr \notin Listed
  /\ retrying = "decide" =>
       /\ i = fails /\ lastErr \in Errors
       /\ \A n \in DOMAIN strategies : n < k => ShouldRetry(strategies[n])
  /\ retrying \in {"act", "decide"} /\ ~looping => calls = fails
  /\ retrying = "done" /\ lastErr = "nil" => i = calls
  /\ retrying = "done" /\ lastErr # "nil" =>
       i = fails /\ \E n \in DOMAIN strategies : ~ShouldRetry(strategies[n])

\* What each of the strategies decides.
LEMMA StrategiesDecide ==
  ASSUME NEW name \in Names
  PROVE  /\ name = "limit" => (ShouldRetry(name) <=> i < maxAttempts)
         /\ name = "retriable" => (ShouldRetry(name) <=> lastErr \in Listed)
         /\ name = "nonRetriable" => (ShouldRetry(name) <=> lastErr \notin Listed)
         /\ name = "backoff" => ShouldRetry(name)
BY Zenon DEF Names, ShouldRetry

\* Every step keeps the types and the invariant.
LEMMA RetryStep == DecideTypes /\ RetryInv /\ [RetryNext]_retryVars => (DecideTypes /\ RetryInv)'
<1> SUFFICES ASSUME DecideTypes, RetryInv, [RetryNext]_retryVars PROVE (DecideTypes /\ RetryInv)'
  OBVIOUS
<1> USE RetryAssumption DEF DecideTypes, RetryInv, conf
<1>1. CASE ActionSucceeds
  <2>1. /\ retrying = "act" /\ calls' = calls + 1 /\ lastErr' = "nil" /\ fails' = 0
        /\ IF looping THEN retrying' = retrying /\ i' = 1 ELSE retrying' = "done" /\ i' = i
        /\ UNCHANGED <<strategies, maxAttempts, looping, k>>
    BY <1>1 DEF ActionSucceeds
  <2>2. CASE looping
    BY <2>1, <2>2
  <2>3. CASE ~looping
    BY <2>1, <2>3
  <2> QED
    BY <2>2, <2>3
<1>2. CASE ActionFails
  <2>1. /\ retrying = "act" /\ calls' = calls + 1 /\ lastErr' \in Errors /\ fails' = fails + 1
        /\ retrying' = "decide" /\ k' = 1 /\ UNCHANGED <<strategies, maxAttempts, looping, i>>
    BY <1>2 DEF ActionFails
  <2>2. \A n \in DOMAIN strategies : ~(n < 1)
    OBVIOUS
  <2>3. DecideTypes'
    BY <2>1
  <2> QED
    BY <2>1, <2>2, <2>3
<1>3. CASE Decide
  <2>1. /\ retrying = "decide" /\ k \in DOMAIN strategies
        /\ UNCHANGED <<strategies, maxAttempts, looping, i, lastErr, calls, fails>>
        /\ IF ShouldRetry(strategies[k]) THEN k' = k + 1 /\ retrying' = retrying
           ELSE retrying' = "done" /\ k' = k
    <3>1. k \in DOMAIN strategies
      BY <1>3 DEF Decide
    <3> QED
      BY <1>3, <3>1, Zenon DEF Decide
  <2>2. \A n \in DOMAIN strategies : ShouldRetry(strategies[n])' <=> ShouldRetry(strategies[n])
    BY <2>1 DEF ShouldRetry
  <2>3. CASE ShouldRetry(strategies[k])
    <3>1. retrying' = "decide" /\ k' = k + 1
      BY <2>1, <2>3
    <3>2. \A n \in DOMAIN strategies : n < k + 1 => n < k \/ n = k
      OBVIOUS
    <3>3. \A n \in DOMAIN strategies' : n < k' => ShouldRetry(strategies[n])'
      BY <2>1, <2>2, <2>3, <3>1, <3>2
    <3>4. DecideTypes'
      BY <2>1, <3>1
    <3> QED
      BY <2>1, <3>1, <3>3, <3>4
  <2>4. CASE ~ShouldRetry(strategies[k])
    <3>1. retrying' = "done" /\ k' = k
      BY <2>1, <2>4
    <3>2. \E n \in DOMAIN strategies' : ~ShouldRetry(strategies[n])'
      BY <2>1, <2>2, <2>4
    <3> QED
      BY <2>1, <3>1, <3>2
  <2> QED
    BY <2>3, <2>4
<1>4. CASE Again
  <2>1. /\ retrying = "decide" /\ retrying' = "act" /\ i' = i + 1
        /\ UNCHANGED <<strategies, maxAttempts, looping, k, lastErr, calls, fails>>
        /\ \A n \in DOMAIN strategies : n < k
    BY <1>4 DEF Again
  <2>2. \A n \in DOMAIN strategies : ShouldRetry(strategies[n]) /\ strategies[n] \in Names
    BY <2>1
  <2>3. \A n \in DOMAIN strategies : /\ strategies[n] = "limit" => i < maxAttempts
                                     /\ strategies[n] = "retriable" => lastErr \in Listed
                                     /\ strategies[n] = "nonRetriable" => lastErr \notin Listed
    BY <2>2, StrategiesDecide
  <2> QED
    BY <2>1, <2>3
<1>5. CASE UNCHANGED retryVars
  BY <1>5, Zenon DEF retryVars, ShouldRetry
<1> QED
  BY <1>1, <1>2, <1>3, <1>4, <1>5 DEF RetryNext

\* The invariant gives the property: the strategies that do not look at the clock
\* forbid a retry exactly if one of those given does.
LEMMA InvariantAgrees == DecideTypes /\ RetryInv => AllStrategiesAgree
<1> SUFFICES ASSUME DecideTypes, RetryInv PROVE AllStrategiesAgree
  OBVIOUS
<1> USE DEF DecideTypes, RetryInv
<1>1. \A n \in DOMAIN strategies : strategies[n] \in Names
  OBVIOUS
<1>2. ASSUME retrying = "done", lastErr # "nil"
      PROVE  \/ Given("limit") /\ fails >= maxAttempts
             \/ Given("retriable") /\ lastErr \notin Listed
             \/ Given("nonRetriable") /\ lastErr \in Listed
  <2>1. PICK n \in DOMAIN strategies : ~ShouldRetry(strategies[n])
    BY <1>2
  <2>2. i = fails
    BY <1>2
  <2>3. \/ strategies[n] = "limit" /\ ~(i < maxAttempts)
        \/ strategies[n] = "retriable" /\ lastErr \notin Listed
        \/ strategies[n] = "nonRetriable" /\ lastErr \in Listed
    BY <1>1, <2>1, StrategiesDecide DEF Names
  <2> QED
    BY <2>2, <2>3 DEF Given
<1>3. ASSUME retrying = "act", fails > 0
      PROVE  ~(\/ Given("limit") /\ fails >= maxAttempts
               \/ Given("retriable") /\ lastErr \notin Listed
               \/ Given("nonRetriable") /\ lastErr \in Listed)
  BY <1>3 DEF Given
<1>4. retrying = "done" => i = IF lastErr = "nil" THEN calls ELSE fails
  OBVIOUS
<1> QED
  BY <1>2, <1>3, <1>4 DEF AllStrategiesAgree

\* The quotient and the remainder that were meant.
LEMMA Remainder ==
  ASSUME NEW m \in Nat \ {0}, NEW x \in Int
  PROVE  x % m \in 0 .. m - 1
OBVIOUS

LEMMA SmallRemainder ==
  ASSUME NEW m \in Nat \ {0}, NEW x \in 0 .. m - 1
  PROVE  x % m = x
OBVIOUS

\* Arithmetic gives an int64, and what fits stays.
LEMMA WrapRange ==
  ASSUME NEW x \in Int
  PROVE  Wrap(x) \in MinInt .. MaxInt /\ (x \in 0 .. MaxInt => Wrap(x) = x)
<1>1. Modulus \in Nat \ {0} /\ MaxInt \in Nat /\ MinInt = -MaxInt - 1 /\ Modulus = 2 * MaxInt + 2
  BY WordAssumption
<1>2. x % Modulus \in 0 .. Modulus - 1
  BY <1>1, Remainder
<1>3. x \in 0 .. MaxInt => x % Modulus = x
  BY <1>1, SmallRemainder
<1> QED
  BY <1>1, <1>2, <1>3 DEF Wrap

\* What a backoff.Strategy returns is never negative, and what the comment of the
\* strategy says if that fits.
LEMMA LinearDelay ==
  ASSUME NEW base \in Nat, NEW n \in Nat
  PROVE  Linear(base, n) \in 0 .. MaxInt /\ (base * n <= MaxInt => Linear(base, n) = base * n)
<1> DEFINE product == base * n
<1>1. product \in Nat
  OBVIOUS
<1>2. Linear(base, n) = IF Wrap(product) >= 0 THEN Wrap(product) ELSE MaxInt
  BY DEF Linear
<1> HIDE DEF product
<1>3. Wrap(product) \in MinInt .. MaxInt /\ (product \in 0 .. MaxInt => Wrap(product) = product)
  BY <1>1, WrapRange
<1>4. MaxInt \in Nat /\ MinInt \in Int
  BY WordAssumption
<1>5. Linear(base, n) \in 0 .. MaxInt /\ (product <= MaxInt => Linear(base, n) = product)
  BY <1>1, <1>2, <1>3, <1>4
<1> QED
  BY <1>5 DEF product

LEMMA ExponentialDelay ==
  ASSUME NEW base \in Nat, NEW num, NEW den, NEW n,
         NEW p \in Nat \ {0}, num ^ (n - 1) \div den ^ (n - 1) = p
  PROVE  /\ Exponential(base, num, den, n) \in 0 .. MaxInt
         /\ base * p <= MaxExact => Exponential(base, num, den, n) = base * p
<1> DEFINE f == FromFloat(Float(p))
           product == base * f
<1>1. MaxInt \in Nat /\ MinInt \in Int /\ MaxExact \in 1 .. MaxInt
  BY WordAssumption, FloatAssumption
<1>2. Exponential(base, num, den, n) = IF Wrap(product) >= 0 THEN Wrap(product) ELSE MaxInt
  BY DEF Exponential, Pow
<1>3. f \in Int
  BY <1>1 DEF FromFloat
<1>4. product \in Int
  BY <1>3
<1>5. base * p <= MaxExact => product = base * p
  <2> SUFFICES ASSUME base * p <= MaxExact PROVE product = base * p
    OBVIOUS
  <2>1. CASE base = 0
    <3> HIDE DEF f
    <3> QED
      BY <1>3, <2>1
  <2>2. CASE base > 0
    <3>1. p <= base * p
      BY <2>2
    <3>2. p \in 0 .. MaxInt /\ p <= MaxExact /\ p \in MinInt .. MaxInt
      BY <1>1, <3>1, WordAssumption
    <3>3. Float(p) = p
      BY <3>2, FloatAssumption
    <3> QED
      BY <3>2, <3>3 DEF FromFloat
  <2> QED
    BY <2>1, <2>2
<1>6. base * p \in Nat
  OBVIOUS
<1> HIDE DEF product
<1>7. Wrap(product) \in MinInt .. MaxInt /\ (product \in 0 .. MaxInt => Wrap(product) = product)
  BY <1>4, WrapRange
<1> QED
  BY <1>1, <1>2, <1>5, <1>6, <1>7

\* A power of a fraction may be cut to nothing but never to less.
LEMMA FractionalDelay ==
  ASSUME NEW base \in Nat, NEW num, NEW den, NEW n
  PROVE  Exponential(base, num, den, n) \in 0 .. MaxInt
<1> DEFINE product == base * FromFloat(Pow(num, den, n - 1))
<1>1. MaxInt \in Nat /\ MinInt \in Int
  BY WordAssumption
<1>2. Exponential(base, num, den, n) = IF Wrap(product) >= 0 THEN Wrap(product) ELSE MaxInt
  BY DEF Exponential
<1>3. product \in Int
  BY <1>1 DEF FromFloat
<1> HIDE DEF product
<1>4. Wrap(product) \in MinInt .. MaxInt
  BY <1>3, WrapRange
<1> QED
  BY <1>1, <1>2, <1>4

Least(a, b) == IF a < b THEN a ELSE b

BackoffType == [strategy : Backoffs, base : 0 .. MaxInt, max : 0 .. MaxInt]

\* The documented delay is an integer multiple.
Integral == backoff.strategy # "fractional"

LEMMA DelayExact ==
  ASSUME backoff \in BackoffType, fails \in 1 .. MaxCalls
  PROVE  /\ Delay(fails) \in 0 .. MaxInt /\ Documented \in Nat
         /\ Integral /\ Documented <= MaxExact => Delay(fails) = Documented
<1>1. /\ backoff.base \in Nat /\ backoff.base <= MaxInt /\ backoff.strategy \in Backoffs /\ fails \in Nat
      /\ MaxCalls \in Nat /\ MaxInt \in Nat /\ MaxExact \in 1 .. MaxInt
  BY RetryAssumption, FloatAssumption, WordAssumption DEF BackoffType
<1>2. fails - 1 \in 0 .. MaxCalls
  BY <1>1
<1>3. 1 ^ (fails - 1) = 1 /\ 2 ^ (fails - 1) \in Nat \ {0} /\ 3 ^ (fails - 1) \in Nat \ {0}
  BY <1>2, PowersAssumption
<1>4. \A x \in Nat : x \div 1 = x
  OBVIOUS
<1>5. CASE backoff.strategy = "constant"
  BY <1>1, <1>5 DEF Delay, Documented, Constant
<1>6. CASE backoff.strategy = "linear"
  <2>1. Delay(fails) = Linear(backoff.base, fails) /\ Documented = backoff.base * fails
    BY <1>6 DEF Delay, Documented
  <2>2. Documented \in Nat
    BY <1>1, <2>1
  <2>3. /\ Linear(backoff.base, fails) \in 0 .. MaxInt
        /\ backoff.base * fails <= MaxInt => Linear(backoff.base, fails) = backoff.base * fails
    BY <1>1, LinearDelay, Zenon
  <2>4. Documented <= MaxExact => Documented <= MaxInt
    BY ONLY <1>1, <2>2
  <2> QED
    BY ONLY <2>1, <2>2, <2>3, <2>4
<1>7. CASE backoff.strategy = "exponential"
  <2>1. /\ Delay(fails) = Exponential(backoff.base, 3, 1, fails)
        /\ Documented = backoff.base * 3 ^ (fails - 1)
    BY <1>7 DEF Delay, Documented
  <2>2. Documented \in Nat
    BY <1>1, <1>3, <2>1
  <2>3. 3 ^ (fails - 1) \div 1 ^ (fails - 1) = 3 ^ (fails - 1)
    BY <1>3, <1>4
  <2> QED
    BY <1>1, <1>3, <2>1, <2>2, <2>3, ExponentialDelay
<1>8. CASE backoff.strategy = "binary"
  <2>1. /\ Delay(fails) = Exponential(backoff.base, 2, 1, fails)
        /\ Documented = backoff.base * 2 ^ (fails - 1)
    BY <1>8 DEF Delay, Documented, BinaryExponential
  <2>2. Documented \in Nat
    BY <1>1, <1>3, <2>1
  <2>3. 2 ^ (fails - 1) \div 1 ^ (fails - 1) = 2 ^ (fails - 1)
    BY <1>3, <1>4
  <2> QED
    BY <1>1, <1>3, <2>1, <2>2, <2>3, ExponentialDelay
<1>9. CASE backoff.strategy = "fractional"
  <2>1. /\ Delay(fails) = Exponential(backoff.base, 3, 2, fails)
        /\ Documented = (backoff.base * 3 ^ (fails - 1)) \div 2 ^ (fails - 1)
    BY <1>9 DEF Delay, Documented
  <2>2. Documented \in Nat
    BY <1>1, <1>3, <2>1
  <2> QED
    BY <1>1, <1>9, <2>1, <2>2, FractionalDelay DEF Integral
<1> QED
  BY <1>1, <1>5, <1>6, <1>7, <1>8, <1>9 DEF Backoffs

\* The conversions to float64 and back do no harm to a cap that leaves it two bits.
LEMMA CapIsExact ==
  ASSUME NEW max \in 0 .. MaxInt, NEW d \in 0 .. MaxInt, 4 * max <= MaxExact
  PROVE  Capped(d, max) = Least(d, max)
<1>1. MaxInt \in Nat /\ MinInt = -MaxInt - 1 /\ MaxExact \in 1 .. MaxInt
  BY WordAssumption, FloatAssumption
<1>2. max <= MaxExact
  BY <1>1
<1>3. Float(max) = max
  BY <1>1, <1>2, FloatAssumption
<1>4. Float(d) \in Nat /\ (IF d <= MaxExact THEN Float(d) = d ELSE Float(d) >= MaxExact)
  BY FloatAssumption
<1>5. (IF Float(d) < max THEN Float(d) ELSE max) = Least(d, max)
  BY <1>1, <1>2, <1>4 DEF Least
<1>6. Least(d, max) \in MinInt .. MaxInt
  BY <1>1 DEF Least
<1> QED
  BY <1>3, <1>5, <1>6 DEF Capped, FromFloat

\* Jitter moves such a delay by no more than its percentage and a nanosecond.
LEMMA JitterBounds ==
  ASSUME NEW c \in Nat, NEW j \in 0 .. 100, NEW percent \in {-j, j}, 4 * c <= MaxExact
  PROVE  /\ Jittered(c, percent) \in Nat
         /\ Jittered(c, percent) \in (c * (100 - j)) \div 100 - 1 .. (c * (100 + j)) \div 100 + 1
<1> DEFINE low == (c * (100 - j)) \div 100
           high == (c * (100 + j)) \div 100
           exact == (c * (100 + percent)) \div 100
           end == IF percent > 0 THEN exact + Slack(c)
                  ELSE IF exact > Slack(c) THEN exact - Slack(c) ELSE 0
<1>1. MaxInt \in Nat /\ MinInt = -MaxInt - 1 /\ MaxExact \in 1 .. MaxInt
  BY WordAssumption, FloatAssumption
<1>2. Slack(c) \in {0, 1}
  <2>1. ASSUME NEW m \in Nat \ {0}, NEW x \in 0 .. m - 1 PROVE x \div m = 0
    BY <2>1
  <2>2. 3 * c \in 0 .. MaxExact - 1
    BY <1>1
  <2>3. (3 * c) \div MaxExact = 0
    BY <1>1, <2>1, <2>2
  <2> QED
    BY <2>3 DEF Slack
<1>3. /\ low \in Nat /\ high \in Nat /\ exact \in Nat
      /\ exact = IF percent > 0 THEN high ELSE low
      /\ low <= high /\ high <= 2 * c
  <2>1. /\ 100 - j \in Nat /\ 100 + j \in Nat /\ 100 - j <= 100 + j /\ 100 + j <= 200
    OBVIOUS
  <2>2. \A x, y, z \in Nat : x <= y => z * x <= z * y
    OBVIOUS
  <2>3. \A x, y \in Nat : x * y \in Nat
    OBVIOUS
  <2> DEFINE a == c * (100 - j)
             b == c * (100 + j)
  <2>4. a \in Nat /\ b \in Nat /\ a <= b /\ b <= c * 200
    BY <2>1, <2>2, <2>3
  <2> HIDE DEF a, b
  <2>5. /\ a \div 100 \in Nat /\ b \div 100 \in Nat /\ a \div 100 <= b \div 100
        /\ b \div 100 <= 2 * c
    BY <2>4
  <2>6. low = a \div 100 /\ high = b \div 100
    BY DEF a, b
  <2>7. percent > 0 => percent = j
    OBVIOUS
  <2>8. ~(percent > 0) => 100 + percent = 100 - j
    OBVIOUS
  <2>9. exact = IF percent > 0 THEN high ELSE low
    BY <2>7, <2>8
  <2> QED
    BY <2>5, <2>6, <2>9
<1>4. Jittered(c, percent) = FromFloat(end)
  <2>1. ~(c < 0)
    OBVIOUS
  <2> QED
    BY <2>1 DEF Jittered
<1> HIDE DEF low, high, exact
<1>5. /\ end \in Nat /\ end \in low - 1 .. high + 1 /\ end <= 2 * c + 1
  BY <1>2, <1>3
<1>6. end \in MinInt .. MaxInt
  BY <1>1, <1>5
<1>7. Jittered(c, percent) = end
  BY <1>4, <1>6 DEF FromFloat
<1> HIDE DEF end
<1> QED
  BY <1>5, <1>7 DEF low, high

\* More to jitter makes no less.
LEMMA JitterGrows ==
  ASSUME NEW c \in Nat, NEW max \in Nat, c <= max, NEW j \in 0 .. 100
  PROVE  (c * (100 + j)) \div 100 <= (max * (100 + j)) \div 100
<1> DEFINE a == c * (100 + j)
           b == max * (100 + j)
<1>1. \A x, y, z \in Nat : x <= y => x * z <= y * z
  OBVIOUS
<1>2. \A x, y \in Nat : x * y \in Nat
  OBVIOUS
<1>3. a \in Nat /\ b \in Nat /\ a <= b
  BY <1>1, <1>2
<1> HIDE DEF a, b
<1>4. a \div 100 <= b \div 100
  BY <1>3
<1> QED
  BY <1>4 DEF a, b

\* A sleep as it is documented.
SleepOK(d) ==
  LET capped == Least(Documented, backoff.max)
  IN  4 * backoff.max <= MaxExact =>
        /\ d \in 0 .. (backoff.max * (100 + Jitter)) \div 100 + 1
        /\ Documented <= MaxExact /\ Integral =>
             d \in (capped * (100 - Jitter)) \div 100 - 1 .. (capped * (100 + Jitter)) \div 100 + 1

LEMMA SleepAsDocumented ==
  ASSUME backoff \in BackoffType, fails \in 1 .. MaxCalls, NEW d \in Sleeps(Delay(fails))
  PROVE  d \in Int /\ SleepOK(d)
<1>0. d \in Int
  <2>1. \A x : FromFloat(x) \in Int
    BY WordAssumption DEF FromFloat
  <2>2. \E x : d = FromFloat(x)
    BY DEF Sleeps, Capped, Jittered
  <2> QED
    BY <2>1, <2>2
<1> SUFFICES ASSUME 4 * backoff.max <= MaxExact PROVE SleepOK(d)
  BY <1>0 DEF SleepOK
<1>1. /\ Delay(fails) \in 0 .. MaxInt /\ Documented \in Nat
      /\ Integral /\ Documented <= MaxExact => Delay(fails) = Documented
  BY DelayExact
<1>2. backoff.max \in 0 .. MaxInt /\ Jitter \in 0 .. 100 /\ MaxInt \in Nat
  BY RetryAssumption, WordAssumption DEF BackoffType
<1> DEFINE c == Least(Delay(fails), backoff.max)
<1>3. Capped(Delay(fails), backoff.max) = c
  BY <1>1, <1>2, CapIsExact
<1>4. /\ c \in Nat /\ c <= backoff.max /\ 4 * c <= 4 * backoff.max
      /\ Integral /\ Documented <= MaxExact => c = Least(Documented, backoff.max)
  BY <1>1, <1>2 DEF Least
<1>5. d = c \/ \E percent \in {-Jitter, Jitter} : d = Jittered(c, percent)
  BY <1>3 DEF Sleeps
<1> HIDE DEF c
<1>6. 4 * c <= MaxExact /\ MaxExact \in Nat
  BY <1>2, <1>4, FloatAssumption
<1>7. d \in Nat /\ d \in (c * (100 - Jitter)) \div 100 - 1 .. (c * (100 + Jitter)) \div 100 + 1
  <2>1. CASE d = c
    <3>1. (c * (100 - Jitter)) \div 100 <= c /\ c <= (c * (100 + Jitter)) \div 100
      <4> DEFINE a == c * (100 - Jitter)
                 b == c * (100 + Jitter)
      <4>1. \A x, y, z \in Nat : x <= y => z * x <= z * y
        OBVIOUS
      <4>2. \A x, y \in Nat : x * y \in Nat
        OBVIOUS
      <4>3. 100 - Jitter \in Nat /\ 100 + Jitter \in Nat /\ 100 - Jitter <= 100 /\ 100 <= 100 + Jitter
        BY <1>2
      <4>4. a \in Nat /\ b \in Nat /\ a <= c * 100 /\ c * 100 <= b
        BY <1>4, <4>1, <4>2, <4>3
      <4> HIDE DEF a, b
      <4>5. a \div 100 <= c /\ c <= b \div 100 /\ a \div 100 \in Nat /\ b \div 100 \in Nat
        BY <1>4, <4>4
      <4> QED
        BY <4>5 DEF a, b
    <3>2. (c * (100 - Jitter)) \div 100 \in Int /\ (c * (100 + Jitter)) \div 100 \in Int
      BY <1>2, <1>4
    <3> QED
      BY <1>4, <2>1, <3>1, <3>2
  <2>2. ASSUME NEW percent \in {-Jitter, Jitter}, d = Jittered(c, percent)
        PROVE  /\ d \in Nat
               /\ d \in (c * (100 - Jitter)) \div 100 - 1 .. (c * (100 + Jitter)) \div 100 + 1
    <3>1. c \in Nat /\ Jitter \in 0 .. 100 /\ 4 * c <= MaxExact
      BY <1>2, <1>4, <1>6, Zenon
    <3>2. /\ Jittered(c, percent) \in Nat
          /\ Jittered(c, percent) \in
               (c * (100 - Jitter)) \div 100 - 1 .. (c * (100 + Jitter)) \div 100 + 1
      BY ONLY <2>2, <3>1, JitterBounds, Zenon
    <3> QED
      BY ONLY <2>2, <3>2, Zenon
  <2> QED
    BY <1>5, <2>1, <2>2
<1>8. (c * (100 + Jitter)) \div 100 <= (backoff.max * (100 + Jitter)) \div 100
  <2>1. backoff.max \in Nat
    BY <1>2
  <2> QED
    BY <1>2, <1>4, <2>1, JitterGrows, Zenon
<1>9. d \in 0 .. (backoff.max * (100 + Jitter)) \div 100 + 1
  <2>1. (c * (100 + Jitter)) \div 100 \in Int /\ (backoff.max * (100 + Jitter)) \div 100 \in Int
    BY <1>2, <1>4
  <2> QED
    BY ONLY <1>7, <1>8, <2>1
<1> QED
  BY <1>4, <1>7, <1>9 DEF SleepOK

\* Every sleep is of the last failure, and a backoff that is given last has been
\* slept for only if no strategy before it objects.
SleepInv ==
  /\ backoff \in BackoffType
  /\ fails <= calls /\ calls <= MaxCalls
  /\ slept \in Seq(Int)
  /\ slept # <<>> => fails > 0
  /\ \A n \in DOMAIN slept : SleepOK(slept[n])
  /\ retrying = "decide" => k <= Len(strategies) + 1 /\ fails > 0
  /\ BackoffLast =>
       /\ retrying = "decide" => IF k <= Len(strategies) THEN slept = <<>> ELSE Len(slept) = 1
       /\ retrying = "done" => slept = <<>>
       /\ retrying = "act" /\ fails > 0 => Len(slept) = 1

LEMMA SleepStep == DecideTypes /\ RetryInv /\ SleepInv /\ [RetryNext]_retryVars => SleepInv'
<1> SUFFICES ASSUME DecideTypes, RetryInv, SleepInv, [RetryNext]_retryVars PROVE SleepInv'
  OBVIOUS
<1>1. /\ strategies \in Seq(Names) /\ calls \in Nat /\ fails \in Nat /\ k \in Nat \ {0}
      /\ backoff \in BackoffType /\ MaxCalls \in Nat
      /\ fails <= calls /\ calls <= MaxCalls /\ slept \in Seq(Int)
      /\ \A n \in DOMAIN slept : SleepOK(slept[n])
      /\ retrying = "decide" => k <= Len(strategies) + 1 /\ fails > 0 /\ i = fails
      /\ slept # <<>> => fails > 0
  BY RetryAssumption DEF DecideTypes, RetryInv, SleepInv
<1>2. UNCHANGED conf => (BackoffLast' <=> BackoffLast)
  BY DEF conf, BackoffLast, Given
<1>3. UNCHANGED conf /\ fails' = fails => \A d : SleepOK(d)' <=> SleepOK(d)
  BY DEF conf, SleepOK, Documented, Integral
<1>4. BackoffLast => Len(strategies) >= 1 /\ Len(strategies) \in Nat
  BY <1>1 DEF BackoffLast, Given
<1>5. CASE ActionSucceeds \/ ActionFails
  <2>1. /\ slept' = <<>> /\ calls' = calls + 1 /\ calls < MaxCalls
        /\ fails' \in {0, fails + 1} /\ UNCHANGED conf
    BY <1>5 DEF ActionSucceeds, ActionFails
  <2>2. retrying' = "act" => fails' = 0
    BY <1>5 DEF ActionSucceeds, ActionFails
  <2>3. retrying' = "decide" => k' = 1 /\ fails' = fails + 1
    BY <1>5 DEF ActionSucceeds, ActionFails, DecideTypes
  <2>4. DOMAIN slept' = {} /\ slept' \in Seq(Int) /\ Len(strategies) \in Nat
    BY <1>1, <2>1
  <2>5. backoff' = backoff /\ strategies' = strategies
    BY <2>1 DEF conf
  <2>6. fails' <= calls' /\ calls' <= MaxCalls
    BY <1>1, <2>1
  <2>7. retrying' = "decide" => 1 <= Len(strategies) + 1 /\ k' = 1 /\ fails' > 0
    BY <1>1, <2>3, <2>4
  <2>8. (\A n \in DOMAIN slept : SleepOK(slept[n]))'
    BY <2>4, Zenon
  <2>9. BackoffLast' => (retrying' = "decide" => k' <= Len(strategies'))
    BY <1>2, <1>4, <2>1, <2>3, <2>5
  <2>10. retrying' = "act" => ~(fails' > 0)
    BY <2>2
  <2> QED
    BY <1>1, <2>1, <2>4, <2>5, <2>6, <2>7, <2>8, <2>9, <2>10, Zenon DEF SleepInv
<1>6. CASE Decide
  <2>1. /\ retrying = "decide" /\ k <= Len(strategies) /\ UNCHANGED <<conf, fails, calls>>
        /\ IF ShouldRetry(strategies[k]) THEN k' = k + 1 /\ retrying' = retrying
           ELSE retrying' = "done" /\ k' = k
    BY <1>6 DEF Decide
  <2>2. k \in DOMAIN strategies /\ strategies[k] \in Names /\ fails \in 1 .. MaxCalls
    BY <1>1, <2>1
  <2>3. backoff' = backoff /\ strategies' = strategies /\ Len(strategies) \in Nat
    BY <1>1, <2>1 DEF conf
  <2>4. CASE strategies[k] = "backoff"
    <3>1. PICK d : slept' = Append(slept, d) /\ d \in Int /\ SleepOK(d)
      BY <1>1, <1>6, <2>1, <2>2, <2>4, SleepAsDocumented DEF Decide
    <3>2. d \in Int
      BY <3>1
    <3>3. /\ slept' \in Seq(Int) /\ Len(slept') = Len(slept) + 1
          /\ \A n \in DOMAIN slept' : (n \in DOMAIN slept /\ slept'[n] = slept[n]) \/ slept'[n] = d
      BY <1>1, <3>1, <3>2
    <3>4. ShouldRetry(strategies[k])
      BY <2>2, <2>4, StrategiesDecide
    <3>5. k' = k + 1 /\ retrying' = "decide"
      BY <2>1, <3>4
    <3>6. \A n \in DOMAIN slept' : SleepOK(slept'[n])
      BY <1>1, <3>1, <3>3
    <3>7. BackoffLast => k = Len(strategies) /\ slept = <<>>
      BY <2>1, <2>2, <2>4 DEF BackoffLast, SleepInv
    <3>8. BackoffLast => Len(slept') = 1 /\ ~(k' <= Len(strategies))
      BY <1>1, <2>3, <3>3, <3>5, <3>7
    <3>9. (\A n \in DOMAIN slept : SleepOK(slept[n]))'
      BY <1>3, <2>1, <3>6
    <3>10. fails' > 0 /\ fails' <= calls' /\ calls' <= MaxCalls /\ k' <= Len(strategies') + 1
      BY <1>1, <2>1, <2>2, <2>3, <3>5
    <3>11. BackoffLast' => Len(slept') = 1 /\ ~(k' <= Len(strategies'))
      BY <1>2, <2>1, <2>3, <3>8
    <3> QED
      BY <1>1, <2>3, <3>3, <3>5, <3>9, <3>10, <3>11 DEF SleepInv
  <2>5. CASE strategies[k] # "backoff"
    <3>1. slept' = slept
      BY <1>6, <2>5 DEF Decide
    <3>2. BackoffLast => slept = <<>> /\ k # Len(strategies)
      BY <2>1, <2>2, <2>5 DEF BackoffLast, SleepInv
    <3>3. k' \in {k, k + 1} /\ retrying' \in {"decide", "done"}
      BY <2>1
    <3>4. (\A n \in DOMAIN slept : SleepOK(slept[n]))'
      BY <1>1, <1>3, <2>1, <3>1
    <3>5. fails' > 0 /\ fails' <= calls' /\ calls' <= MaxCalls /\ k' <= Len(strategies') + 1
      BY <1>1, <2>1, <2>2, <2>3, <3>3
    <3>6. BackoffLast' => slept' = <<>> /\ k' <= Len(strategies')
      BY <1>1, <1>2, <2>1, <2>3, <3>1, <3>2, <3>3
    <3> QED
      BY <1>1, <2>3, <3>1, <3>3, <3>4, <3>5, <3>6 DEF SleepInv
  <2> QED
    BY <2>4, <2>5
<1>7. CASE Again
  <2>1. /\ retrying = "decide" /\ k > Len(strategies) /\ retrying' = "act"
        /\ UNCHANGED <<conf, k, calls, fails, slept>>
    BY <1>7 DEF Again
  <2>2. backoff' = backoff /\ strategies' = strategies /\ Len(strategies) \in Nat
    BY <1>1, <2>1 DEF conf
  <2>3. BackoffLast => Len(slept) = 1
    BY <1>1, <2>1, <2>2 DEF SleepInv
  <2> QED
    BY <1>1, <1>2, <1>3, <2>1, <2>2, <2>3 DEF SleepInv
<1>8. CASE UNCHANGED retryVars
  <2>1. UNCHANGED <<conf, retrying, k, calls, fails, slept, backoff, strategies>>
    BY <1>8 DEF retryVars, conf
  <2> QED
    BY <1>1, <1>2, <1>3, <2>1 DEF SleepInv
<1> QED
  BY <1>5, <1>6, <1>7, <1>8 DEF RetryNext

LEMMA SleepsFollow == DecideTypes /\ SleepInv => SleepsAsDocumented
<1> SUFFICES ASSUME SleepInv PROVE SleepsAsDocumented
  OBVIOUS
<1>1. \A n \in DOMAIN slept : SleepOK(slept[n])
  BY DEF SleepInv
<1>2. BackoffLast => /\ retrying = "done" => slept = <<>>
                     /\ retrying = "act" /\ fails > 0 => Len(slept) = 1
  BY DEF SleepInv
<1> QED
  BY <1>1, <1>2, Zenon DEF SleepsAsDocumented, SleepOK, BackoffLast, Integral, Least

LEMMA RetryBegins == RetryInit => DecideTypes /\ RetryInv /\ SleepInv
<1> SUFFICES ASSUME RetryInit PROVE DecideTypes /\ RetryInv /\ SleepInv
  OBVIOUS
<1>1. PICK n \in 0 .. MaxStrategies : strategies \in [1 .. n -> Names]
  BY DEF RetryInit
<1>2. strategies \in Seq(Names)
  BY <1>1, RetryAssumption
<1>3. DecideTypes /\ RetryInv
  <2>1. DecideTypes
    BY <1>2, RetryAssumption DEF RetryInit, DecideTypes
  <2>2. RetryInv
    <3>1. retrying = "act" /\ i = 1 /\ fails = 0 /\ calls = 0
      BY DEF RetryInit
    <3> QED
      BY <3>1 DEF RetryInv
  <2> QED
    BY <2>1, <2>2
<1>4. /\ backoff \in BackoffType /\ slept = <<>>
      /\ retrying = "act" /\ calls = 0 /\ fails = 0
  <2>1. backoff \in [strategy : Backoffs, base : BaseDelays, max : MaxBackoffs]
    BY Zenon DEF RetryInit
  <2>2. backoff \in BackoffType
    BY <2>1, RetryAssumption, Zenon DEF BackoffType
  <2> QED
    BY <2>2, Zenon DEF RetryInit
<1>5. SleepInv
  BY <1>4, RetryAssumption DEF SleepInv
<1> QED
  BY <1>3, <1>5

\* However many strategies Retry and Loop are given, in whatever order, an action
\* is tried again only if all agree, an error comes back only if one objects, and
\* the limit counts the failures in a row.
THEOREM RetriesAgree == RetrySpec => []AllStrategiesAgree
<1>1. RetryInit => DecideTypes /\ RetryInv
  BY RetryBegins
<1> QED
  BY <1>1, RetryStep, InvariantAgrees, PTL DEF RetrySpec

\* Whatever the width of a duration, the delays and the jitter, and for every cap
\* of up to a quarter of what a float64 holds exactly: no sleep is negative or over
\* the cap and its jitter, also when the product wraps around, and a delay that a
\* float64 holds is the documented one.  A backoff given last sleeps once before a
\* retry and never before the error is returned.
THEOREM SleepsDocumented == RetrySpec => []SleepsAsDocumented
<1> DEFINE Inv == DecideTypes /\ RetryInv /\ SleepInv
<1>1. RetryInit => Inv
  BY RetryBegins
<1>2. Inv /\ [RetryNext]_retryVars => Inv'
  BY RetryStep, SleepStep
<1>3. Inv => SleepsAsDocumented
  BY SleepsFollow
<1> QED
  BY <1>1, <1>2, <1>3, PTL DEF RetrySpec
=============================================================================
