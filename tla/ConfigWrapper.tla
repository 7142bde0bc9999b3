---------------------------- MODULE ConfigWrapper ----------------------------
(***************************************************************************)
(* The typed configs of config/wrapper/wrappers.go over a source: the      *)
(* config of config/memory, the one of config/env, which never changes, or *)
(* NoopConfig.  GetSafe asks the source, then reads lastValue, then writes *)
(* it, each in a step of its own, so that calls of several goroutines      *)
(* interleave.  The seven wrappers differ in what they convert.            *)
(*                                                                         *)
(* A value is a Go type and a text; all texts parse to the texts the       *)
(* tables below say.  Conversions do not look at shared state and are part *)
(* of the step that asks the source.                                       *)
(***************************************************************************)
EXTENDS Naturals

CONSTANTS
  Callers,
  MaxGets,    \* bound: calls of GetSafe
  MaxChanges  \* bound: calls that change the source

ASSUME WrapperAssumption == MaxGets \in Nat /\ MaxChanges \in Nat

Wrappers == {"Bytes", "Bool", "Int64", "Uint64", "Float64", "Duration", "String"}
Sources  == {"memory", "env", "noop"}

\* What the source may hold: bytes, as from the environment, or typed values.
Bytes == {[type |-> "[]byte", text |-> t] : t \in {"1", "-1", "true", "1s", "PT1S"}}
Typed == {[type |-> "bool", text |-> "true"], [type |-> "int64", text |-> "-1"],
          [type |-> "int", text |-> "1"], [type |-> "uint64", text |-> "1"],
          [type |-> "uint", text |-> "1"], [type |-> "float64", text |-> "1"],
          [type |-> "time.Duration", text |-> "1s"], [type |-> "string", text |-> "PT1S"]}
NoValue == [type |-> "nil", text |-> ""]
Default == "default"

-----------------------------------------------------------------------------
(***************************************************************************)
(* The conversions.  Each is <<>> for an error, or the value.              *)
(***************************************************************************)
ParseBool(t) == IF t \in {"1", "true"} THEN <<"true">> ELSE <<>>
ParseInt(t)  == IF t \in {"1", "-1"} THEN <<t>> ELSE <<>>
ParseUint(t) == IF t = "1" THEN <<t>> ELSE <<>>
ParseTime(t) == IF t \in {"1s", "PT1S"} THEN <<"1s">> ELSE <<>>

FromBytes(raw, parsed, types) ==
  CASE raw.type = "[]byte" -> parsed
    [] raw.type \in types  -> <<raw.text>>
    [] OTHER               -> <<>>

BytesConfig(raw)    == FromBytes(raw, <<raw.text>>, {})
BoolConfig(raw)     == FromBytes(raw, ParseBool(raw.text), {"bool"})
Int64Config(raw)    == FromBytes(raw, ParseInt(raw.text), {"int64", "int"})
Uint64Config(raw)   == FromBytes(raw, ParseUint(raw.text), {"uint64", "uint"})
Float64Config(raw)  == FromBytes(raw, ParseInt(raw.text), {"float64"})
DurationConfig(raw) == FromBytes(raw, ParseTime(raw.text), {"time.Duration"})
StringConfig(raw)   == FromBytes(raw, <<raw.text>>, {"string"})

Convert(wrapper, raw) ==
  CASE wrapper = "Bytes"    -> BytesConfig(raw)
    [] wrapper = "Bool"     -> BoolConfig(raw)
    [] wrapper = "Int64"    -> Int64Config(raw)
    [] wrapper = "Uint64"   -> Uint64Config(raw)
    [] wrapper = "Float64"  -> Float64Config(raw)
    [] wrapper = "Duration" -> DurationConfig(raw)
    [] wrapper = "String"   -> StringConfig(raw)

-----------------------------------------------------------------------------
VARIABLES
  wrapper, source,  \* which wrapper over which source
  value,     \* source: what it holds
  failing,   \* source: errors are induced
  shutdown,  \* source: it has been shut down
  changes,   \* bound: changes of the source so far
  lastValue, \* wrapper: the cached value and the call that wrote it
  gets,      \* bound: calls of GetSafe so far
  getting,   \* "idle", "fetched" or "writing"
  call,      \* the number of the caller's current call
  fetched,   \* the error and the value the source gave to that call
  result,    \* what the caller's last call returned, and who wrote that value
  held,      \* history: every value the source has held
  finished,  \* history: calls that returned without an error, 0 is the default
  before,    \* history: the calls finished when the caller's call began
  outdated,  \* history: calls that finished before a finished call began
  unwanted   \* history: the calls outdated when the caller's call began

sourceVars == <<value, failing, shutdown, changes, held>>
history == <<finished, before, outdated, unwanted>>
configVars ==
  <<wrapper, source, sourceVars, lastValue, gets, getting, call, fetched, result, history>>

Values == {Default} \cup {raw.text : raw \in Bytes \cup Typed}
GetErrors == {"nil", "noValue", "shutdown", "induced", "conversion"}

ConfigTypeOK ==
  /\ wrapper \in Wrappers /\ source \in Sources
  /\ value \in Bytes \cup Typed \cup {NoValue}
  /\ failing \in BOOLEAN /\ shutdown \in BOOLEAN
  /\ changes \in 0 .. MaxChanges
  /\ lastValue \in [value : Values, by : 0 .. MaxGets]
  /\ gets \in 0 .. MaxGets
  /\ getting \in [Callers -> {"idle", "fetched", "writing"}]
  /\ call \in [Callers -> 0 .. MaxGets]
  /\ fetched \in [Callers -> [err : GetErrors, value : Values]]
  /\ result \in [Callers -> [err : GetErrors, value : Values, by : 0 .. MaxGets]]
  /\ held \subseteq Bytes \cup Typed
  /\ finished \subseteq 0 .. MaxGets /\ outdated \subseteq finished
  /\ before \in [Callers -> SUBSET finished] /\ unwanted \in [Callers -> SUBSET outdated]

ConfigInit ==
  /\ wrapper \in Wrappers
  /\ source \in Sources
  /\ value \in IF source = "env" THEN Bytes \cup {NoValue} ELSE {NoValue}
  /\ failing = FALSE
  /\ shutdown = FALSE
  /\ changes = 0
  /\ lastValue = [value |-> Default, by |-> 0]
  /\ gets = 0
  /\ getting = [c \in Callers |-> "idle"]
  /\ call = [c \in Callers |-> 0]
  /\ fetched = [c \in Callers |-> [err |-> "nil", value |-> Default]]
  /\ result = [c \in Callers |-> [err |-> "nil", value |-> Default, by |-> 0]]
  /\ held = {value} \ {NoValue}
  /\ finished = {0}
  /\ before = [c \in Callers |-> {}]
  /\ outdated = {}
  /\ unwanted = [c \in Callers |-> {}]

-----------------------------------------------------------------------------
(***************************************************************************)
(* The source.                                                             *)
(***************************************************************************)
Change ==
  /\ source = "memory"
  /\ changes < MaxChanges
  /\ changes' = changes + 1
  /\ UNCHANGED <<wrapper, source, lastValue, gets, getting, call, fetched, result, history>>

SetValue(raw) ==
  /\ Change
  /\ value' = raw
  /\ held' = held \cup {raw}
  /\ UNCHANGED <<failing, shutdown>>

ClearValue ==
  /\ Change
  /\ value' = NoValue
  /\ UNCHANGED <<failing, shutdown, held>>

InduceErrors ==
  /\ Change
  /\ failing' = TRUE
  /\ UNCHANGED <<value, shutdown, held>>

StopInducingErrors ==
  /\ Change
  /\ failing' = FALSE
  /\ UNCHANGED <<value, shutdown, held>>

Shutdown ==
  /\ Change
  /\ shutdown' = TRUE
  /\ UNCHANGED <<value, failing, held>>

\* Variant: the error of the conversion is not looked at.
GetZero ==
  LET converted == Convert(wrapper, value)
  IN  CASE shutdown -> [err |-> "shutdown", value |-> Default]
        [] ~shutdown /\ failing -> [err |-> "induced", value |-> Default]
        [] ~shutdown /\ ~failing /\ value = NoValue -> [err |-> "noValue", value |-> Default]
        [] OTHER -> [err |-> "nil", value |-> IF converted = <<>> THEN "" ELSE converted[1]]

\* Get of the source, and the conversion of what it returns.
Get ==
  LET converted == Convert(wrapper, value)
  IN  CASE shutdown -> [err |-> "shutdown", value |-> Default]
        [] ~shutdown /\ failing -> [err |-> "induced", value |-> Default]
        [] ~shutdown /\ ~failing /\ value = NoValue -> [err |-> "noValue", value |-> Default]
        [] OTHER -> IF converted = <<>> THEN [err |-> "conversion", value |-> Default]
                    ELSE [err |-> "nil", value |-> converted[1]]

-----------------------------------------------------------------------------
(***************************************************************************)
(* GetSafe.                                                                *)
(***************************************************************************)
Fetch(c) ==
  /\ getting[c] = "idle"
  /\ gets < MaxGets
  /\ gets' = gets + 1
  /\ getting' = [getting EXCEPT ![c] = "fetched"]
  /\ call' = [call EXCEPT ![c] = gets']
  /\ fetched' = [fetched EXCEPT ![c] = Get]
  /\ before' = [before EXCEPT ![c] = finished]
  /\ unwanted' = [unwanted EXCEPT ![c] = outdated]
  /\ UNCHANGED <<wrapper, source, sourceVars, lastValue, result, finished, outdated>>

\* lastValue is read under the lock.  An error, of the source or of the
\* conversion, is returned with it; a source without a value is no error.
ReadLast(c) ==
  /\ getting[c] = "fetched"
  /\ IF fetched[c].err \in {"nil", "noValue"}
     THEN /\ getting' = [getting EXCEPT ![c] = "writing"]
          /\ UNCHANGED result
     ELSE /\ getting' = [getting EXCEPT ![c] = "idle"]
          /\ result' = [result EXCEPT ![c] = [err |-> fetched[c].err, value |-> lastValue.value,
                                              by |-> lastValue.by]]
  /\ UNCHANGED <<wrapper, source, sourceVars, lastValue, gets, call, fetched, history>>

\* Variant: a source without a value leaves the cache alone.
WriteValues(c) ==
  /\ getting[c] = "writing"
  /\ getting' = [getting EXCEPT ![c] = "idle"]
  /\ lastValue' = IF fetched[c].err = "noValue" THEN lastValue
                  ELSE [value |-> fetched[c].value, by |-> call[c]]
  /\ result' = [result EXCEPT ![c] = [err |-> "nil", value |-> fetched[c].value, by |-> call[c]]]
  /\ finished' = finished \cup {call[c]}
  /\ outdated' = outdated \cup before[c]
  /\ UNCHANGED <<wrapper, source, sourceVars, gets, call, fetched, before, unwanted>>

\* lastValue is written under the lock, with the default for a source that has
\* no value, and returned.
Write(c) ==
  /\ getting[c] = "writing"
  /\ getting' = [getting EXCEPT ![c] = "idle"]
  /\ lastValue' = [value |-> fetched[c].value, by |-> call[c]]
  /\ result' = [result EXCEPT ![c] = [err |-> "nil", value |-> fetched[c].value, by |-> call[c]]]
  /\ finished' = finished \cup {call[c]}
  /\ outdated' = outdated \cup before[c]
  /\ UNCHANGED <<wrapper, source, sourceVars, gets, call, fetched, before, unwanted>>

ConfigNext ==
  \/ \E raw \in Bytes \cup Typed : SetValue(raw)
  \/ ClearValue \/ InduceErrors \/ StopInducingErrors \/ Shutdown
  \/ \E c \in Callers : Fetch(c) \/ ReadLast(c) \/ Write(c)

ConfigSpec == ConfigInit /\ [][ConfigNext]_configVars

-----------------------------------------------------------------------------
\* "A best-effort attempt is made to return the last known value": the value
\* returned with an error was never replaced for good before the call began,
\* that is by a call that started after the one that wrote it had returned.
\* Only calls that overlap may write in the wrong order.
LastKnownValue ==
  \A c \in Callers :
    getting[c] = "idle" /\ result[c].err # "nil" => result[c].by \notin unwanted[c]

\* Whatever is returned, with an error or without, is the default or was
\* converted from a value that the source has held: a value that does not
\* convert never gets into the cache.
OnlyConvertedValues ==
  \A c \in Callers :
    \/ result[c].value = Default
    \/ \E raw \in held : Convert(wrapper, raw) = <<result[c].value>>
=============================================================================
