---------------------------- MODULE SolanaErrors ----------------------------
(***************************************************************************)
(* The errors of solana/errors.go: how the JSON of an RPC error or of an   *)
(* "err" field becomes a TransactionError, and an InstructionError becomes *)
(* JSON again.  A JSON value is a record with a kind; numbers are          *)
(* json.Number in RPC errors and float64 elsewhere.                        *)
(***************************************************************************)
EXTENDS Naturals, Sequences

CONSTANTS
  ExactFloat,  \* the integers up to here have a float64 (2^53)
  Escapes      \* for each text that JSON would write with an escape, what is read if
               \* it is put between quotes as it is: <<>> if nothing, or a text

ASSUME JSONAssumption ==
  /\ ExactFloat \in Nat
  /\ \A text \in DOMAIN Escapes : Escapes[text] = <<>> \/ Escapes[text][1] # text

Null         == [kind |-> "null"]
String(text) == [kind |-> "string", text |-> text]
List(items)  == [kind |-> "list", items |-> items]
Map(entries) == [kind |-> "map", entries |-> entries]
Number(n)    == [kind |-> "json.Number", int |-> n, whole |-> TRUE]
Fraction(n)  == [kind |-> "json.Number", int |-> n, whole |-> FALSE]
Float(n)     == [kind |-> "float64", int |-> n, whole |-> TRUE]

\* External: encoding/json reads a number into an interface{} as a float64, the
\* nearest one, even in a tie, for integers up to twice ExactFloat.
FloatOf(n) ==
  IF n <= ExactFloat \/ n % 2 = 0 THEN n ELSE IF n % 4 = 1 THEN n - 1 ELSE n + 1

\* External: encoding/json reads a string, <<>> if it is none.
Unquoted(text) == IF text \in DOMAIN Escapes THEN Escapes[text] ELSE <<text>>

\* External: strconv.ParseInt, on the texts the model has.
ParseInt(text) == IF text = "1" THEN <<1>> ELSE <<>>

\* The only entry of a map, if it has no other.
Single(v) == \E k \in DOMAIN v.entries : DOMAIN v.entries = {k}
Key(v)   == CHOOSE k \in DOMAIN v.entries : TRUE
Value(v) == v.entries[Key(v)]

-----------------------------------------------------------------------------
(***************************************************************************)
(* A number or an instruction error is <<>> if it cannot be parsed.        *)
(***************************************************************************)
\* Variant: the numbers of encoding/json are not known.
parseJSONNumberOnly(v) ==
  CASE v.kind = "json.Number" -> IF v.whole THEN <<v.int>> ELSE <<>>
    [] v.kind = "string"      -> ParseInt(v.text)
    [] OTHER                  -> <<>>

parseJSONNumber(v) ==
  CASE v.kind = "json.Number" -> IF v.whole THEN <<v.int>> ELSE <<>>
    [] v.kind = "string"      -> ParseInt(v.text)
    [] v.kind = "float64"     -> <<FloatOf(v.int)>>
    [] OTHER                  -> <<>>

NilErr          == [kind |-> "nil"]
TextError(text) == [kind |-> "text", text |-> text]
CustomError(c)  == [kind |-> "custom", code |-> c]

\* The field Err of an InstructionError.
Cause(v) ==
  CASE v.kind = "string" -> TextError(v.text)
    [] v.kind = "map" /\ Key(v) # "Custom" -> TextError(Key(v))
    [] v.kind = "map" /\ Key(v) = "Custom" ->
         LET code == parseJSONNumber(Value(v))
         IN  IF code = <<>> THEN TextError("unhandled CustomError") ELSE CustomError(code[1])
    [] OTHER -> NilErr

parseInstructionError(v) ==
  IF \/ v.kind # "list"
     \/ Len(v.items) # 2
     \/ parseJSONNumber(v.items[1]) = <<>>
     \/ v.items[2].kind = "map" /\ ~Single(v.items[2])
  THEN <<>>
  ELSE <<[index |-> parseJSONNumber(v.items[1])[1], err |-> Cause(v.items[2])]>>

-----------------------------------------------------------------------------
(***************************************************************************)
(* The result of ParseTransactionError: a pointer to a TransactionError,   *)
(* <<>> if it is nil, and whether there is a parse error.                  *)
(***************************************************************************)
Result(key, instruction) ==
  [result |-> <<[key |-> key, instruction |-> instruction]>>, err |-> FALSE]
Nothing   == [result |-> <<>>, err |-> FALSE]
ParseFails == [result |-> <<>>, err |-> TRUE]

\* What is returned together with a parse error is not looked at by the callers.
MapError(raw) ==
  IF ~Single(raw) THEN ParseFails
  ELSE IF Key(raw) # "InstructionError" THEN Result(Key(raw), <<>>)
  ELSE LET e == parseInstructionError(Value(raw))
       IN  IF e = <<>> THEN ParseFails ELSE Result("InstructionError", e)

\* Variant: a JSON value of another type is taken for no error.
ParseTransactionErrorLenient(raw) ==
  CASE raw.kind = "string" -> Result(raw.text, <<>>)
    [] raw.kind = "map"    -> MapError(raw)
    [] OTHER               -> Nothing

ParseTransactionError(raw) ==
  CASE raw.kind = "null"   -> Nothing
    [] raw.kind = "string" -> Result(raw.text, <<>>)
    [] raw.kind = "map"    -> MapError(raw)
    [] OTHER               -> ParseFails

\* data is the field Data of the jsonrpc.RPCError.
ParseRPCError(data) ==
  IF data.kind # "map" THEN ParseFails
  ELSE IF "err" \in DOMAIN data.entries /\ data.entries["err"] # Null
       THEN ParseTransactionError(data.entries["err"])
       ELSE Nothing

\* The JSON of an instruction error whose Err is not nil, as encoding/json reads it,
\* <<>> if it cannot: the text of the error is written without escapes.
JSONString(e) ==
  IF e.err.kind = "custom" THEN <<List(<<Float(e.index), Map([Custom |-> Float(e.err.code)])>>)>>
  ELSE LET text == Unquoted(e.err.text)
       IN  IF text = <<>> THEN <<>> ELSE <<List(<<Float(e.index), String(text[1])>>)>>

\* The field raw of the TransactionError, <<>> if an error is returned instead.
TransactionErrorFromInstructionError(e) ==
  LET raw == JSONString(e) IN IF raw = <<>> THEN <<>> ELSE <<Map([InstructionError |-> raw[1]])>>
=============================================================================
