---------------------- MODULE SolanaClientProofs ---------------------------
(***************************************************************************)
(* The client: the staleness bound of GetRecentBlockhash, for any number   *)
(* of callers, any windows and any latency, and what a success of          *)
(* SubmitTransaction means, for any limits of the retries and polls and    *)
(* any errors a transaction may fail with.  Then what it makes of the      *)
(* answers of a node: the errors, for any of them; the queries, for any    *)
(* set of answers; the token accounts, for any that the token program      *)
(* keeps; and the address of a program, for any number of bumps.           *)
(***************************************************************************)
EXTENDS SolanaClient, TLAPS

\* An answer that is still to be written is at most one latency old, and no
\* time stamp lies in the future.
CacheInv ==
  /\ UnderstatedByLatency
  /\ FreshEnough
  /\ lastWrite <= now
  /\ \A c \in Callers : reader[c] = "answered" => answer[c] <= now /\ now - answer[c] <= Latency

\* Every step keeps the types and the invariant.
LEMMA CacheStep == CacheTypeOK /\ CacheInv /\ [CacheNext]_cacheVars => (CacheTypeOK /\ CacheInv)'
<1> SUFFICES ASSUME CacheTypeOK, CacheInv, [CacheNext]_cacheVars PROVE (CacheTypeOK /\ CacheInv)'
  OBVIOUS
<1> USE CacheAssumption DEF CacheTypeOK, CacheInv, UnderstatedByLatency, FreshEnough
<1>1. CASE Tick
  BY <1>1 DEF Tick
<1>2. ASSUME NEW c \in Callers, Read(c) PROVE (CacheTypeOK /\ CacheInv)'
  <2>1. PICK window \in Windows :
          IF blockhash # None /\ now - lastWrite < window
          THEN Aged(c, blockhash) /\ UNCHANGED reader
          ELSE reader' = [reader EXCEPT ![c] = "calling"] /\ UNCHANGED result
    BY <1>2 DEF Read
  <2>2. window \in Nat /\ window <= MaxWindow
    OBVIOUS
  <2>3. UNCHANGED <<now, blockhash, lastWrite, answer>>
    BY <1>2 DEF Read
  <2>4. CASE blockhash # None /\ now - lastWrite < window
    <3>1. /\ result' = [result EXCEPT ![c] = now - blockhash] /\ reader' = reader
      BY <2>1, <2>4 DEF Aged
    <3>2. now - blockhash \in Nat /\ now - blockhash < Latency + MaxWindow
      BY <2>2, <2>4
    <3> QED
      BY <2>3, <3>1, <3>2
  <2>5. CASE ~(blockhash # None /\ now - lastWrite < window)
    BY <2>1, <2>3, <2>5
  <2> QED
    BY <2>4, <2>5
<1>3. ASSUME NEW c \in Callers, Answer(c) PROVE (CacheTypeOK /\ CacheInv)'
  BY <1>3 DEF Answer
<1>4. ASSUME NEW c \in Callers, Fail(c) PROVE (CacheTypeOK /\ CacheInv)'
  BY <1>4 DEF Fail
<1>5. ASSUME NEW c \in Callers, Write(c) PROVE (CacheTypeOK /\ CacheInv)'
  BY <1>5 DEF Write, Aged
<1>6. CASE UNCHANGED cacheVars
  BY <1>6 DEF cacheVars
<1> QED
  BY <1>1, <1>2, <1>3, <1>4, <1>5, <1>6 DEF CacheNext

\* However many goroutines refresh the cache in whatever order, a hash that
\* GetRecentBlockhash returns is younger than the largest window and a latency.
THEOREM HashesAreFresh == ClientSpec => []FreshEnough
<1>1. ClientInit => CacheTypeOK /\ CacheInv
  BY CacheAssumption
  DEF ClientInit, CacheInit, CacheTypeOK, CacheInv, UnderstatedByLatency, FreshEnough
<1>2. [ClientNext]_clientVars => [CacheNext]_cacheVars
  BY DEF ClientNext, Submission, QueryStep, SearchStep, BlockhashStep, clientVars
<1>3. CacheInv => FreshEnough
  BY DEF CacheInv
<1> QED
  BY <1>1, <1>2, <1>3, CacheStep, PTL DEF ClientSpec

-----------------------------------------------------------------------------
(***************************************************************************)
(* SubmitTransaction.                                                      *)
(***************************************************************************)
\* ParseTransactionError has no result and no parse error for a JSON null only.
LEMMA OnlyNullIsNothing ==
  ASSUME NEW raw, raw.kind # "null"
  PROVE  ParseTransactionError(raw).err \/ ParseTransactionError(raw).result # Nil
<1>1. ParseFails.err
  BY DEF ParseFails
<1>2. ASSUME NEW key, NEW instruction PROVE Result(key, instruction).result # Nil
  BY DEF Result, Nil
<1>3. MapError(raw) = ParseFails \/ \E key, at : MapError(raw) = Result(key, at)
  BY DEF MapError
<1>4. ParseTransactionError(raw) \in {Result(raw.text, <<>>), MapError(raw), ParseFails}
  BY Zenon DEF ParseTransactionError
<1> QED
  BY <1>1, <1>2, <1>3, <1>4

\* What each commitment asks for.
LEMMA ReachedCases ==
  ASSUME NEW st
  PROVE  /\ commitment = "recent" => Reached(st)
         /\ commitment = "single" => (Reached(st) <=> Confirmed(st))
         /\ commitment = "max" => (Reached(st) <=> Finalized(st))
BY Zenon DEF Reached

\* A node that reports a transaction as finalized has it rooted, and one that
\* reports it as confirmed is at that level or higher, old nodes included.
LEMMA ProgressTells ==
  ASSUME NEW n \in 1 .. 3, NEW p \in ProgressAt(n), NEW e
  PROVE  /\ Finalized(Status(p, e)) => n = 3
         /\ Confirmed(Status(p, e)) => n >= 2
<1>1. Status(p, e).confirmations = p.confirmations
  BY DEF Status
<1>2. Status(p, e).confirmationStatus = p.confirmationStatus
  BY DEF Status
<1>3. p \in Progress /\ (p.confirmations = Nil <=> n = 3) /\ (p.confirmations = <<1>> => n >= 2)
  BY Zenon DEF ProgressAt
<1>4. p.confirmationStatus = "finalized" => n = 3
  <2>1. n = 1 \/ n = 2 \/ n = 3
    OBVIOUS
  <2> QED
    BY <2>1, Zenon DEF ProgressAt
<1>5. p.confirmationStatus = "confirmed" => n = 2
  BY Zenon DEF ProgressAt
<1>6. Finalized(Status(p, e)) => n = 3
  BY <1>1, <1>2, <1>3, <1>4 DEF Finalized
<1>7. p.confirmations = Nil \/ p.confirmations = <<0>> \/ p.confirmations = <<1>>
  BY <1>3, Zenon DEF Progress
<1>8. Confirmed(Status(p, e)) => n >= 2
  BY <1>1, <1>2, <1>3, <1>5, <1>6, <1>7 DEF Confirmed
<1> QED
  BY <1>6, <1>8

\* How far the chain is, and how far a caller can rely on it.
ChainInv ==
  /\ commitment \in Commitments
  /\ outcome \in RawErrors \cup {Null}
  /\ level \in Levels /\ best \in Levels /\ level <= best

\* A status that a poll keeps does not meet the commitment and shows no error, so
\* neither does the one that comes with an error at last.
StatusInv ==
  /\ pc \in {"send", "query", "search"} => s = NoStatus
  /\ pc = "send" => ~rejected
  /\ pc = "poll" => ~rejected /\ (s # NoStatus => s.errorResult = Nil /\ ~Reached(s))

SubmitInv == ChainInv /\ StatusInv /\ CommitmentReached /\ NoFalseSuccess

\* A step that ends the call, or leaves it to be tried again, with no status or
\* with the one of the last poll keeps the invariant.
LEMMA KeepsStatus ==
  ASSUME SubmitInv, UNCHANGED <<commitment, level, outcome, best, rejected>>, pc = "poll",
         pc' = pc \/ (pc' = "done" /\ err' # "nil"),
         s' \in {s, NoStatus}
  PROVE  SubmitInv'
<1>1. Reached(s)' <=> IF s' = s THEN Reached(s) ELSE Reached(NoStatus)
  BY DEF Reached, Confirmed, Finalized
<1>2. s' # NoStatus => s' = s /\ s'.errorResult = Nil /\ ~Reached(s)'
  BY <1>1 DEF SubmitInv, StatusInv
<1>3. ~Success'
  BY DEF Success
<1>4. ChainInv' /\ NoFalseSuccess'
  BY <1>3 DEF SubmitInv, ChainInv, NoFalseSuccess
<1>5. CommitmentReached'
  BY <1>2, <1>3 DEF CommitmentReached
<1>6. StatusInv'
  BY <1>2 DEF SubmitInv, StatusInv
<1> QED
  BY <1>4, <1>5, <1>6 DEF SubmitInv

\* The cluster moves: a rooted transaction stays, and best never falls.
LEMMA ClusterStep == ASSUME SubmitInv, Advance \/ Fork PROVE SubmitInv'
<1> USE DEF SubmitInv, Levels
<1>1. UNCHANGED <<commitment, outcome, pc, s, err, rejected>>
  BY DEF Advance, Fork
<1>2. ChainInv' /\ best <= best' /\ level # 3
  BY DEF Advance, Fork, ChainInv
<1>3. (Success' <=> Success) /\ (Reached(s)' <=> Reached(s))
  BY <1>1 DEF Success, Reached, Confirmed, Finalized
<1>4. StatusInv'
  BY <1>1, <1>3 DEF StatusInv
<1>5. CommitmentReached'
  BY <1>1, <1>2, <1>3 DEF CommitmentReached, ChainInv
<1>6. NoFalseSuccess'
  BY <1>1, <1>3 DEF NoFalseSuccess
<1> QED
  BY <1>2, <1>4, <1>5, <1>6

\* An operation that has no status yet is tried again, goes on to the polls, or
\* ends without one.
LEMMA NoStatusStep ==
  ASSUME SubmitInv, UNCHANGED <<commitment, level, outcome, best, rejected>>,
         pc \in {"send", "query", "search"}, s' = s,
         pc' \in {pc, "done"} \/ (pc = "send" /\ pc' = "poll")
  PROVE  SubmitInv'
<1>1. s' = NoStatus
  BY DEF SubmitInv, StatusInv
<1> QED
  BY <1>1 DEF SubmitInv, ChainInv, StatusInv, CommitmentReached, NoFalseSuccess, Success

\* The poll finds the signature.
LEMMA FoundStep == ASSUME SubmitInv, PollFound PROVE SubmitInv'
<1> DEFINE parsed == ParseTransactionError(outcome)
<1>1. PICK n \in 1 .. level : \E p \in ProgressAt(n) :
        LET st == Status(p, parsed.result)
        IN  IF parsed.err THEN Return(s, "parse")
            ELSE IF st.errorResult # Nil \/ Reached(st) THEN Return(st, "nil")
            ELSE PollAgain(st, "notReached")
  BY DEF PollFound
<1>2. PICK p \in ProgressAt(n) :
        LET st == Status(p, parsed.result)
        IN  IF parsed.err THEN Return(s, "parse")
            ELSE IF st.errorResult # Nil \/ Reached(st) THEN Return(st, "nil")
            ELSE PollAgain(st, "notReached")
  BY <1>1
<1> DEFINE st == Status(p, parsed.result)
<1>3. /\ UNCHANGED <<commitment, level, outcome, best, rejected>> /\ pc = "poll" /\ ~rejected
      /\ n \in 1 .. 3 /\ n <= level /\ level <= 3 /\ n <= best /\ commitment \in Commitments
      /\ level \in Nat /\ best \in Nat
  BY DEF PollFound, cluster, SubmitInv, ChainInv, StatusInv, Levels
<1>4. ChainInv'
  BY <1>3 DEF SubmitInv, ChainInv
<1>5. CASE parsed.err
  <2>1. Return(s, "parse")
    BY <1>2, <1>5
  <2> QED
    BY <1>3, <2>1, KeepsStatus DEF Return
<1>6. CASE ~parsed.err /\ (st.errorResult # Nil \/ Reached(st))
  <2>1. Return(st, "nil")
    BY <1>2, <1>6
  <2>2. pc' = "done" /\ s' = st /\ err' = "nil"
    BY <2>1 DEF Return
  <2>3. CASE st.errorResult # Nil
    BY <1>4, <2>2, <2>3
    DEF SubmitInv, StatusInv, CommitmentReached, NoFalseSuccess, Success
  <2>4. CASE st.errorResult = Nil /\ Reached(st)
    <3>1. commitment = "max" => level = 3
      BY <1>3, <2>4, ReachedCases, ProgressTells
    <3>2. commitment = "single" => best >= 2
      BY <1>3, <2>4, ReachedCases, ProgressTells
    <3>3. parsed.result = Nil
      BY <2>4 DEF Status
    <3>4. outcome = Null
      BY <1>6, <3>3, OnlyNullIsNothing, SubmitAssumption DEF SubmitInv, ChainInv
    <3> HIDE DEF st, parsed
    <3> QED
      BY <1>3, <1>4, <2>2, <3>1, <3>2, <3>4
      DEF SubmitInv, StatusInv, CommitmentReached, NoFalseSuccess
  <2> QED
    BY <1>6, <2>3, <2>4
<1>7. CASE ~parsed.err /\ st.errorResult = Nil /\ ~Reached(st)
  <2>1. PollAgain(st, "notReached")
    BY <1>2, <1>7
  <2>2. s' = st /\ (pc' = "poll" \/ (pc' = "done" /\ err' = "notReached"))
    <3> HIDE DEF st, parsed
    <3> QED
      BY <1>3, <2>1 DEF PollAgain, Return
  <2>3. s'.errorResult = Nil /\ ~Reached(s)'
    BY <1>3, <1>7, <2>2, Zenon DEF Reached, Confirmed, Finalized
  <2> HIDE DEF st, parsed
  <2> QED
    BY <1>3, <1>4, <2>2, <2>3
    DEF SubmitInv, StatusInv, CommitmentReached, NoFalseSuccess, Success
<1> QED
  BY <1>5, <1>6, <1>7

\* Every step of the client keeps the invariant.
LEMMA SubmitStepKeeps == ASSUME SubmitInv, [ClientNext]_clientVars PROVE SubmitInv'
<1>1. CASE Advance \/ Fork
  BY <1>1, ClusterStep
<1>2. CASE SendFails
  <2>1. /\ pc = "send" /\ UNCHANGED <<commitment, level, outcome, best, rejected>>
        /\ \/ pc' = pc /\ s' = s
           \/ pc' = "done" /\ s' = NoStatus
    BY <1>2 DEF SendFails, Retriable, Return
  <2>2. s = NoStatus
    BY <2>1 DEF SubmitInv, StatusInv
  <2> QED
    BY <2>1, <2>2, NoStatusStep
<1>3. CASE SendRejected
  <2>1. pc' = "done" /\ rejected' /\ UNCHANGED <<commitment, level, outcome, best>>
    BY <1>3, Zenon DEF SendRejected, Return, cluster
  <2>2. err' = "nil" \/ s' = NoStatus
    BY <1>3, Zenon DEF SendRejected, Return
  <2> QED
    BY <2>1, <2>2
    DEF SubmitInv, ChainInv, StatusInv, CommitmentReached, NoFalseSuccess
<1>4. CASE SendAccepted
  BY <1>4, NoStatusStep DEF SendAccepted
<1>5. CASE PollFails
  <2>1. /\ pc = "poll" /\ UNCHANGED <<commitment, level, outcome, best, rejected>> /\ s' = s
        /\ pc' = pc \/ (pc' = "done" /\ err' = "request")
    BY <1>5 DEF PollFails, Retriable, Return, cluster
  <2> QED
    BY <2>1, KeepsStatus
<1>6. CASE PollNotFound
  <2>1. /\ pc = "poll" /\ UNCHANGED <<commitment, level, outcome, best, rejected>> /\ s' = NoStatus
        /\ pc' = pc \/ (pc' = "done" /\ err' = "notFound")
    BY <1>6 DEF PollNotFound, PollAgain, Return, cluster
  <2> QED
    BY <2>1, KeepsStatus
<1>7. CASE PollFound
  BY <1>7, FoundStep
<1>8. CASE PollTooMany
  BY <1>8, KeepsStatus DEF PollTooMany, Return, cluster
<1>9. CASE QueryStep
  <2>1. /\ pc = "query" /\ UNCHANGED <<commitment, level, outcome, best, rejected>> /\ s' = s
        /\ pc' \in {pc, "done"}
    BY <1>9, Zenon DEF QueryStep, QueryFails, QueryRefused, QueryAnswered, Finish, Return, cluster
  <2> QED
    BY <2>1, NoStatusStep
<1>10. CASE SearchStep
  <2>1. /\ pc = "search" /\ UNCHANGED <<commitment, level, outcome, best, rejected>> /\ s' = s
        /\ pc' = "done"
    BY <1>10 DEF SearchStep, Search, Finish, Return, cluster
  <2> QED
    BY <2>1, NoStatusStep
<1>11. CASE UNCHANGED vars
  BY <1>11, Zenon DEF vars, SubmitInv, ChainInv, StatusInv, CommitmentReached, NoFalseSuccess,
     Success, Reached, Confirmed, Finalized
<1> QED
  BY <1>1, <1>2, <1>3, <1>4, <1>5, <1>6, <1>7, <1>8, <1>9, <1>10, <1>11
  DEF ClientNext, clientVars, Submission, Next, Done, BlockhashStep

\* The invariant holds in every state.
LEMMA SubmitInvariant == ClientSpec => []SubmitInv
<1>1. ClientInit => SubmitInv
  BY DEF ClientInit, Init, Begin, SubmitInv, ChainInv, StatusInv, CommitmentReached,
     NoFalseSuccess, Success, Commitments, Levels
<1>2. SubmitInv /\ [ClientNext]_clientVars => SubmitInv'
  BY SubmitStepKeeps
<1> QED
  BY <1>1, <1>2, PTL DEF ClientSpec

\* Whatever limits the retries and the polls have, a success of SubmitTransaction
\* for max is rooted for good and one for single has been confirmed, and a status
\* that comes with an error does not look like a success.
THEOREM SuccessIsCommitted == ClientSpec => []CommitmentReached
<1>1. SubmitInv => CommitmentReached
  BY DEF SubmitInv
<1> QED
  BY <1>1, SubmitInvariant, PTL

\* Whatever JSON a transaction's error has, a success that the poll reports is
\* one of a transaction that did not fail.
THEOREM SuccessIsNoFailure == ClientSpec => []NoFalseSuccess
<1>1. SubmitInv => NoFalseSuccess
  BY DEF SubmitInv
<1> QED
  BY <1>1, SubmitInvariant, PTL

-----------------------------------------------------------------------------
(***************************************************************************)
(* The errors that are returned.                                           *)
(***************************************************************************)
\* The JSON made of an instruction error is read as the property says.
Comes(e) ==
  LET raw == TransactionErrorFromInstructionError(e)
  IN  IF e.err.kind = "text" /\ e.err.text \in DOMAIN Escapes
      THEN raw # <<>> => ParseTransactionError(raw[1]) # Result("InstructionError", <<e>>)
      ELSE /\ raw # <<>>
           /\ ~ParseTransactionError(raw[1]).err
           /\ LET back == ParseTransactionError(raw[1]).result[1].instruction[1]
              IN  /\ back.err.kind = e.err.kind
                  /\ e.err.kind = "text" => back.err = e.err
                  /\ HeldByFloat(e) => back = e

Survives(found) ==
  \A m \in DOMAIN found : \A n \in DOMAIN found[m].instruction :
    LET e == found[m].instruction[n] IN e.err # NilErr => Comes(e)

\* A map with one entry has that key and that value.
LEMMA OneEntry ==
  ASSUME NEW v
  PROVE  /\ Key(Map([Custom |-> v])) = "Custom" /\ Value(Map([Custom |-> v])) = v
         /\ Key(Map([InstructionError |-> v])) = "InstructionError"
         /\ Value(Map([InstructionError |-> v])) = v
         /\ Single(Map([Custom |-> v])) /\ Single(Map([InstructionError |-> v]))
<1>1. /\ DOMAIN Map([Custom |-> v]).entries = {"Custom"}
      /\ DOMAIN Map([InstructionError |-> v]).entries = {"InstructionError"}
  BY DEF Map
<1>2. Single(Map([Custom |-> v])) /\ Single(Map([InstructionError |-> v]))
  BY <1>1 DEF Single
<1>3. Key(Map([Custom |-> v])) = "Custom" /\ Key(Map([InstructionError |-> v])) = "InstructionError"
  BY <1>1 DEF Key
<1>4. Value(Map([Custom |-> v])) = v /\ Value(Map([InstructionError |-> v])) = v
  BY <1>3 DEF Value, Map
<1> QED
  BY <1>1, <1>2, <1>3, <1>4

\* The cause that JSONString writes is read as the same cause, up to a float64.
LEMMA CauseSurvives ==
  /\ \A text : Cause(String(text)) = TextError(text)
  /\ \A c : Cause(Map([Custom |-> Float(c)])) = CustomError(FloatOf(c))
<1>1. ASSUME NEW text PROVE Cause(String(text)) = TextError(text)
  <2>1. String(text).kind = "string" /\ String(text).text = text
    BY DEF String
  <2> QED
    BY <2>1 DEF Cause
<1>2. ASSUME NEW c PROVE Cause(Map([Custom |-> Float(c)])) = CustomError(FloatOf(c))
  <2> DEFINE m == Map([Custom |-> Float(c)])
             f == FloatOf(c)
  <2>1. m.kind = "map" /\ Key(m) = "Custom" /\ Value(m) = Float(c)
    BY OneEntry, Zenon DEF Map
  <2>2. parseJSONNumber(Float(c)) = <<f>>
    BY DEF parseJSONNumber, Float
  <2> HIDE DEF m, f
  <2>3. <<f>> # <<>> /\ <<f>>[1] = f
    OBVIOUS
  <2>4. Cause(m) = LET code == parseJSONNumber(Value(m))
                   IN  IF code = <<>> THEN TextError("unhandled CustomError") ELSE CustomError(code[1])
    BY <2>1 DEF Cause
  <2>5. Cause(m) = CustomError(f)
    BY <2>1, <2>2, <2>3, <2>4, Zenon
  <2> QED
    BY <2>5 DEF m, f
<1> QED
  BY <1>1, <1>2

\* The forms of a cause.
LEMMA CauseForms ==
  ASSUME NEW v
  PROVE  \/ Cause(v) = NilErr
         \/ \E text : Cause(v) = TextError(text)
         \/ \E c : Cause(v) = CustomError(c)
BY Zenon DEF Cause

\* An index and a cause that have been written are read.
LEMMA Reread ==
  ASSUME NEW index, NEW second, NEW cause, Cause(second) = cause,
         second.kind = "map" => Single(second)
  PROVE  ParseTransactionError(Map([InstructionError |-> List(<<Float(index), second>>)]))
         = Result("InstructionError", <<[index |-> FloatOf(index), err |-> cause]>>)
<1> DEFINE f == FloatOf(index)
           e == [index |-> f, err |-> cause]
           items == <<Float(index), second>>
           raw == Map([InstructionError |-> List(items)])
<1>1. parseJSONNumber(Float(index)) = <<f>>
  BY DEF parseJSONNumber, Float
<1> HIDE DEF f
<1>2. parseInstructionError(List(items)) = <<e>>
  <2>1. /\ List(items).kind = "list" /\ List(items).items = items
        /\ Len(items) = 2 /\ items[1] = Float(index) /\ items[2] = second
    BY DEF List
  <2>2. <<f>> # <<>> /\ <<f>>[1] = f
    OBVIOUS
  <2> HIDE DEF items
  <2> QED
    BY <1>1, <2>1, <2>2 DEF parseInstructionError
<1> HIDE DEF e, items
<1>3. MapError(raw) = Result("InstructionError", <<e>>)
  <2>1. <<e>> # <<>>
    OBVIOUS
  <2> QED
    BY <1>2, <2>1, OneEntry, Zenon DEF MapError
<1>4. raw.kind = "map"
  BY DEF Map
<1> HIDE DEF raw
<1>5. ParseTransactionError(raw) = Result("InstructionError", <<e>>)
  BY <1>3, <1>4 DEF ParseTransactionError
<1> QED
  BY <1>5 DEF raw, items, e, f

\* What a result holds.
LEMMA ResultHolds ==
  ASSUME NEW key, NEW e
  PROVE  /\ ~Result(key, <<e>>).err
         /\ DOMAIN Result(key, <<e>>).result = {1}
         /\ Result(key, <<e>>).result[1].instruction = <<e>>
         /\ Result(key, <<e>>).result[1].instruction[1] = e
BY DEF Result

\* An instruction error that has a cause comes back.
LEMMA InstructionSurvives ==
  ASSUME NEW index, NEW cause, NEW e, e = [index |-> index, err |-> cause],
         (\E text : cause = TextError(text)) \/ (\E c : cause = CustomError(c))
  PROVE  Comes(e)
<1> DEFINE raw == TransactionErrorFromInstructionError(e)
           read(second) == Map([InstructionError |-> List(<<Float(index), second>>)])
           back(why) == [index |-> FloatOf(index), err |-> why]
<1>1. e.index = index /\ e.err = cause
  OBVIOUS
<1>2. \A x : <<x>> # <<>> /\ <<x>>[1] = x
  OBVIOUS
<1>3. \A why : back(why).index = FloatOf(index) /\ back(why).err = why
  OBVIOUS
<1>4. ASSUME NEW text, cause = TextError(text) PROVE Comes(e)
  <2>1. cause.kind = "text" /\ cause.text = text
    BY <1>4 DEF TextError
  <2>2. ASSUME NEW t PROVE ParseTransactionError(read(String(t))) = Result("InstructionError", <<back(TextError(t))>>)
    <3>1. Cause(String(t)) = TextError(t) /\ String(t).kind # "map"
      BY CauseSurvives DEF String
    <3> QED
      BY <3>1, Reread
  <2>3. JSONString(e) = IF Unquoted(text) = <<>> THEN <<>>
                        ELSE <<List(<<Float(index), String(Unquoted(text)[1])>>)>>
    BY <1>1, <2>1 DEF JSONString
  <2>4. raw = IF Unquoted(text) = <<>> THEN <<>> ELSE <<read(String(Unquoted(text)[1]))>>
    BY <1>2, <2>3 DEF TransactionErrorFromInstructionError
  <2>5. CASE text \in DOMAIN Escapes
    <3>1. SUFFICES ASSUME raw # <<>> PROVE ParseTransactionError(raw[1]) # Result("InstructionError", <<e>>)
      BY <1>1, <2>1, <2>5 DEF Comes
    <3> DEFINE t == Unquoted(text)[1]
    <3>2. t # text /\ raw = <<read(String(t))>>
      BY <2>4, <2>5, <3>1, JSONAssumption DEF Unquoted
    <3> HIDE DEF t
    <3>3. ParseTransactionError(raw[1]) = Result("InstructionError", <<back(TextError(t))>>)
      BY <1>2, <2>2, <3>2
    <3>4. TextError(t).text = t
      BY DEF TextError
    <3>5. back(TextError(t)) # e
      BY <1>1, <1>3, <2>1, <3>2, <3>4
    <3> HIDE DEF back, read, raw
    <3> QED
      BY <3>3, <3>5, ResultHolds
  <2>6. CASE text \notin DOMAIN Escapes
    <3>1. raw # <<>> /\ raw[1] = read(String(text))
      BY <1>2, <2>4, <2>6 DEF Unquoted
    <3>2. ParseTransactionError(raw[1]) = Result("InstructionError", <<back(cause)>>)
      BY <1>4, <2>2, <3>1
    <3>3. HeldByFloat(e) => back(cause) = e
      BY <1>1 DEF HeldByFloat
    <3>4. back(cause).err = e.err
      BY <1>1, <1>3
    <3> HIDE DEF back, read
    <3>5. /\ ~ParseTransactionError(raw[1]).err
          /\ ParseTransactionError(raw[1]).result[1].instruction[1] = back(cause)
      BY <3>2, ResultHolds
    <3> HIDE DEF raw
    <3> QED
      BY <1>1, <2>1, <2>6, <3>1, <3>3, <3>4, <3>5 DEF Comes, raw
  <2> QED
    BY <2>5, <2>6
<1>5. ASSUME NEW c, cause = CustomError(c) PROVE Comes(e)
  <2> DEFINE second == Map([Custom |-> Float(c)])
             code == CustomError(FloatOf(c))
  <2>1. cause.kind = "custom" /\ cause.code = c /\ code.kind = "custom" /\ code.code = FloatOf(c)
    BY <1>5 DEF CustomError
  <2>2. Cause(second) = code /\ Single(second)
    BY CauseSurvives, OneEntry, Zenon
  <2>3. JSONString(e) = <<List(<<Float(index), second>>)>>
    BY <1>1, <2>1 DEF JSONString
  <2> HIDE DEF second
  <2>4. raw # <<>> /\ raw[1] = read(second)
    BY <1>2, <2>3 DEF TransactionErrorFromInstructionError
  <2>5. ParseTransactionError(raw[1]) = Result("InstructionError", <<back(code)>>)
    BY <2>2, <2>4, Reread
  <2>6. HeldByFloat(e) => back(code) = e
    BY <1>1, <1>5, <2>1 DEF HeldByFloat
  <2>7. back(code).err = code
    BY <1>3
  <2> HIDE DEF back, read, code
  <2>8. /\ ~ParseTransactionError(raw[1]).err
        /\ ParseTransactionError(raw[1]).result[1].instruction[1] = back(code)
    BY <2>5, ResultHolds
  <2> HIDE DEF raw
  <2> QED
    BY <1>1, <2>1, <2>4, <2>6, <2>7, <2>8 DEF Comes, raw
<1> QED
  BY <1>4, <1>5

\* So whatever ParseTransactionError and ParseRPCError return survives.
LEMMA ParsedSurvives ==
  /\ \A raw : Survives(ParseTransactionError(raw).result)
  /\ \A data : Survives(ParseRPCError(data).result)
<1>1. Survives(<<>>)
  BY DEF Survives
<1>2. ASSUME NEW key PROVE Survives(Result(key, <<>>).result)
  BY DEF Survives, Result
<1>3. ASSUME NEW v, parseInstructionError(v) # <<>>
      PROVE  Survives(Result("InstructionError", parseInstructionError(v)).result)
  <2> DEFINE e == [index |-> parseJSONNumber(v.items[1])[1], err |-> Cause(v.items[2])]
  <2>1. parseInstructionError(v) = <<e>>
    BY <1>3 DEF parseInstructionError
  <2>2. e.err # NilErr => Comes(e)
    <3>1. e.err = Cause(v.items[2])
      OBVIOUS
    <3> QED
      BY <3>1, InstructionSurvives, CauseForms
  <2> HIDE DEF e
  <2>3. /\ DOMAIN <<e>> = {1} /\ <<e>>[1] = e
        /\ DOMAIN Result("InstructionError", <<e>>).result = {1}
        /\ Result("InstructionError", <<e>>).result[1].instruction = <<e>>
    BY ResultHolds
  <2> QED
    BY <2>1, <2>2, <2>3 DEF Survives
<1>4. ASSUME NEW raw PROVE Survives(MapError(raw).result)
  BY <1>1, <1>2, <1>3 DEF MapError, ParseFails
<1>5. ASSUME NEW raw PROVE Survives(ParseTransactionError(raw).result)
  <2>1. ParseTransactionError(raw) \in {Nothing, Result(raw.text, <<>>), MapError(raw), ParseFails}
    BY Zenon DEF ParseTransactionError
  <2>2. Nothing.result = <<>> /\ ParseFails.result = <<>>
    BY DEF Nothing, ParseFails
  <2> QED
    BY <1>1, <1>2, <1>4, <2>1, <2>2
<1>6. ASSUME NEW data PROVE Survives(ParseRPCError(data).result)
  BY <1>1, <1>5 DEF ParseRPCError, Nothing, ParseFails
<1> QED
  BY <1>5, <1>6

\* Every step of the client leaves s or replaces it by what was parsed.
LEMMA StatusParsed ==
  ASSUME [ClientNext]_clientVars
  PROVE  \/ s' \in {s, NoStatus}
         \/ \E raw : s'.errorResult = ParseTransactionError(raw).result
         \/ \E data : s'.errorResult = ParseRPCError(data).result
<1>1. CASE SendRejected
  <2>1. PICK data \in ErrorData :
          IF ParseRPCError(data).err THEN Return(NoStatus, "rpc")
          ELSE Return([confirmations |-> Nil, confirmationStatus |-> "",
                       errorResult |-> ParseRPCError(data).result], "nil")
    BY <1>1, Zenon DEF SendRejected
  <2> DEFINE found == ParseRPCError(data).result
  <2>2. s' = NoStatus \/ s' = [confirmations |-> Nil, confirmationStatus |-> "", errorResult |-> found]
    BY <2>1, Zenon DEF Return
  <2> HIDE DEF found
  <2>3. ASSUME s' # NoStatus PROVE s'.errorResult = found
    <3>1. s' = [confirmations |-> Nil, confirmationStatus |-> "", errorResult |-> found]
      BY <2>2, <2>3, Zenon
    <3> QED
      BY <3>1, Zenon
  <2> QED
    BY <2>3, Zenon DEF found
<1>2. CASE PollFound
  BY <1>2 DEF PollFound, Return, PollAgain, Status
<1>3. CASE \/ Advance \/ Fork \/ SendFails \/ SendAccepted
         \/ PollFails \/ PollNotFound \/ PollTooMany
  BY <1>3, Zenon DEF Advance, Fork, SendFails, SendAccepted, PollFails, PollNotFound, PollTooMany,
     Retriable, Return, PollAgain
<1>4. CASE QueryStep \/ SearchStep \/ UNCHANGED vars
  BY <1>4, Zenon DEF QueryStep, QueryFails, QueryRefused, QueryAnswered, SearchStep, Search, Finish,
     Return, vars
<1> QED
  BY <1>1, <1>2, <1>3, <1>4
  DEF ClientNext, clientVars, Submission, Next, Done, BlockhashStep

\* An instruction error that the client returns, from whichever answer of a node,
\* can be made into JSON and read again if its text needs no escapes: its kind and
\* its text stay, and so do the numbers that a float64 holds.
THEOREM ErrorsSurvive == ClientSpec => []ErrorsSurviveJSON
<1>1. ErrorsSurviveJSON <=> (s # NoStatus => Survives(s.errorResult))
  BY DEF ErrorsSurviveJSON, Survives, Comes
<1>2. ClientInit => ErrorsSurviveJSON
  BY Zenon DEF ClientInit, Init, Begin, ErrorsSurviveJSON
<1>3. ErrorsSurviveJSON /\ [ClientNext]_clientVars => ErrorsSurviveJSON'
  <2> SUFFICES ASSUME ErrorsSurviveJSON, [ClientNext]_clientVars PROVE ErrorsSurviveJSON'
    OBVIOUS
  <2>1. ErrorsSurviveJSON' <=> (s' # NoStatus => Survives(s'.errorResult))
    BY Zenon DEF ErrorsSurviveJSON, Survives, Comes
  <2> QED
    BY <1>1, <2>1, StatusParsed, ParsedSurvives
<1> QED
  BY <1>2, <1>3, PTL DEF ClientSpec

-----------------------------------------------------------------------------
(***************************************************************************)
(* The queries.                                                            *)
(***************************************************************************)
\* What the call returns is the decoding r.
EndedWith(r) == err = r.err /\ value = r.value

\* A query has ended without an answer, or with the decoding of an answer that a
\* node may give; a search has ended with what FindProgramAddress computes.
QueryEnded ==
  \/ asked = {} /\ (err = "nil" => op = "GetBlockTime" /\ value = 0)
  \/ \E v \in Answers[op] : asked = {v} /\ EndedWith(Decoded(op, v))
SearchEnded ==
  \E seeds \in [count : 0..MaxSeeds, long : BOOLEAN], onCurve \in SUBSET (0..MaxBump) :
    /\ asked = {[seeds |-> seeds, onCurve |-> onCurve]}
    /\ EndedWith(FindProgramAddress(seeds, onCurve))
QueryInv ==
  /\ pc = "query" => op \in Queries
  /\ op \in {"SubmitTransaction", "FindProgramAddress", "GetRecentBlockhash"} \cup Queries
  /\ pc # "done" \/ op \in {"SubmitTransaction", "GetRecentBlockhash"} => asked = {}
  /\ pc = "done" /\ op \in Queries => QueryEnded
  /\ pc = "done" /\ op = "FindProgramAddress" => SearchEnded

\* A submission, and the cache, have nothing to do with it.
LEMMA OtherStep ==
  ASSUME QueryInv, UNCHANGED queryVars, (op = "SubmitTransaction" /\ pc' # "query") \/ UNCHANGED vars
  PROVE  QueryInv'
<1>1. "SubmitTransaction" \notin Queries
  BY DEF Queries, Numbers
<1>2. CASE op = "SubmitTransaction" /\ pc' # "query"
  BY <1>1, <1>2 DEF QueryInv, queryVars
<1>3. CASE UNCHANGED vars
  BY <1>3, Zenon DEF QueryInv, queryVars, vars, QueryEnded, SearchEnded, EndedWith
<1> QED
  BY <1>2, <1>3

\* A query is tried again or ends.
LEMMA QueryStepKeeps == ASSUME QueryInv, QueryStep PROVE QueryInv'
<1>1. /\ pc = "query" /\ op \in Queries
      /\ op \notin {"SubmitTransaction", "FindProgramAddress", "GetRecentBlockhash"}
  BY Zenon DEF QueryInv, QueryStep, QueryFails, QueryRefused, QueryAnswered, Queries, Numbers
<1>2. SUFFICES ASSUME pc' # pc \/ ~UNCHANGED queryVars PROVE op' = op /\ pc' = "done" /\ QueryEnded'
  BY <1>1 DEF QueryInv, queryVars
<1>3. ASSUME NEW e, e # "nil", Finish({}, Failed(e)) PROVE op' = op /\ pc' = "done" /\ QueryEnded'
  <2>1. Failed(e).err # "nil"
    BY <1>3 DEF Failed
  <2> QED
    BY <1>3, <2>1 DEF Finish, Return, QueryEnded
<1>4. ASSUME op = "GetBlockTime", Finish({}, Ok(0)) PROVE op' = op /\ pc' = "done" /\ QueryEnded'
  <2>1. Ok(0).value = 0
    BY DEF Ok
  <2> QED
    BY <1>4, <2>1 DEF Finish, Return, QueryEnded
<1>5. ASSUME NEW v \in Answers[op], Finish({v}, Decoded(op, v))
      PROVE  op' = op /\ pc' = "done" /\ QueryEnded'
  <2>1. op' = op /\ pc' = "done" /\ asked' = {v}
    BY <1>5 DEF Finish, Return
  <2>2. EndedWith(Decoded(op, v))'
    BY <1>5 DEF Finish, Return, EndedWith
  <2> QED
    BY <2>1, <2>2 DEF QueryEnded
<1>6. CASE QueryFails
  BY <1>2, <1>3, <1>6 DEF QueryFails
<1>7. CASE QueryRefused
  BY <1>3, <1>4, <1>7, Zenon DEF QueryRefused
<1>8. CASE QueryAnswered
  BY <1>5, <1>8 DEF QueryAnswered
<1> QED
  BY <1>6, <1>7, <1>8 DEF QueryStep

\* The search ends.
LEMMA SearchStepKeeps == ASSUME QueryInv, SearchStep PROVE QueryInv'
<1>1. op = "FindProgramAddress" /\ op \notin Queries
  BY DEF SearchStep, Queries, Numbers
<1>2. PICK seeds \in [count : 0..MaxSeeds, long : BOOLEAN], onCurve \in SUBSET (0..MaxBump) :
        Finish({[seeds |-> seeds, onCurve |-> onCurve]}, FindProgramAddress(seeds, onCurve))
  BY Zenon DEF SearchStep, Search
<1>3. op' = op /\ pc' = "done" /\ asked' = {[seeds |-> seeds, onCurve |-> onCurve]}
  BY <1>2 DEF Finish, Return
<1>4. EndedWith(FindProgramAddress(seeds, onCurve))'
  BY <1>2 DEF Finish, Return, EndedWith
<1>5. SearchEnded'
  BY <1>3, <1>4 DEF SearchEnded
<1> QED
  BY <1>1, <1>3, <1>5 DEF QueryInv

\* The invariant holds in every state.
LEMMA QueryInvariant == ClientSpec => []QueryInv
<1>1. ClientInit => QueryInv
  BY DEF ClientInit, Init, Begin, QueryInv, Queries, Numbers
<1>2. QueryInv /\ [ClientNext]_clientVars => QueryInv'
  <2> SUFFICES ASSUME QueryInv, [ClientNext]_clientVars PROVE QueryInv'
    OBVIOUS
  <2>1. CASE Submission
    <3>1. op = "SubmitTransaction" /\ UNCHANGED queryVars /\ pc # "query"
      BY <2>1 DEF Submission, QueryInv, Queries, Numbers
    <3>2. pc' \in {pc, "poll", "done"}
      BY <2>1, Zenon DEF Submission, Next, Advance, Fork, SendFails, SendRejected, SendAccepted,
         PollFails, PollNotFound, PollFound, PollTooMany, Done, Retriable, PollAgain, Return, vars
    <3> QED
      BY <3>1, <3>2, OtherStep
  <2>2. CASE BlockhashStep \/ UNCHANGED clientVars
    BY <2>2, OtherStep DEF BlockhashStep, clientVars
  <2> QED
    BY <2>1, <2>2, QueryStepKeeps, SearchStepKeeps DEF ClientNext
<1> QED
  BY <1>1, <1>2, PTL DEF ClientSpec
-----------------------------------------------------------------------------
\* The two kinds of results.
LEMMA OkOrFailed ==
  /\ \A v : Ok(v).err = "nil" /\ Ok(v).value = v
  /\ \A e : Failed(e).err = e /\ Failed(e).value = {}
BY DEF Ok, Failed

\* What each query decodes with.
LEMMA DecodedBy ==
  ASSUME NEW v
  PROVE  /\ Decoded("GetBalance", v) = GetBalance(v)
         /\ Decoded("GetConfirmedBlock", v) = GetConfirmedBlock(v)
         /\ Decoded("GetConfirmedTransaction", v) = GetConfirmedTransaction(v)
         /\ Decoded("SimulateTransaction", v) = SimulateTransaction(v)
         /\ Decoded("GetTokenAccountsByOwner", v) = GetTokenAccountsByOwner(v)
         /\ Decoded("GetAccount", v) = GetAccount(GetAccountInfo(v), ProgramKey, Token)
         /\ Decoded("GetAccountInfo", v) = GetAccountInfo(v)
         /\ Decoded("RequestAirdrop", v) = RequestAirdrop(v)
         /\ \A query \in Numbers : Decoded(query, v) = Ok(v)
BY DEF Decoded, Numbers

\* An error is found exactly if there is one.
LEMMA ParseTells ==
  ASSUME NEW raw, NullIsNull(raw), ~ParseTransactionError(raw).err
  PROVE  ParseTransactionError(raw).result # Nil <=> raw # Null
<1>1. CASE raw = Null
  <2>1. ParseTransactionError(raw) = Nothing
    BY <1>1 DEF ParseTransactionError, Null
  <2> QED
    BY <1>1, <2>1 DEF Nothing, Nil
<1>2. CASE raw # Null
  BY <1>2, OnlyNullIsNothing DEF NullIsNull
<1> QED
  BY <1>1, <1>2

LEMMA TransactionTells ==
  ASSUME NEW t, ErrorIsJSON(t), Transaction(t).err = "nil"
  PROVE  Transaction(t).value # Nil <=> FailedOnChain(t)
<1> DEFINE parsed == IF t.meta = <<>> THEN Nothing ELSE ParseTransactionError(t.meta[1])
<1>1. \/ Transaction(t) = Failed("panic") \/ Transaction(t) = Failed("decode")
      \/ ~parsed.err /\ Transaction(t) = Ok(parsed.result)
  BY Zenon DEF Transaction
<1>2. ~parsed.err /\ Transaction(t).value = parsed.result
  <2> HIDE DEF parsed
  <2>1. "decode" # "nil" /\ "panic" # "nil"
    OBVIOUS
  <2> QED
    BY <1>1, <2>1, OkOrFailed
<1>3. CASE t.meta = <<>>
  BY <1>2, <1>3 DEF Nothing, Nil, FailedOnChain
<1>4. CASE t.meta # <<>>
  BY <1>2, <1>4, ParseTells DEF ErrorIsJSON, FailedOnChain
<1> QED
  BY <1>3, <1>4

\* A balance is the nearest number that encoding/json knows.
LEMMA BalanceTells ==
  ASSUME NEW v \in Answers["GetBalance"], GetBalance(v).err = "nil"
  PROVE  /\ v.int <= ExactFloat => GetBalance(v).value = v.int
         /\ GetBalance(v).value \in v.int - 1 .. v.int + 1
<1>1. v.kind = "float64" /\ GetBalance(v).value = FloatOf(v.int)
  <2>1. "invalid value" # "nil"
    OBVIOUS
  <2> QED
    BY <2>1, OkOrFailed, Zenon DEF GetBalance
<1>2. v.int \in Nat /\ ExactFloat \in Nat
  BY <1>1, QueryAssumption, JSONAssumption
<1>3. v.int <= ExactFloat => FloatOf(v.int) = v.int
  BY <1>2 DEF FloatOf
<1>4. FloatOf(v.int) \in {v.int - 1, v.int, v.int + 1}
  BY <1>2 DEF FloatOf
<1> QED
  BY <1>1, <1>2, <1>3, <1>4

\* A block comes with all its transactions or not at all.
LEMMA BlockTells ==
  ASSUME NEW v \in Answers["GetConfirmedBlock"], GetConfirmedBlock(v).err = "nil"
  PROVE  /\ GetConfirmedBlock(v).value = Missing <=> v = Missing
         /\ v # Missing =>
              /\ DOMAIN GetConfirmedBlock(v).value.txs = DOMAIN v.txs
              /\ \A n \in DOMAIN v.txs :
                   GetConfirmedBlock(v).value.txs[n] # Nil <=> FailedOnChain(v.txs[n])
<1>1. CASE v = Missing
  BY <1>1, OkOrFailed DEF GetConfirmedBlock
<1>2. CASE v # Missing
  <2> DEFINE txs == [n \in DOMAIN v.txs |-> Transaction(v.txs[n]).value]
  <2>1. "decode" # "nil" /\ "panic" # "nil"
    OBVIOUS
  <2>2. \/ GetConfirmedBlock(v) = Failed("decode") \/ GetConfirmedBlock(v) = Failed("panic")
        \/ /\ \A n \in DOMAIN v.txs : Transaction(v.txs[n]).err = "nil"
           /\ GetConfirmedBlock(v) = Ok([txs |-> txs])
    BY <1>2, Zenon DEF GetConfirmedBlock
  <2>3. /\ \A n \in DOMAIN v.txs : Transaction(v.txs[n]).err = "nil"
        /\ GetConfirmedBlock(v).value = [txs |-> txs]
    BY <2>1, <2>2, OkOrFailed
  <2>4. \A n \in DOMAIN v.txs : Transaction(v.txs[n]).value # Nil <=> FailedOnChain(v.txs[n])
    BY <1>2, <2>3, TransactionTells, QueryAssumption
  <2>5. [txs |-> txs] # Missing /\ [txs |-> txs].txs = txs
    BY DEF Missing
  <2> QED
    BY <1>2, <2>3, <2>4, <2>5
<1> QED
  BY <1>1, <1>2

LEMMA ConfirmedTells ==
  ASSUME NEW v \in Answers["GetConfirmedTransaction"], GetConfirmedTransaction(v).err = "nil"
  PROVE  GetConfirmedTransaction(v).value # Nil <=> FailedOnChain(v)
<1>1. "signature not found" # "nil"
  OBVIOUS
<1>2. v # Missing /\ GetConfirmedTransaction(v) = Transaction(v)
  BY <1>1, OkOrFailed, Zenon DEF GetConfirmedTransaction
<1> QED
  BY <1>2, TransactionTells, QueryAssumption

LEMMA SimulationTells ==
  ASSUME NEW v \in Answers["SimulateTransaction"], SimulateTransaction(v).err = "nil"
  PROVE  SimulateTransaction(v).value # Nil <=> v # Null
<1>1. "decode" # "nil"
  OBVIOUS
<1>2. ~ParseTransactionError(v).err
      /\ SimulateTransaction(v).value = ParseTransactionError(v).result
  BY <1>1, OkOrFailed DEF SimulateTransaction
<1> QED
  BY <1>2, ParseTells, QueryAssumption

LEMMA OwnedTells ==
  ASSUME NEW v \in Answers["GetTokenAccountsByOwner"], GetTokenAccountsByOwner(v).err = "nil"
  PROVE  Len(GetTokenAccountsByOwner(v).value) = Len(v)
<1>1. "decode" # "nil"
  OBVIOUS
<1>2. GetTokenAccountsByOwner(v).value = [n \in DOMAIN v |-> v[n].bytes]
  BY <1>1, OkOrFailed DEF GetTokenAccountsByOwner
<1>3. v \in Seq(Text)
  BY QueryAssumption
<1>4. Len(v) \in Nat /\ DOMAIN v = 1 .. Len(v)
  BY <1>3
<1>5. Len([n \in 1 .. Len(v) |-> v[n].bytes]) = Len(v)
  BY <1>4
<1> QED
  BY <1>2, <1>4, <1>5
-----------------------------------------------------------------------------
\* The search finds the first bump off the curve, and none only if all of them
\* are on it.
LEMMA SearchTells ==
  ASSUME NEW seeds \in [count : 0..MaxSeeds, long : BOOLEAN], NEW onCurve,
         FindProgramAddress(seeds, onCurve).err = "nil"
  PROVE  FindProgramAddress(seeds, onCurve).value =
           {b \in 1..MaxBump : b \notin onCurve /\ b + 1 .. MaxBump \subseteq onCurve}
<1> DEFINE try(bump) == CreateProgramAddress(seeds, bump, onCurve)
           ends  == {bump \in 1..MaxBump : try(bump).err # "invalid public key"}
           first == {b \in ends : \A c \in ends : c <= b}
           found == FindProgramAddress(seeds, onCurve)
           off   == {b \in 1..MaxBump : b \notin onCurve /\ b + 1 .. MaxBump \subseteq onCurve}
<1>1. MaxBump \in Nat /\ MaxSeeds \in Nat /\ seeds.count \in Nat
  BY QueryAssumption
<1>2. found = IF first = {} THEN Ok({}) ELSE try(CHOOSE b \in first : TRUE)
  BY Zenon DEF FindProgramAddress
<1>3. /\ "too many seeds" # "nil" /\ "max seed length exceeded" # "nil"
      /\ "invalid public key" # "nil" /\ "too many seeds" # "invalid public key"
      /\ "max seed length exceeded" # "invalid public key"
  OBVIOUS
<1>4. CASE seeds.count + 1 > MaxSeeds \/ seeds.long
  <2>1. ASSUME NEW bump PROVE try(bump).err # "nil" /\ try(bump).err # "invalid public key"
    <3>1. try(bump) = Failed("too many seeds") \/ try(bump) = Failed("max seed length exceeded")
      <4>1. CASE seeds.count + 1 > MaxSeeds
        <5>1. ~(seeds.count + 1 <= MaxSeeds)
          BY <1>1, <4>1
        <5> QED
          BY <4>1, <5>1, Zenon DEF CreateProgramAddress
      <4>2. CASE seeds.count + 1 <= MaxSeeds /\ seeds.long
        <5>1. ~(seeds.count + 1 > MaxSeeds)
          BY <1>1, <4>2
        <5> QED
          BY <4>2, <5>1, Zenon DEF CreateProgramAddress
      <4>3. seeds.count + 1 > MaxSeeds \/ seeds.count + 1 <= MaxSeeds
        BY <1>1
      <4> QED
        BY <1>4, <4>1, <4>2, <4>3, Zenon
    <3> HIDE DEF try
    <3> QED
      BY <1>3, <3>1, OkOrFailed, Zenon
  <2> HIDE DEF try
  <2>2. first = {}
    BY <1>2, <2>1, Zenon DEF found
  <2>3. ends = 1..MaxBump
    BY <2>1, Zenon
  <2> HIDE DEF ends
  <2>4. 1..MaxBump = {}
    <3> SUFFICES ASSUME MaxBump >= 1 PROVE FALSE
      BY <1>1
    <3>1. MaxBump \in ends /\ \A c \in ends : c <= MaxBump
      BY <1>1, <2>3
    <3> QED
      BY <2>2, <3>1
  <2> QED
    BY <1>2, <2>2, <2>4, OkOrFailed
<1>5. CASE ~(seeds.count + 1 > MaxSeeds \/ seeds.long)
  <2>1. ASSUME NEW bump
        PROVE  try(bump) = IF bump \in onCurve THEN Failed("invalid public key") ELSE Ok({bump})
    BY <1>1, <1>5, Zenon DEF CreateProgramAddress
  <2> HIDE DEF try
  <2>2. ends = {b \in 1..MaxBump : b \notin onCurve}
    BY <1>3, <2>1, OkOrFailed, Zenon
  <2> HIDE DEF ends
  <2>3. first = off
    BY <1>1, <2>2
  <2>4. CASE first = {}
    BY <1>2, <2>3, <2>4, OkOrFailed
  <2>5. CASE first # {}
    <3>1. PICK b \in first : b = CHOOSE n \in first : TRUE
      BY <2>5
    <3>2. b \notin onCurve /\ b \in ends /\ first = {b}
      <4>1. \A c \in first : c = b
        BY <1>1, <2>2
      <4> QED
        BY <2>2, <4>1
    <3>3. found = Ok({b})
      BY <1>2, <2>1, <2>5, <3>1, <3>2, Zenon
    <3> QED
      BY <2>3, <3>2, <3>3, OkOrFailed
  <2> QED
    BY <2>4, <2>5
<1> QED
  BY <1>4, <1>5

\* The search has errors of its own only.
LEMMA SearchNeverPanics ==
  ASSUME NEW seeds \in [count : 0..MaxSeeds, long : BOOLEAN], NEW onCurve
  PROVE  FindProgramAddress(seeds, onCurve).err # "panic"
<1>1. /\ "too many seeds" # "panic" /\ "max seed length exceeded" # "panic"
      /\ "invalid public key" # "panic" /\ "nil" # "panic"
  OBVIOUS
<1>2. ASSUME NEW bump PROVE CreateProgramAddress(seeds, bump, onCurve).err # "panic"
  <2>1. \/ CreateProgramAddress(seeds, bump, onCurve) = Ok({bump})
        \/ CreateProgramAddress(seeds, bump, onCurve) = Failed("too many seeds")
        \/ CreateProgramAddress(seeds, bump, onCurve) = Failed("max seed length exceeded")
        \/ CreateProgramAddress(seeds, bump, onCurve) = Failed("invalid public key")
    <3>1. CASE seeds.count + 1 > MaxSeeds
      <4>1. ~(seeds.count + 1 <= MaxSeeds)
        BY <3>1, QueryAssumption
      <4> QED
        BY <3>1, <4>1, Zenon DEF CreateProgramAddress
    <3>2. CASE ~(seeds.count + 1 > MaxSeeds) /\ seeds.count + 1 <= MaxSeeds /\ seeds.long
      BY <3>2, Zenon DEF CreateProgramAddress
    <3>3. CASE ~(seeds.count + 1 > MaxSeeds) /\ ~(seeds.count + 1 <= MaxSeeds /\ seeds.long)
      BY <3>3, Zenon DEF CreateProgramAddress
    <3> QED
      BY <3>1, <3>2, <3>3, Zenon
  <2> QED
    BY <1>1, <2>1, OkOrFailed, Zenon
<1>3. \/ FindProgramAddress(seeds, onCurve) = Ok({})
      \/ \E bump : FindProgramAddress(seeds, onCurve) = CreateProgramAddress(seeds, bump, onCurve)
  BY Zenon DEF FindProgramAddress
<1> QED
  BY <1>1, <1>2, <1>3, OkOrFailed

\* Only an empty array makes a query panic.
LEMMA PanicTells ==
  ASSUME NEW query \in Queries, NEW v, Decoded(query, v).err = "panic"
  PROVE  EmptyArray(query, v)
<1>1. /\ "nil" # "panic" /\ "decode" # "panic" /\ "invalid value" # "panic"
      /\ "signature not found" # "panic" /\ "no account info" # "panic"
      /\ "empty signature" # "panic" /\ "account not found" # "panic"
      /\ "invalid token account" # "panic" /\ "nil" # "no account info" /\ "panic" # "no account info"
  OBVIOUS
<1>2. ASSUME NEW t, Transaction(t).err = "panic" PROVE t.text = "missing"
  <2>1. \/ t.text = "missing" \/ Transaction(t) = Failed("decode")
        \/ \E x : Transaction(t) = Ok(x)
    BY Zenon DEF Transaction
  <2> QED
    BY <1>1, <1>2, <2>1, OkOrFailed
<1>3. ASSUME GetAccountInfo(v).err = "panic" PROVE v.data = Missing
  <2>1. \/ v.data = Missing \/ GetAccountInfo(v) = Failed("no account info")
        \/ GetAccountInfo(v) = Failed("decode") \/ \E x : GetAccountInfo(v) = Ok(x)
    BY Zenon DEF GetAccountInfo
  <2> QED
    BY <1>1, <1>3, <2>1, OkOrFailed, Zenon
<1>4. CASE query \in Numbers
  BY <1>1, <1>4, DecodedBy, OkOrFailed
<1>5. CASE query = "GetBalance"
  <2>1. GetBalance(v) = Ok(FloatOf(v.int)) \/ GetBalance(v) = Failed("invalid value")
    BY Zenon DEF GetBalance
  <2> QED
    BY <1>1, <1>5, <2>1, DecodedBy, OkOrFailed, Zenon
<1>6. CASE query = "GetConfirmedBlock"
  <2>1. \/ \E n \in DOMAIN v.txs : v.txs[n].text = "missing"
        \/ GetConfirmedBlock(v) = Failed("decode") \/ \E x : GetConfirmedBlock(v) = Ok(x)
    BY Zenon DEF GetConfirmedBlock
  <2>2. GetConfirmedBlock(v).err = "panic"
    BY <1>6, DecodedBy
  <2>3. \E n \in DOMAIN v.txs : v.txs[n].text = "missing"
    BY <1>1, <2>1, <2>2, OkOrFailed
  <2> QED
    BY <1>6, <2>3 DEF EmptyArray
<1>7. CASE query = "GetConfirmedTransaction"
  <2>1. GetConfirmedTransaction(v).err = "panic"
    BY <1>7, DecodedBy
  <2>2. v.text = "missing"
    BY <1>1, <1>2, <2>1, OkOrFailed, Zenon DEF GetConfirmedTransaction
  <2> QED
    BY <1>7, <2>2 DEF EmptyArray
<1>8. CASE query = "SimulateTransaction"
  BY <1>1, <1>8, DecodedBy, OkOrFailed DEF SimulateTransaction
<1>9. CASE query = "GetAccountInfo"
  BY <1>3, <1>9, DecodedBy DEF EmptyArray
<1>10. CASE query = "RequestAirdrop"
  <2>1. \/ RequestAirdrop(v) = Failed("decode") \/ RequestAirdrop(v) = Failed("empty signature")
        \/ RequestAirdrop(v) = Ok(v.bytes)
    BY Zenon DEF RequestAirdrop
  <2> QED
    BY <1>1, <1>10, <2>1, DecodedBy, OkOrFailed, Zenon
<1>11. CASE query = "GetTokenAccountsByOwner"
  <2>1. \/ GetTokenAccountsByOwner(v) = Failed("decode")
        \/ GetTokenAccountsByOwner(v) = Ok([n \in DOMAIN v |-> v[n].bytes])
    BY Zenon DEF GetTokenAccountsByOwner
  <2> QED
    BY <1>1, <1>11, <2>1, DecodedBy, OkOrFailed, Zenon
<1>12. CASE query = "GetAccount"
  <2> DEFINE r == GetAccount(GetAccountInfo(v), ProgramKey, Token)
  <2>1. \A e, x : [err |-> e, value |-> x].err = e
    OBVIOUS
  <2>2. r.err \in {"account not found", GetAccountInfo(v).err, "invalid token account", "nil"}
    BY <2>1, Zenon DEF GetAccount
  <2>3. r.err = "panic"
    BY <1>12, DecodedBy
  <2>4. GetAccountInfo(v).err = "panic"
    BY <1>1, <2>2, <2>3
  <2> QED
    BY <1>3, <1>12, <2>4 DEF EmptyArray
<1> QED
  BY <1>4, <1>5, <1>6, <1>7, <1>8, <1>9, <1>10, <1>11, <1>12 DEF Queries

\* A query that has asked and ended has decoded what it was answered.
LEMMA AnswerDecoded ==
  ASSUME QueryInv, NEW a \in asked, NEW query \in Queries, pc = "done", op = query
  PROVE  a \in Answers[query] /\ EndedWith(Decoded(query, a))
<1>1. QueryEnded
  BY DEF QueryInv
<1> QED
  BY <1>1 DEF QueryEnded

\* Whatever a node answers, a query that returns no error returns what the answer
\* says, and one that panics was answered with an empty array; without an answer
\* GetBlockTime alone returns no error.  The program address is the first off the
\* curve, for any number of bumps and seeds.
THEOREM QueriesTellTheAnswer == ClientSpec => []QueriesFaithful
<1>1. QueryInv => QueriesFaithful
  <2> SUFFICES ASSUME QueryInv PROVE QueriesFaithful
    OBVIOUS
  <2>1. pc = "done" /\ op \in Queries /\ err = "nil" /\ asked = {} => op = "GetBlockTime" /\ value = 0
    <3>1. SUFFICES ASSUME pc = "done", op \in Queries, err = "nil", asked = {} PROVE op = "GetBlockTime" /\ value = 0
      OBVIOUS
    <3>2. QueryEnded
      BY <3>1 DEF QueryInv
    <3> QED
      BY <3>1, <3>2 DEF QueryEnded
  <2>2. ASSUME NEW a \in asked
        PROVE  /\ Answered("GetBalance") =>
                    /\ a.int <= ExactFloat => value = a.int
                    /\ value \in a.int - 1 .. a.int + 1
               /\ Answered("GetConfirmedBlock") =>
                    /\ value = Missing <=> a = Missing
                    /\ a # Missing =>
                         /\ DOMAIN value.txs = DOMAIN a.txs
                         /\ \A n \in DOMAIN a.txs : value.txs[n] # Nil <=> FailedOnChain(a.txs[n])
               /\ Answered("GetConfirmedTransaction") => (value # Nil <=> FailedOnChain(a))
               /\ Answered("SimulateTransaction") => (value # Nil <=> a # Null)
               /\ Answered("GetTokenAccountsByOwner") => Len(value) = Len(a)
    <3>1. ASSUME NEW query \in Queries, Answered(query)
          PROVE  a \in Answers[query] /\ Decoded(query, a).err = "nil" /\ value = Decoded(query, a).value
      BY <3>1, AnswerDecoded DEF Answered, EndedWith
    <3>2. {"GetBalance", "GetConfirmedBlock", "GetConfirmedTransaction", "SimulateTransaction",
           "GetTokenAccountsByOwner"} \subseteq Queries
      BY DEF Queries
    <3>3. CASE Answered("GetBalance")
      BY <3>1, <3>2, <3>3, DecodedBy, BalanceTells DEF Answered
    <3>4. CASE Answered("GetConfirmedBlock")
      <4>1. a \in Answers["GetConfirmedBlock"] /\ GetConfirmedBlock(a).err = "nil"
        BY <3>1, <3>2, <3>4, DecodedBy
      <4>2. value = GetConfirmedBlock(a).value
        BY <3>1, <3>2, <3>4, DecodedBy
      <4>3. op = "GetConfirmedBlock"
        BY <3>4 DEF Answered
      <4> QED
        BY <4>1, <4>2, <4>3, BlockTells DEF Answered
    <3>5. CASE Answered("GetConfirmedTransaction")
      BY <3>1, <3>2, <3>5, DecodedBy, ConfirmedTells DEF Answered
    <3>6. CASE Answered("SimulateTransaction")
      BY <3>1, <3>2, <3>6, DecodedBy, SimulationTells DEF Answered
    <3>7. CASE Answered("GetTokenAccountsByOwner")
      BY <3>1, <3>2, <3>7, DecodedBy, OwnedTells DEF Answered
    <3> QED
      BY <3>3, <3>4, <3>5, <3>6, <3>7
  <2>3. ASSUME NEW a \in asked, Answered("FindProgramAddress")
        PROVE  value = {b \in 1..MaxBump : b \notin a.onCurve /\ b + 1 .. MaxBump \subseteq a.onCurve}
    <3>1. SearchEnded /\ err = "nil"
      BY <2>3 DEF Answered, QueryInv
    <3>2. PICK seeds \in [count : 0..MaxSeeds, long : BOOLEAN], onCurve \in SUBSET (0..MaxBump) :
            /\ asked = {[seeds |-> seeds, onCurve |-> onCurve]}
            /\ EndedWith(FindProgramAddress(seeds, onCurve))
      BY <3>1 DEF SearchEnded
    <3>3. a.onCurve = onCurve
      BY <3>2
    <3> QED
      BY <3>1, <3>2, <3>3, SearchTells DEF EndedWith
  <2>4. ASSUME NEW a \in asked, pc = "done", err = "panic" PROVE EmptyArray(op, a)
    <3>1. CASE op \in Queries
      <4>1. Decoded(op, a).err = "panic"
        BY <2>4, <3>1, AnswerDecoded DEF EndedWith
      <4> QED
        BY <3>1, <4>1, PanicTells
    <3>2. CASE op = "FindProgramAddress"
      <4>1. PICK seeds \in [count : 0..MaxSeeds, long : BOOLEAN], onCurve \in SUBSET (0..MaxBump) :
              EndedWith(FindProgramAddress(seeds, onCurve))
        BY <2>4, <3>2 DEF QueryInv, SearchEnded
      <4> QED
        BY <2>4, <4>1, SearchNeverPanics DEF EndedWith
    <3> QED
      BY <3>1, <3>2 DEF QueryInv
  <2> QED
    BY <2>1, <2>2, <2>3, <2>4 DEF QueriesFaithful
<1> QED
  BY <1>1, QueryInvariant, PTL

-----------------------------------------------------------------------------
(***************************************************************************)
(* Token accounts.                                                         *)
(***************************************************************************)
\* The numbers of the layout.
LEMMA Layout ==
  /\ KeySize = 2 /\ Uint64Size = 2 /\ TagSize = 2 /\ Base = 3 /\ AccountSize = 21
  /\ AmountAt = 4 /\ DelegateAt = 6 /\ StateAt = 10 /\ NativeAt = 11
  /\ DelegatedAt = 15 /\ CloseAt = 17
BY DEF KeySize, Uint64Size, TagSize, Base, AccountSize, AmountAt, DelegateAt, StateAt, NativeAt,
   DelegatedAt, CloseAt

\* The cells of a sequence of numbers.
LEMMA Element == ASSUME NEW p \in Seq(Nat), NEW j \in 1 .. Len(p) PROVE p[j] \in Nat
OBVIOUS

\* Sequences of numbers with the same cells are equal.
LEMMA SameCells ==
  ASSUME NEW p \in Seq(Nat), NEW q \in Seq(Nat), Len(p) = Len(q), \A j \in 1 .. Len(p) : p[j] = q[j]
  PROVE  p = q
OBVIOUS

\* The cells of one sequence after another.
LEMMA Joined ==
  ASSUME NEW p \in Seq(Nat), NEW q \in Seq(Nat)
  PROVE  /\ p \o q \in Seq(Nat) /\ Len(p \o q) = Len(p) + Len(q)
         /\ \A j \in 1 .. Len(p) + Len(q) : (p \o q)[j] = IF j <= Len(p) THEN p[j] ELSE q[j - Len(p)]
OBVIOUS

\* The cells of a part of a sequence.
LEMMA Part ==
  ASSUME NEW p \in Seq(Nat), NEW m \in Nat, NEW n \in Nat, m <= n, n <= Len(p)
  PROVE  /\ SubSeq(p, m + 1, n) \in Seq(Nat) /\ Len(SubSeq(p, m + 1, n)) = n - m
         /\ \A j \in 1 .. n - m : SubSeq(p, m + 1, n)[j] = p[m + j]
OBVIOUS

\* A part and the part after it are one part.
LEMMA Adjacent ==
  ASSUME NEW b \in Seq(Nat), NEW l \in Nat, NEW m \in Nat, NEW n \in Nat,
         l <= m, m <= n, n <= Len(b)
  PROVE  SubSeq(b, l + 1, m) \o SubSeq(b, m + 1, n) = SubSeq(b, l + 1, n)
<1> DEFINE p == SubSeq(b, l + 1, m)
           q == SubSeq(b, m + 1, n)
           r == SubSeq(b, l + 1, n)
<1>1. p \in Seq(Nat) /\ Len(p) = m - l /\ \A j \in 1 .. m - l : p[j] = b[l + j]
  BY Part
<1>2. q \in Seq(Nat) /\ Len(q) = n - m /\ \A j \in 1 .. n - m : q[j] = b[m + j]
  BY Part
<1>3. r \in Seq(Nat) /\ Len(r) = n - l /\ \A j \in 1 .. n - l : r[j] = b[l + j]
  BY Part
<1> HIDE DEF p, q, r
<1> DEFINE w == p \o q
<1>4. w \in Seq(Nat) /\ Len(w) = Len(p) + Len(q)
      /\ \A j \in 1 .. Len(p) + Len(q) : w[j] = IF j <= Len(p) THEN p[j] ELSE q[j - Len(p)]
  BY <1>1, <1>2, Joined, Zenon
<1> HIDE DEF w
<1>5. ASSUME NEW j \in 1 .. n - l PROVE w[j] = r[j]
  <2>1. j \in 1 .. Len(p) + Len(q) /\ r[j] = b[l + j]
    <3>1. Len(p) = m - l /\ Len(q) = n - m
      BY <1>1, <1>2, Zenon
    <3>2. Len(p) + Len(q) = n - l
      BY ONLY <3>1, l \in Nat, m \in Nat, n \in Nat
    <3>3. r[j] = b[l + j]
      BY <1>3, Zenon
    <3> QED
      BY <3>2, <3>3, Zenon
  <2>2. CASE j <= m - l
    <3>1. j \in 1 .. m - l /\ j <= Len(p)
      BY <1>1, <2>2
    <3>2. w[j] = p[j] /\ p[j] = b[l + j]
      BY <1>1, <1>4, <2>1, <3>1
    <3> QED
      BY <2>1, <3>2
  <2>3. CASE ~(j <= m - l)
    <3>1. j - Len(p) \in 1 .. n - m /\ m + (j - Len(p)) = l + j /\ ~(j <= Len(p))
      BY <1>1, <2>3
    <3>2. w[j] = q[j - Len(p)] /\ q[j - Len(p)] = b[m + (j - Len(p))]
      BY <1>2, <1>4, <2>1, <3>1
    <3> QED
      BY <2>1, <3>1, <3>2, Zenon
  <2> QED
    BY <2>2, <2>3
<1>6. w = r
  <2>1. Len(w) = n - l
    BY <1>1, <1>2, <1>4
  <2> QED
    BY <1>3, <1>4, <1>5, <2>1, SameCells, Zenon
<1> QED
  BY <1>6 DEF p, q, r, w

\* One cell of a sequence.
LEMMA Cell == ASSUME NEW b \in Seq(Nat), NEW n \in 1 .. Len(b) PROVE SubSeq(b, n, n) = <<b[n]>>
<1> DEFINE p == SubSeq(b, (n - 1) + 1, n)
           q == <<b[n]>>
<1>1. n - 1 \in Nat /\ n \in Nat /\ (n - 1) + 1 = n /\ n - (n - 1) = 1 /\ n - 1 <= n /\ n <= Len(b)
  OBVIOUS
<1>2. p \in Seq(Nat) /\ Len(p) = n - (n - 1) /\ \A j \in 1 .. n - (n - 1) : p[j] = b[(n - 1) + j]
  BY <1>1, Part, Zenon
<1>3. q \in Seq(Nat) /\ Len(q) = 1 /\ q[1] = b[n]
  OBVIOUS
<1> HIDE DEF p, q
<1>4. Len(p) = 1 /\ p[1] = b[n]
  <2>1. 1 \in 1 .. n - (n - 1)
    BY ONLY <1>1
  <2>2. p[1] = b[(n - 1) + 1]
    BY ONLY <1>2, <2>1, Zenon
  <2> QED
    BY ONLY <1>1, <1>2, <2>2, Zenon
<1>5. p = q
  BY <1>2, <1>3, <1>4, SameCells
<1> QED
  BY <1>1, <1>5 DEF p, q

\* Two cells of a sequence.
LEMMA Pair ==
  ASSUME NEW b \in Seq(Nat), NEW n \in Nat, n + 2 <= Len(b)
  PROVE  SubSeq(b, n + 1, n + 2) = <<b[n + 1], b[n + 2]>>
<1>1. b[n + 1] \in Nat /\ b[n + 2] \in Nat
  OBVIOUS
<1>3. /\ SubSeq(b, n + 1, n + 2) \in Seq(Nat) /\ Len(SubSeq(b, n + 1, n + 2)) = 2
      /\ \A j \in 1 .. 2 : SubSeq(b, n + 1, n + 2)[j] = b[n + j]
  <2>1. n + 2 \in Nat /\ n <= n + 2 /\ (n + 2) - n = 2
    OBVIOUS
  <2> QED
    BY <2>1, Part
<1>4. SubSeq(b, n + 1, n + 2)[1] = b[n + 1] /\ SubSeq(b, n + 1, n + 2)[2] = b[n + 2]
  BY <1>3
<1> DEFINE p == SubSeq(b, n + 1, n + 2)
           q == <<b[n + 1], b[n + 2]>>
<1>5. q \in Seq(Nat) /\ Len(q) = 2 /\ q[1] = b[n + 1] /\ q[2] = b[n + 2]
  BY <1>1
<1>6. p \in Seq(Nat) /\ Len(p) = 2 /\ p[1] = b[n + 1] /\ p[2] = b[n + 2]
  BY <1>3, <1>4
<1> HIDE DEF p, q
<1>7. p = q
  <2>1. \A j \in 1 .. Len(p) : j = 1 \/ j = 2
    BY <1>6
  <2> QED
    BY <1>5, <1>6, <2>1, SameCells, Zenon
<1> QED
  BY <1>7 DEF p, q

LEMMA Tags == Tag = <<1, 0>> /\ Zeros(2) = <<0, 0>> /\ <<0, 0>> \o <<0, 0>> = Zeros(4)
<1>1. Zeros(2) = <<0, 0>>
  <2>1. 1 .. 2 = {1, 2}
    OBVIOUS
  <2> QED
    BY <2>1 DEF Zeros
<1>2. Tag = <<1, 0>>
  BY <1>1 DEF Tag, TagSize
<1>3. <<0, 0>> \o <<0, 0>> = Zeros(4)
  <2> DEFINE p == <<0, 0>>
             z == Zeros(4)
  <2>1. p \in Seq(Nat) /\ Len(p) = 2 /\ p[1] = 0 /\ p[2] = 0
    OBVIOUS
  <2>2. z \in Seq(Nat) /\ Len(z) = 4 /\ \A j \in 1 .. 4 : z[j] = 0
    BY DEF Zeros
  <2> HIDE DEF p, z
  <2>3. /\ p \o p \in Seq(Nat) /\ Len(p \o p) = Len(p) + Len(p)
        /\ \A j \in 1 .. Len(p) + Len(p) : (p \o p)[j] = IF j <= Len(p) THEN p[j] ELSE p[j - Len(p)]
    BY <2>1, Joined, Zenon
  <2>4. \A j \in 1 .. 4 : (p \o p)[j] = z[j]
    BY <2>1, <2>2, <2>3
  <2> HIDE DEF p
  <2>5. p \o p = z
    BY <2>1, <2>2, <2>3, <2>4, SameCells
  <2> QED
    BY <2>5 DEF p, z
<1> QED
  BY <1>1, <1>2, <1>3

\* An integer of digits is written as it was.
LEMMA Digits ==
  ASSUME NEW x \in 0 .. 2, NEW y \in 0 .. 2
  PROVE  writeUint64(x + 3 * y) = <<x, y>>
BY DEF writeUint64, Base

\* The cells of an optional field, in an account and in the one that is cleared.
FieldCleared(b, c, at) ==
  /\ SubSeq(b, at + 1, at + 2) \in {Tag, Zeros(2)}
  /\ c[at + 1] = b[at + 1] /\ c[at + 2] = b[at + 2]
  /\ c[at + 3] = IF b[at + 1] = 0 THEN 0 ELSE b[at + 3]
  /\ c[at + 4] = IF b[at + 1] = 0 THEN 0 ELSE b[at + 4]

\* An optional field is written as it was, with zeros if it is not there.
LEMMA OptionalWritten ==
  ASSUME NEW b \in Seq(Nat), NEW c \in Seq(Nat), NEW at \in Nat,
         at + 4 <= Len(b), Len(c) = Len(b), FieldCleared(b, c, at)
  PROVE  /\ writeOptionalKey(loadOptionalKey(b, at)) = SubSeq(c, at + 1, at + 4)
         /\ b[at + 3] \in 0 .. 2 /\ b[at + 4] \in 0 .. 2 =>
              writeOptionalUint64(loadOptionalUint64(b, at)) = SubSeq(c, at + 1, at + 4)
<1>1. /\ SubSeq(b, at + 1, at + 2) = <<b[at + 1], b[at + 2]>>
      /\ SubSeq(b, at + 3, at + 4) = <<b[at + 3], b[at + 4]>>
      /\ SubSeq(c, at + 1, at + 2) = <<c[at + 1], c[at + 2]>>
      /\ SubSeq(c, at + 3, at + 4) = <<c[at + 3], c[at + 4]>>
  <2>1. /\ at + 2 \in Nat /\ (at + 2) + 1 = at + 3 /\ (at + 2) + 2 = at + 4
        /\ at + 2 <= Len(b) /\ at + 2 <= Len(c)
    OBVIOUS
  <2> QED
    BY <2>1, Pair, Zenon
<1>2. SubSeq(c, at + 1, at + 4) = <<c[at + 1], c[at + 2]>> \o <<c[at + 3], c[at + 4]>>
  <2>1. /\ at + 2 \in Nat /\ at + 4 \in Nat /\ at <= at + 2 /\ at + 2 <= at + 4
        /\ at + 4 <= Len(c) /\ (at + 2) + 1 = at + 3
    OBVIOUS
  <2>2. SubSeq(c, at + 1, at + 2) \o SubSeq(c, (at + 2) + 1, at + 4) = SubSeq(c, at + 1, at + 4)
    BY <2>1, Adjacent
  <2> QED
    BY <1>1, <2>1, <2>2, Zenon
<1>3. \/ b[at + 1] = 1 /\ b[at + 2] = 0
      \/ b[at + 1] = 0 /\ b[at + 2] = 0
  <2>1. <<b[at + 1], b[at + 2]>> \in {<<1, 0>>, <<0, 0>>}
    BY <1>1, Tags, Zenon DEF FieldCleared
  <2>2. \A x, y, u, v : <<x, y>> = <<u, v>> => x = u /\ y = v
    OBVIOUS
  <2> QED
    BY <2>1, <2>2
<1>4. loadKey(b, at + 2) = <<b[at + 3], b[at + 4]>>
  <2>1. (at + 2) + 1 = at + 3 /\ (at + 2) + 2 = at + 4
    OBVIOUS
  <2> QED
    BY <1>1, <2>1 DEF loadKey, KeySize
<1>5. loadUint64(b, at + 2) = b[at + 3] + 3 * b[at + 4]
  <2>1. (at + 2) + 1 = at + 3 /\ (at + 2) + 2 = at + 4
    OBVIOUS
  <2> QED
    BY <2>1 DEF loadUint64, Base
<1>6. CASE b[at + 1] = 1 /\ b[at + 2] = 0
  <2>1. c[at + 1] = 1 /\ c[at + 2] = 0 /\ c[at + 3] = b[at + 3] /\ c[at + 4] = b[at + 4]
    BY <1>6 DEF FieldCleared
  <2>2. SubSeq(c, at + 1, at + 4) = Tag \o <<b[at + 3], b[at + 4]>>
    BY <1>2, <2>1, Tags, Zenon
  <2>3. loadOptionalKey(b, at) = <<b[at + 3], b[at + 4]>>
    BY <1>4, <1>6 DEF loadOptionalKey, TagSize
  <2>4. loadOptionalUint64(b, at) = <<b[at + 3] + 3 * b[at + 4]>>
    BY <1>5, <1>6 DEF loadOptionalUint64, TagSize
  <2>5. \A x, y : Len(<<x, y>>) > 0 /\ <<x>> # <<>> /\ <<x>>[1] = x
    OBVIOUS
  <2>6. writeOptionalKey(loadOptionalKey(b, at)) = SubSeq(c, at + 1, at + 4)
    BY <2>2, <2>3, <2>5, Zenon DEF writeOptionalKey
  <2>7. ASSUME b[at + 3] \in 0 .. 2, b[at + 4] \in 0 .. 2
        PROVE  writeOptionalUint64(loadOptionalUint64(b, at)) = SubSeq(c, at + 1, at + 4)
    <3>1. writeUint64(b[at + 3] + 3 * b[at + 4]) = <<b[at + 3], b[at + 4]>>
      BY <2>7, Digits, Zenon
    <3>2. \A x : writeOptionalUint64(<<x>>) = Tag \o writeUint64(x)
      BY <2>5, Zenon DEF writeOptionalUint64
    <3> QED
      BY <2>2, <2>4, <3>1, <3>2, Zenon
  <2> QED
    BY <2>6, <2>7
<1>7. CASE b[at + 1] = 0 /\ b[at + 2] = 0
  <2>1. c[at + 1] = 0 /\ c[at + 2] = 0 /\ c[at + 3] = 0 /\ c[at + 4] = 0
    BY <1>7 DEF FieldCleared
  <2>2. SubSeq(c, at + 1, at + 4) = Zeros(4)
    BY <1>2, <2>1, Tags, Zenon
  <2>4. loadOptionalKey(b, at) = <<>> /\ loadOptionalUint64(b, at) = <<>>
    BY <1>7 DEF loadOptionalKey, loadOptionalUint64
  <2>5. writeOptionalKey(<<>>) = Zeros(4) /\ writeOptionalUint64(<<>>) = Zeros(4)
    BY DEF writeOptionalKey, writeOptionalUint64, TagSize, KeySize, Uint64Size
  <2> QED
    BY <2>2, <2>4, <2>5, Zenon
<1> QED
  BY <1>3, <1>6, <1>7

\* What Cleared does to the cells.
LEMMA ClearedCells ==
  ASSUME NEW b \in Seq(Nat), Len(b) = 21
  PROVE  /\ Cleared(b) \in Seq(Nat) /\ Len(Cleared(b)) = 21
         /\ \A j \in {1, 2, 3, 4, 5, 6, 7, 8, 11, 12, 13, 16, 17, 18, 19} : Cleared(b)[j] = b[j]
         /\ \A j \in {9, 10} : Cleared(b)[j] = IF b[7] = 0 THEN 0 ELSE b[j]
         /\ \A j \in {14, 15} : Cleared(b)[j] = IF b[12] = 0 THEN 0 ELSE b[j]
         /\ \A j \in {20, 21} : Cleared(b)[j] = IF b[18] = 0 THEN 0 ELSE b[j]
<1>1. \A j \in 1 .. 21 : b[j] \in Nat
  BY Element, Zenon
<1>2. Unused(b) = (IF b[7] = 0 THEN 9 .. 10 ELSE {}) \cup (IF b[12] = 0 THEN 14 .. 15 ELSE {})
                  \cup (IF b[18] = 0 THEN 20 .. 21 ELSE {})
  <2>1. /\ Body(b, 6, 2) = IF b[7] = 0 THEN 9 .. 10 ELSE {}
        /\ Body(b, 11, 2) = IF b[12] = 0 THEN 14 .. 15 ELSE {}
        /\ Body(b, 17, 2) = IF b[18] = 0 THEN 20 .. 21 ELSE {}
    BY DEF Body, TagSize
  <2> QED
    BY <2>1, Layout DEF Unused
<1> DEFINE u == Unused(b)
           c == [j \in 1 .. 21 |-> IF j \in u THEN 0 ELSE b[j]]
<1>3. Cleared(b) = c
  BY Layout DEF Cleared
<1> HIDE DEF u
<1>4. c \in Seq(Nat) /\ Len(c) = 21
  BY <1>1
<1>5. \A j \in 1 .. 21 : c[j] = IF j \in u THEN 0 ELSE b[j]
  BY Zenon
<1> HIDE DEF c
<1>6. /\ \A j \in {1, 2, 3, 4, 5, 6, 7, 8, 11, 12, 13, 16, 17, 18, 19} : j \in 1 .. 21 /\ j \notin u
      /\ \A j \in {9, 10} : j \in 1 .. 21 /\ (j \in u <=> b[7] = 0)
      /\ \A j \in {14, 15} : j \in 1 .. 21 /\ (j \in u <=> b[12] = 0)
      /\ \A j \in {20, 21} : j \in 1 .. 21 /\ (j \in u <=> b[18] = 0)
  BY <1>2 DEF u
<1> QED
  BY <1>3, <1>4, <1>5, <1>6

\* The fields of an account that are not optional, as cells.
LEMMA PlainFields ==
  ASSUME NEW b \in Seq(Nat), Len(b) = 21
  PROVE  /\ SubSeq(b, 1, 2) = <<b[1], b[2]>> /\ SubSeq(b, 3, 4) = <<b[3], b[4]>>
         /\ SubSeq(b, 5, 6) = <<b[5], b[6]>> /\ SubSeq(b, 16, 17) = <<b[16], b[17]>>
         /\ SubSeq(b, 11, 11) = <<b[11]>>
<1>1. SubSeq(b, 1, 2) = <<b[1], b[2]>>
  <2>1. 0 \in Nat /\ 0 + 1 = 1 /\ 0 + 2 = 2 /\ 0 + 2 <= Len(b)
    OBVIOUS
  <2>2. SubSeq(b, 0 + 1, 0 + 2) = <<b[0 + 1], b[0 + 2]>>
    BY <2>1, Pair, Zenon
  <2> QED
    BY <2>1, <2>2
<1>2. SubSeq(b, 3, 4) = <<b[3], b[4]>>
  <2>1. 2 \in Nat /\ 2 + 1 = 3 /\ 2 + 2 = 4 /\ 2 + 2 <= Len(b)
    OBVIOUS
  <2>2. SubSeq(b, 2 + 1, 2 + 2) = <<b[2 + 1], b[2 + 2]>>
    BY <2>1, Pair, Zenon
  <2> QED
    BY <2>1, <2>2
<1>3. SubSeq(b, 5, 6) = <<b[5], b[6]>>
  <2>1. 4 \in Nat /\ 4 + 1 = 5 /\ 4 + 2 = 6 /\ 4 + 2 <= Len(b)
    OBVIOUS
  <2>2. SubSeq(b, 4 + 1, 4 + 2) = <<b[4 + 1], b[4 + 2]>>
    BY <2>1, Pair, Zenon
  <2> QED
    BY <2>1, <2>2
<1>4. SubSeq(b, 16, 17) = <<b[16], b[17]>>
  <2>1. 15 \in Nat /\ 15 + 1 = 16 /\ 15 + 2 = 17 /\ 15 + 2 <= Len(b)
    OBVIOUS
  <2>2. SubSeq(b, 15 + 1, 15 + 2) = <<b[15 + 1], b[15 + 2]>>
    BY <2>1, Pair, Zenon
  <2> QED
    BY <2>1, <2>2
<1>5. SubSeq(b, 11, 11) = <<b[11]>>
  BY Cell, 11 \in 1 .. Len(b), Zenon
<1> QED
  BY <1>1, <1>2, <1>3, <1>4, <1>5

\* A token account that is read and written again is as it was.
LEMMA AccountWritten ==
  ASSUME NEW b \in Seq(Nat), Kept(b), NEW x \in Unmarshal(b)
  PROVE  Marshal(x) = Cleared(b)
<1> DEFINE c == Cleared(b)
<1>1. Len(b) = 21
  BY Layout DEF Unmarshal
<1>2. c \in Seq(Nat) /\ Len(c) = 21
  BY <1>1, ClearedCells
<1>3. /\ c[1] = b[1] /\ c[2] = b[2] /\ c[3] = b[3] /\ c[4] = b[4] /\ c[5] = b[5] /\ c[6] = b[6]
      /\ c[7] = b[7] /\ c[8] = b[8] /\ c[11] = b[11] /\ c[12] = b[12] /\ c[13] = b[13]
      /\ c[16] = b[16] /\ c[17] = b[17] /\ c[18] = b[18] /\ c[19] = b[19]
  BY <1>1, ClearedCells, Zenon
<1>4. /\ c[9] = (IF b[7] = 0 THEN 0 ELSE b[9]) /\ c[10] = (IF b[7] = 0 THEN 0 ELSE b[10])
      /\ c[14] = (IF b[12] = 0 THEN 0 ELSE b[14]) /\ c[15] = (IF b[12] = 0 THEN 0 ELSE b[15])
      /\ c[20] = (IF b[18] = 0 THEN 0 ELSE b[20]) /\ c[21] = (IF b[18] = 0 THEN 0 ELSE b[21])
  BY <1>1, ClearedCells, Zenon
<1> HIDE DEF c
<1>5. /\ \A n \in {5, 6, 14, 15, 16, 17} : b[n] \in 0 .. 2
      /\ SubSeq(b, 7, 8) \in {Tag, Zeros(2)} /\ SubSeq(b, 12, 13) \in {Tag, Zeros(2)}
      /\ SubSeq(b, 18, 19) \in {Tag, Zeros(2)}
  BY Layout DEF Kept
<1>0. x = [mint |-> loadKey(b, 0), owner |-> loadKey(b, KeySize), amount |-> loadUint64(b, AmountAt),
           delegate |-> loadOptionalKey(b, DelegateAt), state |-> b[StateAt + 1],
           isNative |-> loadOptionalUint64(b, NativeAt),
           delegatedAmount |-> loadUint64(b, DelegatedAt),
           closeAuthority |-> loadOptionalKey(b, CloseAt)]
  BY Zenon DEF Unmarshal
<1>6. /\ x.mint = loadKey(b, 0) /\ x.owner = loadKey(b, 2) /\ x.amount = loadUint64(b, 4)
      /\ x.delegate = loadOptionalKey(b, 6) /\ x.state = b[11]
      /\ x.isNative = loadOptionalUint64(b, 11) /\ x.delegatedAmount = loadUint64(b, 15)
      /\ x.closeAuthority = loadOptionalKey(b, 17)
  BY <1>0, Layout
<1>7. writeKey(x.mint) = SubSeq(c, 1, 2) /\ writeKey(x.owner) = SubSeq(c, 3, 4)
  <2>1. SubSeq(b, 1, 2) = <<b[1], b[2]>> /\ SubSeq(c, 1, 2) = <<c[1], c[2]>>
    BY <1>1, <1>2, PlainFields
  <2>2. SubSeq(b, 3, 4) = <<b[3], b[4]>> /\ SubSeq(c, 3, 4) = <<c[3], c[4]>>
    BY <1>1, <1>2, PlainFields
  <2>3. loadKey(b, 0) = SubSeq(b, 1, 2) /\ loadKey(b, 2) = SubSeq(b, 3, 4)
    BY Layout DEF loadKey
  <2>4. loadKey(b, 0) = SubSeq(c, 1, 2) /\ loadKey(b, 2) = SubSeq(c, 3, 4)
    BY <1>3, <2>1, <2>2, <2>3
  <2>5. writeKey(<<b[1], b[2]>>) = <<b[1], b[2]>> /\ writeKey(<<b[3], b[4]>>) = <<b[3], b[4]>>
    BY DEF writeKey
  <2> QED
    BY <1>6, <2>1, <2>2, <2>3, <2>4, <2>5, Zenon
<1>8. writeUint64(x.amount) = SubSeq(c, 5, 6) /\ writeUint64(x.delegatedAmount) = SubSeq(c, 16, 17)
  <2>1. SubSeq(c, 5, 6) = <<c[5], c[6]>>
    BY <1>2, PlainFields
  <2>2. SubSeq(c, 16, 17) = <<c[16], c[17]>>
    BY <1>2, PlainFields
  <2>3. loadUint64(b, 4) = b[5] + 3 * b[6] /\ loadUint64(b, 15) = b[16] + 3 * b[17]
    BY Layout DEF loadUint64
  <2>4. writeUint64(b[5] + 3 * b[6]) = <<b[5], b[6]>> /\ writeUint64(b[16] + 3 * b[17]) = <<b[16], b[17]>>
    BY <1>5, Digits, Zenon
  <2> QED
    BY <1>3, <1>6, <2>1, <2>2, <2>3, <2>4, Zenon
<1>9. writeOptionalKey(x.delegate) = SubSeq(c, 7, 10)
  <2>1. 6 \in Nat /\ 6 + 4 <= Len(b) /\ Len(c) = Len(b) /\ 6 + 1 = 7 /\ 6 + 4 = 10
    BY <1>1, <1>2
  <2>2. FieldCleared(b, c, 6)
    BY <1>3, <1>4, <1>5 DEF FieldCleared
  <2>4. writeOptionalKey(loadOptionalKey(b, 6)) = SubSeq(c, 6 + 1, 6 + 4)
    BY <1>2, <2>1, <2>2, OptionalWritten, Zenon
  <2> QED
    BY <1>6, <2>1, <2>4
<1>10. writeOptionalUint64(x.isNative) = SubSeq(c, 12, 15)
  <2>1. 11 \in Nat /\ 11 + 4 <= Len(b) /\ Len(c) = Len(b) /\ 11 + 1 = 12 /\ 11 + 4 = 15
    BY <1>1, <1>2
  <2>2. FieldCleared(b, c, 11)
    BY <1>3, <1>4, <1>5 DEF FieldCleared
  <2>3. b[11 + 3] \in 0 .. 2 /\ b[11 + 4] \in 0 .. 2
    BY <1>5
  <2>4. writeOptionalUint64(loadOptionalUint64(b, 11)) = SubSeq(c, 11 + 1, 11 + 4)
    BY <1>2, <2>1, <2>2, <2>3, OptionalWritten, Zenon
  <2> QED
    BY <1>6, <2>1, <2>4
<1>11. writeOptionalKey(x.closeAuthority) = SubSeq(c, 18, 21)
  <2>1. 17 \in Nat /\ 17 + 4 <= Len(b) /\ Len(c) = Len(b) /\ 17 + 1 = 18 /\ 17 + 4 = 21
    BY <1>1, <1>2
  <2>2. FieldCleared(b, c, 17)
    BY <1>3, <1>4, <1>5 DEF FieldCleared
  <2>4. writeOptionalKey(loadOptionalKey(b, 17)) = SubSeq(c, 17 + 1, 17 + 4)
    BY <1>2, <2>1, <2>2, OptionalWritten, Zenon
  <2> QED
    BY <1>6, <2>1, <2>4
<1>12. <<x.state>> = SubSeq(c, 11, 11)
  <2>1. SubSeq(c, 11, 11) = <<c[11]>>
    BY <1>2, PlainFields
  <2> QED
    BY <1>3, <1>6, <2>1
<1>13. ASSUME NEW m \in 1 .. 20, NEW n \in 1 .. 21, m <= n
       PROVE  SubSeq(c, 1, m) \o SubSeq(c, m + 1, n) = SubSeq(c, 1, n)
  <2>1. 0 \in Nat /\ 0 + 1 = 1 /\ 0 <= m /\ n <= Len(c)
    BY <1>2
  <2> QED
    BY <1>2, <1>13, <2>1, Adjacent
<1>14. Marshal(x) = SubSeq(c, 1, 2) \o SubSeq(c, 3, 4) \o SubSeq(c, 5, 6) \o SubSeq(c, 7, 10)
                    \o SubSeq(c, 11, 11) \o SubSeq(c, 12, 15) \o SubSeq(c, 16, 17) \o SubSeq(c, 18, 21)
  BY <1>7, <1>8, <1>9, <1>10, <1>11, <1>12 DEF Marshal
<1>15. /\ SubSeq(c, 1, 2) \o SubSeq(c, 3, 4) = SubSeq(c, 1, 4)
       /\ SubSeq(c, 1, 4) \o SubSeq(c, 5, 6) = SubSeq(c, 1, 6)
       /\ SubSeq(c, 1, 6) \o SubSeq(c, 7, 10) = SubSeq(c, 1, 10)
       /\ SubSeq(c, 1, 10) \o SubSeq(c, 11, 11) = SubSeq(c, 1, 11)
       /\ SubSeq(c, 1, 11) \o SubSeq(c, 12, 15) = SubSeq(c, 1, 15)
       /\ SubSeq(c, 1, 15) \o SubSeq(c, 16, 17) = SubSeq(c, 1, 17)
       /\ SubSeq(c, 1, 17) \o SubSeq(c, 18, 21) = SubSeq(c, 1, 21)
  <2>1. SubSeq(c, 1, 2) \o SubSeq(c, 3, 4) = SubSeq(c, 1, 4)
    BY <1>13, 2 \in 1 .. 20, 4 \in 1 .. 21, 2 <= 4, 3 = 2 + 1, Zenon
  <2>2. SubSeq(c, 1, 4) \o SubSeq(c, 5, 6) = SubSeq(c, 1, 6)
    BY <1>13, 4 \in 1 .. 20, 6 \in 1 .. 21, 4 <= 6, 5 = 4 + 1, Zenon
  <2>3. SubSeq(c, 1, 6) \o SubSeq(c, 7, 10) = SubSeq(c, 1, 10)
    BY <1>13, 6 \in 1 .. 20, 10 \in 1 .. 21, 6 <= 10, 7 = 6 + 1, Zenon
  <2>4. SubSeq(c, 1, 10) \o SubSeq(c, 11, 11) = SubSeq(c, 1, 11)
    BY <1>13, 10 \in 1 .. 20, 11 \in 1 .. 21, 10 <= 11, 11 = 10 + 1, Zenon
  <2>5. SubSeq(c, 1, 11) \o SubSeq(c, 12, 15) = SubSeq(c, 1, 15)
    BY <1>13, 11 \in 1 .. 20, 15 \in 1 .. 21, 11 <= 15, 12 = 11 + 1, Zenon
  <2>6. SubSeq(c, 1, 15) \o SubSeq(c, 16, 17) = SubSeq(c, 1, 17)
    BY <1>13, 15 \in 1 .. 20, 17 \in 1 .. 21, 15 <= 17, 16 = 15 + 1, Zenon
  <2>7. SubSeq(c, 1, 17) \o SubSeq(c, 18, 21) = SubSeq(c, 1, 21)
    BY <1>13, 17 \in 1 .. 20, 21 \in 1 .. 21, 17 <= 21, 18 = 17 + 1, Zenon
  <2> QED
    BY <2>1, <2>2, <2>3, <2>4, <2>5, <2>6, <2>7
<1>16. SubSeq(c, 1, 21) = c
  BY <1>2
<1>17. Marshal(x) = c
  BY <1>14, <1>15, <1>16, Zenon
<1> QED
  BY <1>17 DEF c

\* What is read of the cells.
LEMMA UnmarshalTells ==
  ASSUME NEW b, NEW x \in Unmarshal(b)
  PROVE  Len(b) = AccountSize /\ x.mint = loadKey(b, 0) /\ x.state = b[StateAt + 1]
BY DEF Unmarshal

\* GetAccount returns an account of the token program, initialised and of the
\* client's mint, and finds none only if there is none.
LEMMA AccountTells ==
  ASSUME NEW a \in Answers["GetAccount"], NEW r, r = GetAccount(GetAccountInfo(a), ProgramKey, Token)
  PROVE  /\ r.err = "nil" =>
              /\ a.owner.bytes = ProgramKey
              /\ \A x \in r.value : Marshal(x) = Cleared(a.data.bytes) /\ x.mint = Token /\ x.state # 0
              /\ r.value # {}
         /\ r.err = "account not found" => a = Missing
<1> DEFINE info == GetAccountInfo(a)
           found == {x \in Unmarshal(info.value.data) : x.mint = Token}
<1>1. /\ \A e, v : [err |-> e, value |-> v].err = e /\ [err |-> e, value |-> v].value = v
      /\ "no account info" # "nil" /\ "decode" # "nil" /\ "decode" # "no account info"
      /\ "account not found" # "nil" /\ "invalid token account" # "nil"
      /\ "decode" # "account not found" /\ "invalid token account" # "account not found"
      /\ "panic" # "nil" /\ "panic" # "no account info" /\ "panic" # "account not found"
  OBVIOUS
<1>2. CASE a = Missing
  <2>1. info.err = "no account info"
    BY <1>2, OkOrFailed, Zenon DEF GetAccountInfo
  <2>2. r.err = "account not found"
    BY <1>1, <2>1, Zenon DEF GetAccount
  <2> QED
    BY <1>1, <1>2, <2>2, Zenon
<1>3. CASE a # Missing /\ (~a.owner.ok \/ a.data = Missing \/ ~a.data.ok)
  <2>1. info = Failed("decode") \/ info = Failed("panic")
    BY <1>3, Zenon DEF GetAccountInfo
  <2>2. info.err = "decode" \/ info.err = "panic"
    BY <2>1, OkOrFailed
  <2>3. r.err = "decode" \/ r.err = "panic"
    BY <1>1, <2>2, Zenon DEF GetAccount
  <2> QED
    BY <1>1, <2>3, Zenon
<1>4. CASE a # Missing /\ a.owner.ok /\ a.data # Missing /\ a.data.ok
  <2>1. info = Ok([owner |-> a.owner.bytes, data |-> a.data.bytes])
    BY <1>4, Zenon DEF GetAccountInfo
  <2>2. info.err = "nil" /\ info.value.owner = a.owner.bytes /\ info.value.data = a.data.bytes
    <3> HIDE DEF info
    <3>1. info.err = "nil" /\ info.value = [owner |-> a.owner.bytes, data |-> a.data.bytes]
      BY <2>1, OkOrFailed
    <3> QED
      BY <3>1
  <2>3. CASE a.owner.bytes # ProgramKey
    <3>1. r.err = "invalid token account"
      BY <1>1, <2>2, <2>3, Zenon DEF GetAccount
    <3> QED
      BY <1>1, <3>1, Zenon
  <2>4. CASE a.owner.bytes = ProgramKey
    <3>1. r = [err |-> IF found # {} THEN "nil" ELSE "invalid token account", value |-> found]
      BY <1>1, <2>2, <2>4, Zenon DEF GetAccount
    <3>2. r.value = found /\ r.err # "account not found" /\ (r.err = "nil" => found # {})
      <4> HIDE DEF found
      <4> QED
        BY <1>1, <3>1, Zenon
    <3>3. ASSUME NEW x \in found
          PROVE  Marshal(x) = Cleared(a.data.bytes) /\ x.mint = Token /\ x.state # 0
      <4> DEFINE b == a.data.bytes
      <4>1. x \in Unmarshal(b) /\ x.mint = Token
        BY <2>2
      <4>2. Len(b) = AccountSize /\ x.mint = loadKey(b, 0) /\ x.state = b[StateAt + 1]
        BY <4>1, UnmarshalTells
      <4>3. b \in Seq(Nat) /\ Kept(b)
        BY <1>4, <2>4, <4>2, TokenAssumption DEF Text
      <4>4. b[StateAt + 1] # 0
        BY <4>1, <4>2, <4>3, TokenAssumption DEF Kept
      <4> QED
        BY <4>1, <4>2, <4>3, <4>4, AccountWritten
    <3> QED
      BY <2>4, <3>2, <3>3, Zenon
  <2> QED
    BY <2>3, <2>4, Zenon
<1> QED
  BY <1>2, <1>3, <1>4, Zenon

\* Whatever accounts a node answers with, GetAccount returns one only if it is an
\* initialised account of the token program and of the client's mint, with every
\* field as the chain has it.
THEOREM AccountsAreChecked == ClientSpec => []TokenAccountChecked
<1>1. QueryInv => TokenAccountChecked
  <2> SUFFICES ASSUME QueryInv, NEW a \in asked, pc = "done", op = "GetAccount"
               PROVE  /\ err = "nil" =>
                           /\ a.owner.bytes = ProgramKey
                           /\ \A x \in value : Marshal(x) = Cleared(a.data.bytes) /\ x.mint = Token /\ x.state # 0
                           /\ value # {}
                      /\ err = "account not found" => a = Missing
    BY Zenon DEF TokenAccountChecked, Answered
  <2> DEFINE r == GetAccount(GetAccountInfo(a), ProgramKey, Token)
  <2>1. "GetAccount" \in Queries
    BY DEF Queries
  <2>2. a \in Answers["GetAccount"] /\ EndedWith(Decoded("GetAccount", a))
    BY <2>1, AnswerDecoded
  <2>3. err = r.err /\ value = r.value
    BY <2>2, DecodedBy DEF EndedWith
  <2> HIDE DEF r
  <2> QED
    BY <2>2, <2>3, AccountTells, Zenon DEF r
<1> QED
  BY <1>1, QueryInvariant, PTL
=============================================================================
