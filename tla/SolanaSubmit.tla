---------------------------- MODULE SolanaSubmit ----------------------------
(***************************************************************************)
(* SubmitTransaction of solana/client.go and the GetSignatureStatus poll   *)
(* it ends with, both through call and its retrier, against a cluster on   *)
(* which the transaction lands, is confirmed, is forked away or is rooted, *)
(* and RPC nodes that fail, lag behind or lose their answers.              *)
(*                                                                         *)
(* Level 0 is a transaction unknown to the chain, 1 processed, 2 confirmed *)
(* and 3 rooted.                                                           *)
(***************************************************************************)
EXTENDS SolanaErrors

CONSTANTS
  RetryLimit,  \* retry.Limit(3) of the client's retrier
  PollLimit,   \* sigStatusPollLimit
  RawErrors,   \* JSON of the errors a transaction may fail with
  ErrorData    \* data of the RPC errors a node may answer with

ASSUME SubmitAssumption ==
  /\ RetryLimit \in Nat \ {0} /\ PollLimit \in Nat \ {0}
  /\ \A raw \in RawErrors : raw.kind # "null"

Commitments == {"recent", "single", "max"}   \* root is handled as max
Levels      == 0 .. 3
NoStatus    == <<>>                          \* a nil *SignatureStatus
Nil         == <<>>                          \* a nil *int, <<n>> points to n

\* What a SignatureStatus says of the chain; it also has an errorResult.
Progress == [confirmations : {Nil, <<0>>, <<1>>},
             confirmationStatus : {"", "processed", "confirmed", "finalized"}]
Status(p, e) == [confirmations |-> p.confirmations, confirmationStatus |-> p.confirmationStatus,
                 errorResult |-> e]

VARIABLES
  commitment,
  level,     \* the cluster: how far the transaction is on the chain
  sent,      \* the cluster: the transaction has been received
  outcome,   \* the cluster: the error it fails with when executed, or Null
  best,      \* history: the highest level so far
  pc,        \* "send", "poll" or "done"; a query is at "query" or "search"
  tries,     \* attempts of the current call, including this one
  polls,     \* attempts of GetSignatureStatus, including this one
  s,         \* the variable s of GetSignatureStatus
  err,       \* the error returned, "nil", or "panic"
  rejected   \* history: the node refused the transaction

vars == <<commitment, level, sent, outcome, best, pc, tries, polls, s, err, rejected>>
cluster == <<commitment, level, sent, outcome, best>>

TypeOK ==
  /\ commitment \in Commitments
  /\ level \in Levels /\ best \in Levels
  /\ sent \in BOOLEAN /\ outcome \in RawErrors \cup {Null}
  /\ pc \in {"send", "poll", "query", "search", "done"}
  /\ tries \in 1 .. RetryLimit
  /\ polls \in 1 .. PollLimit
  /\ s = NoStatus \/ \E p \in Progress, e \in {ParseTransactionError(raw).result : raw \in RawErrors}
                          \cup {ParseRPCError(data).result : data \in ErrorData} \cup {Nil} :
                     s = Status(p, e)
  /\ err \in STRING
  /\ rejected \in BOOLEAN

\* A call of the client before its first request.
Begin(start) ==
  /\ level = 0 /\ best = 0
  /\ sent = FALSE
  /\ pc = start
  /\ tries = 1
  /\ polls = 1
  /\ s = NoStatus
  /\ err = "nil"
  /\ rejected = FALSE

Init ==
  /\ commitment \in Commitments
  /\ outcome \in RawErrors \cup {Null}
  /\ Begin("send")

-----------------------------------------------------------------------------
\* External: a transaction that was received lands and advances; until it is
\* rooted a fork may drop it.
Advance ==
  /\ sent /\ level < 3
  /\ level' = level + 1
  /\ best' = IF level' > best THEN level' ELSE best
  /\ UNCHANGED <<commitment, sent, outcome, pc, tries, polls, s, err, rejected>>

Fork ==
  /\ level \in {1, 2}
  /\ level' = 0
  /\ UNCHANGED <<commitment, sent, outcome, best, pc, tries, polls, s, err, rejected>>

\* External: what a node at level n says; an old node has no status field.
ProgressAt(n) ==
  {p \in Progress :
     /\ p.confirmations = Nil <=> n = 3
     /\ p.confirmations = <<1>> => n >= 2
     /\ p.confirmationStatus \in
          {"", IF n = 1 THEN "processed" ELSE IF n = 2 THEN "confirmed" ELSE "finalized"}}

Finalized(st) == st.confirmations = Nil \/ st.confirmationStatus = "finalized"

\* Variant: the count of confirmations is off by one.
ConfirmedFromZero(st) ==
  \/ Finalized(st)
  \/ st.confirmationStatus = "confirmed"
  \/ st.confirmations[1] >= 0

Confirmed(st) ==
  \/ Finalized(st)
  \/ st.confirmationStatus = "confirmed"
  \/ st.confirmations[1] >= 1

-----------------------------------------------------------------------------
(***************************************************************************)
(* call.  A rate limit, a server error or an unhealthy node is tried again *)
(* until the limit; any other error ends the call.                         *)
(***************************************************************************)
Return(status, e) ==
  /\ pc' = "done"
  /\ s' = status
  /\ err' = e
  /\ UNCHANGED <<tries, polls>>

Retriable(giveUp) ==
  IF tries < RetryLimit
  THEN tries' = tries + 1 /\ UNCHANGED <<pc, polls, s, err>>
  ELSE giveUp

\* sendTransaction fails retriably or with a network error.  The transaction
\* may have reached the cluster all the same.
SendFails ==
  /\ pc = "send"
  /\ sent' \in {sent, TRUE}
  /\ Retriable(Return(NoStatus, "request")) \/ Return(NoStatus, "request")
  /\ UNCHANGED <<commitment, level, outcome, best, rejected>>

\* The node answers with an RPC error.  If its data has no "err", ParseRPCError
\* returns neither an error result nor a parse error.
SendRejected ==
  /\ pc = "send"
  /\ rejected' = TRUE
  /\ \E data \in ErrorData :
       LET parsed == ParseRPCError(data)
       IN  IF parsed.err THEN Return(NoStatus, "rpc")
           ELSE Return([confirmations |-> Nil, confirmationStatus |-> "",
                        errorResult |-> parsed.result], "nil")
  /\ UNCHANGED cluster

SendAccepted ==
  /\ pc = "send"
  /\ sent' = TRUE
  /\ pc' = "poll"
  /\ tries' = 1
  /\ UNCHANGED <<commitment, level, outcome, best, polls, s, err, rejected>>

-----------------------------------------------------------------------------
(***************************************************************************)
(* GetSignatureStatus.                                                     *)
(***************************************************************************)

\* The switch over the commitment.
Reached(st) ==
  CASE commitment = "recent" -> TRUE
    [] commitment = "single" -> Confirmed(st)
    [] commitment = "max"    -> Finalized(st)

\* Variant: the counter starts again instead of stopping the poll.
PollAgainForever(status, e) ==
  /\ polls' = IF polls < PollLimit THEN polls + 1 ELSE 1
  /\ tries' = 1
  /\ s' = status
  /\ UNCHANGED <<pc, err>>

\* retry.Retry with a retriable error: poll again, up to the limit.
PollAgain(status, e) ==
  IF polls < PollLimit
  THEN /\ polls' = polls + 1
       /\ tries' = 1
       /\ s' = status
       /\ UNCHANGED <<pc, err>>
  ELSE Return(status, e)

\* getSignatureStatuses fails: s keeps what an earlier poll has found.
PollFails ==
  /\ pc = "poll"
  /\ Retriable(Return(s, "request")) \/ Return(s, "request")
  /\ UNCHANGED <<cluster, rejected>>

\* The node does not know the signature.
PollNotFound ==
  /\ pc = "poll"
  /\ PollAgain(NoStatus, "notFound")
  /\ UNCHANGED <<cluster, rejected>>

\* A node, at the level of the cluster or behind it, knows the signature.
PollFound ==
  /\ pc = "poll"
  /\ \E n \in 1 .. level : \E p \in ProgressAt(n) :
       LET parsed == ParseTransactionError(outcome)
           st == Status(p, parsed.result)
       IN  IF parsed.err THEN Return(s, "parse")
           ELSE IF st.errorResult # Nil \/ Reached(st) THEN Return(st, "nil")
           ELSE PollAgain(st, "notReached")
  /\ UNCHANGED <<cluster, rejected>>

\* A node answers with more statuses than it was asked for: an index is out of
\* range, and GetSignatureStatuses panics.
PollTooMany ==
  /\ pc = "poll"
  /\ Return(s, "panic")
  /\ UNCHANGED <<cluster, rejected>>

Done == pc = "done" /\ UNCHANGED vars

Next ==
  \/ Advance \/ Fork
  \/ SendFails \/ SendRejected \/ SendAccepted
  \/ PollFails \/ PollNotFound \/ PollFound \/ PollTooMany
  \/ Done

Spec == Init /\ [][Next]_vars

SubmitStep == SendFails \/ SendRejected \/ SendAccepted
              \/ PollFails \/ PollNotFound \/ PollFound \/ PollTooMany

-----------------------------------------------------------------------------
Success == pc = "done" /\ err = "nil" /\ s # NoStatus /\ s.errorResult = Nil

\* When the poll succeeds for max commitment the transaction is rooted, and for
\* single it has been confirmed, even if the node that was asked is behind or
\* knows no status field.  No fork makes the answer for max wrong later.  And a
\* status returned together with an error does not meet the commitment: a caller
\* that looks at the status alone is not told of a success.
CommitmentReached ==
  /\ Success /\ ~rejected =>
       /\ commitment = "max" => level = 3
       /\ commitment = "single" => best >= 2
  /\ pc = "done" /\ err # "nil" /\ s # NoStatus => s.errorResult = Nil /\ ~Reached(s)

\* When the poll succeeds the transaction did not fail on the chain, whatever the
\* JSON of its error looks like.
NoFalseSuccess == Success /\ ~rejected => outcome = Null

\* A float64 holds the numbers of an instruction error.
HeldByFloat(e) ==
  FloatOf(e.index) = e.index /\ (e.err.kind = "custom" => FloatOf(e.err.code) = e.err.code)

\* An instruction error that is returned can be made into JSON and read again, if
\* its text needs no escapes: a custom error stays one and a text stays the same,
\* wherever the numbers came from, and nothing is lost that a float64 holds.  An
\* error whose text needs them does not come back as it was.
ErrorsSurviveJSON ==
  s # NoStatus => \A i \in DOMAIN s.errorResult : \A j \in DOMAIN s.errorResult[i].instruction :
    LET e == s.errorResult[i].instruction[j]
        raw == TransactionErrorFromInstructionError(e)
    IN  e.err # NilErr =>
          IF e.err.kind = "text" /\ e.err.text \in DOMAIN Escapes
          THEN raw # <<>> => ParseTransactionError(raw[1]) # Result("InstructionError", <<e>>)
          ELSE /\ raw # <<>>
               /\ ~ParseTransactionError(raw[1]).err
               /\ LET back == ParseTransactionError(raw[1]).result[1].instruction[1]
                  IN  /\ back.err.kind = e.err.kind
                      /\ e.err.kind = "text" => back.err = e.err
                      /\ HeldByFloat(e) => back = e

\* "Confirmations will be nil if the transaction has been rooted", and Finalized
\* relies on it: a status that is finalized and reports no error stands for a
\* transaction on the chain.
FinalizedMeansRooted ==
  Success /\ Finalized(s) => level = 3
=============================================================================
