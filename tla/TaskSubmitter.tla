--------------------------- MODULE TaskSubmitter ---------------------------
(***************************************************************************)
(* SubmitBatch of taskqueue/sqs/queue.go: every message is marshalled      *)
(* before the first is sent, then the entries go to SQS in slices of at    *)
(* most BatchLimit.  A slice may be stored in part and still be answered   *)
(* without an error, and the answer to a slice that was stored may be      *)
(* lost.  A caller that gets an error may call again with the same tasks.  *)
(***************************************************************************)
EXTENDS Naturals, FiniteSets

CONSTANTS
  BatchLimit,  \* sqsBatchLimit
  MaxLen,      \* bound: tasks handed to SubmitBatch
  MaxSubmits     \* bound: calls the caller makes

ASSUME SubmitterAssumption ==
  /\ BatchLimit \in Nat \ {0}
  /\ MaxLen \in Nat
  /\ MaxSubmits \in Nat

VARIABLES
  len,         \* len(msgs)
  bad,         \* the messages marshalTask refuses
  closed,      \* shutdownCh is closed
  submit,      \* "idle", "running" or what SubmitBatch returned
  marshalled,  \* i of the first loop: the entries that are filled
  batchStart,
  offered,     \* how often this call has sent each message to SQS
  stored,      \* how often SQS has stored each message
  submits

submitVars == <<len, bad, closed, submit, marshalled, batchStart, offered, stored, submits>>

Messages == 1 .. len

SubmitTypeOK ==
  /\ len \in 0 .. MaxLen
  /\ bad \subseteq Messages
  /\ closed \in BOOLEAN
  /\ submit \in {"idle", "running", "nil", "err"}
  /\ marshalled \in 0 .. len
  /\ batchStart \in Nat
  /\ offered \in [Messages -> Nat]
  /\ stored \in [Messages -> Nat]
  /\ submits \in 0 .. MaxSubmits

SubmitInit ==
  /\ len \in 0 .. MaxLen
  /\ bad \in SUBSET Messages
  /\ closed = FALSE
  /\ submit = "idle"
  /\ marshalled = 0 /\ batchStart = 0
  /\ offered = [i \in Messages |-> 0]
  /\ stored = [i \in Messages |-> 0]
  /\ submits = 0

\* A call begins with the check of shutdownCh.
SubmitBatch ==
  /\ submit \in {"idle", "err"}
  /\ submits < MaxSubmits
  /\ submits' = submits + 1
  /\ submit' = IF closed THEN "err" ELSE "running"
  /\ marshalled' = 0 /\ batchStart' = 0
  /\ offered' = [i \in Messages |-> 0]
  /\ UNCHANGED <<len, bad, closed, stored>>

\* The first loop: marshalTask fills the next entry or ends the call.
MarshalTask ==
  /\ submit = "running"
  /\ marshalled < len
  /\ IF marshalled + 1 \in bad
     THEN submit' = "err" /\ UNCHANGED marshalled
     ELSE marshalled' = marshalled + 1 /\ UNCHANGED submit
  /\ UNCHANGED <<len, bad, closed, batchStart, offered, stored, submits>>

\* Variant: a slice is sent as soon as its own entries are filled.
SliceMarshalled == marshalled = len \/ marshalled >= batchStart + BatchLimit

\* The second loop begins when the first is over.
Marshalled == marshalled = len

AddOne(f, S) == [i \in Messages |-> IF i \in S THEN f[i] + 1 ELSE f[i]]

\* Variant: the end of the slice is taken as if slices included it.
BatchInclusive ==
  {i \in Messages : batchStart < i /\ i <= batchStart + BatchLimit + 1}

\* entries[batchStart:batchEnd], counted from 1.
Batch == {i \in Messages : batchStart < i /\ i <= batchStart + BatchLimit}

\* One SendMessageBatch: sent, it ends with or without an error, and SQS has
\* stored any part of it.
SendBatch ==
  /\ submit = "running" /\ Marshalled
  /\ batchStart < len
  /\ offered' = AddOne(offered, Batch)
  /\ \E S \in SUBSET Batch : stored' = AddOne(stored, S)
  /\ \/ /\ batchStart' = batchStart + BatchLimit
        /\ UNCHANGED submit
     \/ /\ submit' = "err"
        /\ UNCHANGED batchStart
  /\ UNCHANGED <<len, bad, closed, marshalled, submits>>

ReturnNil ==
  /\ submit = "running" /\ Marshalled
  /\ batchStart >= len
  /\ submit' = "nil"
  /\ UNCHANGED <<len, bad, closed, marshalled, batchStart, offered, stored, submits>>

Close ==
  /\ ~closed
  /\ closed' = TRUE
  /\ UNCHANGED <<len, bad, submit, marshalled, batchStart, offered, stored, submits>>

SubmitNext == SubmitBatch \/ MarshalTask \/ SendBatch \/ ReturnNil \/ Close

SubmitSpec == SubmitInit /\ [][SubmitNext]_submitVars

-----------------------------------------------------------------------------
\* A batch with a message that does not marshal is refused as a whole, whatever
\* slice the message would be in: however often the caller tries, nothing of it
\* reaches SQS and no call returns nil.
AllOrNothingMarshalled ==
  bad # {} => submit # "nil" /\ \A i \in Messages : stored[i] = 0

\* A call that has not returned, or has failed, has sent a prefix of the batch,
\* each message of it once.
SentIsPrefix ==
  \A i, j \in Messages :
    /\ offered[i] <= 1
    /\ i < j => offered[j] <= offered[i]

\* A call sends a prefix of the batch, and all of it when it returns nil, whatever
\* the length of the batch is modulo the limit.  So a message is stored at most
\* once for each call: a caller that never repeats one never duplicates a task.
SentOncePerCall ==
  /\ SentIsPrefix
  /\ submit = "nil" => \A i \in Messages : offered[i] = 1
  /\ \A i \in Messages : stored[i] <= submits
=============================================================================
