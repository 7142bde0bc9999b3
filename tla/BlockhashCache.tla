--------------------------- MODULE BlockhashCache ---------------------------
(***************************************************************************)
(* GetRecentBlockhash of solana/client.go: goroutines that share one       *)
(* cached blockhash.  The lock is held to read and to write the cache, but *)
(* not across the call, so answers may be written out of order, with the   *)
(* time of the write and not of the answer.                                *)
(*                                                                         *)
(* A blockhash is named by the moment it was the recent one at the node.   *)
(***************************************************************************)
EXTENDS Integers

CONSTANTS
  Callers,
  Windows,    \* the refresh windows the code may draw (1.6 to 3.6 seconds)
  MaxWindow,  \* the largest of them
  Latency,    \* longest time between the node's answer and the write
  MaxTime,    \* bound: ticks
  None

ASSUME CacheAssumption ==
  /\ Windows \subseteq 0 .. MaxWindow
  /\ MaxWindow \in Nat \ {0}
  /\ Latency \in Nat
  /\ MaxTime \in Nat
  /\ None \notin Int

VARIABLES
  now,
  blockhash,  \* client.blockhash, None for the zero value
  lastWrite,  \* client.lastWrite
  reader,     \* "idle", "calling" or "answered"
  answer,     \* the hash in the answer a caller has got
  result      \* the age of the hash the last call returned, None for an error

cacheVars == <<now, blockhash, lastWrite, reader, answer, result>>

CacheTypeOK ==
  /\ now \in Nat
  /\ blockhash \in Nat \cup {None}
  /\ lastWrite \in Nat
  /\ reader \in [Callers -> {"idle", "calling", "answered"}]
  /\ answer \in [Callers -> Nat]
  /\ result \in [Callers -> Nat \cup {None}]

CacheInit ==
  /\ now = 0
  /\ blockhash = None
  /\ lastWrite = 0
  /\ reader = [c \in Callers |-> "idle"]
  /\ answer = [c \in Callers |-> 0]
  /\ result = [c \in Callers |-> None]

Aged(c, h) == result' = [result EXCEPT ![c] = now - h]

\* Variant: whatever is cached is good enough.
ReadAny(c) ==
  /\ reader[c] = "idle"
  /\ IF blockhash # None
     THEN Aged(c, blockhash) /\ UNCHANGED reader
     ELSE reader' = [reader EXCEPT ![c] = "calling"] /\ UNCHANGED result
  /\ UNCHANGED <<now, blockhash, lastWrite, answer>>

\* The read under blockMu.RLock, with a window drawn at random.
Read(c) ==
  /\ reader[c] = "idle"
  /\ \E window \in Windows :
       IF blockhash # None /\ now - lastWrite < window
       THEN Aged(c, blockhash) /\ UNCHANGED reader
       ELSE reader' = [reader EXCEPT ![c] = "calling"] /\ UNCHANGED result
  /\ UNCHANGED <<now, blockhash, lastWrite, answer>>

\* External: the node answers with its recent blockhash.
Answer(c) ==
  /\ reader[c] = "calling"
  /\ reader' = [reader EXCEPT ![c] = "answered"]
  /\ answer' = [answer EXCEPT ![c] = now]
  /\ UNCHANGED <<now, blockhash, lastWrite, result>>

\* The call fails after its retries, or the hash does not decode.
Fail(c) ==
  /\ reader[c] \in {"calling", "answered"}
  /\ reader' = [reader EXCEPT ![c] = "idle"]
  /\ answer' = [answer EXCEPT ![c] = 0]
  /\ result' = [result EXCEPT ![c] = None]
  /\ UNCHANGED <<now, blockhash, lastWrite>>

\* The write under blockMu.Lock.
Write(c) ==
  /\ reader[c] = "answered"
  /\ reader' = [reader EXCEPT ![c] = "idle"]
  /\ blockhash' = answer[c]
  /\ lastWrite' = now
  /\ Aged(c, answer[c])
  /\ answer' = [answer EXCEPT ![c] = 0]
  /\ UNCHANGED now

Tick ==
  /\ now < MaxTime
  /\ \A c \in Callers : reader[c] = "answered" => now - answer[c] < Latency
  /\ now' = now + 1
  /\ UNCHANGED <<blockhash, lastWrite, reader, answer, result>>

CacheNext == Tick \/ \E c \in Callers : Read(c) \/ Answer(c) \/ Fail(c) \/ Write(c)

CacheSpec == CacheInit /\ [][CacheNext]_cacheVars

-----------------------------------------------------------------------------
\* A blockhash is too old for the cluster after some two minutes.  One that is
\* returned was recent less than the largest window and one latency ago, even
\* when a slow caller overwrites a newer hash with an older one.
FreshEnough ==
  \A c \in Callers : result[c] # None => result[c] < Latency + MaxWindow

\* The age of the cached hash is understated by one latency at most.
UnderstatedByLatency ==
  blockhash # None => blockhash <= lastWrite /\ lastWrite - blockhash <= Latency
=============================================================================
