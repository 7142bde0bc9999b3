---------------------------- MODULE SolanaClient ----------------------------
(***************************************************************************)
(* The client of solana/client.go: SubmitTransaction, a query, or the      *)
(* goroutines in GetRecentBlockhash.  The operations share nothing but the *)
(* blockhash that GetRecentBlockhash caches, so one behaviour is about one *)
(* operation.                                                              *)
(***************************************************************************)
EXTENDS BlockhashCache, SolanaQueries

clientVars == <<vars, queryVars, cacheVars>>

ClientInit ==
  /\ CacheInit
  /\ asked = {} /\ value = {}
  /\ \/ op = "SubmitTransaction" /\ Init
     \/ /\ op \in Queries /\ Begin("query")
        /\ commitment = "max" /\ outcome = Null
     \/ /\ op \in {"FindProgramAddress", "GetRecentBlockhash"} /\ Begin("search")
        /\ commitment = "max" /\ outcome = Null

Submission ==
  op = "SubmitTransaction" /\ Next /\ UNCHANGED <<queryVars, cacheVars>>

QueryStep ==
  (QueryFails \/ QueryRefused \/ QueryAnswered) /\ UNCHANGED cacheVars

SearchStep == op = "FindProgramAddress" /\ Search /\ UNCHANGED cacheVars

BlockhashStep ==
  op = "GetRecentBlockhash" /\ CacheNext /\ UNCHANGED <<vars, queryVars>>

ClientNext ==
  \/ Submission \/ QueryStep \/ SearchStep \/ BlockhashStep
  \/ pc = "done" /\ UNCHANGED clientVars

ClientSpec == ClientInit /\ [][ClientNext]_clientVars

\* An assumption on the network: every call ends, with an answer or an error.  The
\* code sets no timeout, so it is one for the HTTP client that is passed in.
FairClientSpec ==
  /\ ClientSpec
  /\ WF_clientVars(op = "SubmitTransaction" /\ SubmitStep /\ UNCHANGED <<queryVars, cacheVars>>)
  /\ WF_clientVars(QueryStep) /\ WF_clientVars(SearchStep)

\* SubmitTransaction and every query return if their calls do: whatever the nodes
\* answer, and however the cluster behaves, the retries and polls come to an end, at
\* worst in a panic.
CallsReturn == <>(pc = "done" \/ op = "GetRecentBlockhash")
=============================================================================
