--------------------------- MODULE SolanaQueries ---------------------------
(***************************************************************************)
(* The queries of solana/client.go, of the token client that wraps one of  *)
(* them, and the search of solana/address.go for a program address.  Each  *)
(* query is one call, retried like those of SolanaSubmit, and the decoding *)
(* of its answer; op is the operation that the caller has chosen.          *)
(*                                                                         *)
(* A base58 or base64 text is [ok, bytes]: whether it decodes, and to      *)
(* what.  A transaction in an answer is [text, meta]: whether there is a   *)
(* text and its bytes can be read, and <<>> or the JSON of its error.  The *)
(* texts of transactions and of the data of accounts are the first of an   *)
(* array, and the code does not look at its length.                        *)
(***************************************************************************)
EXTENDS SolanaSubmit, TokenAccount

CONSTANTS
  Answers,     \* what a node may answer to each query
  ProgramKey,  \* the key of the token program
  Token,       \* the mint that the token client is for
  MaxBump,     \* math.MaxUint8 of FindProgramAddress
  MaxSeeds     \* maxSeeds of CreateProgramAddress

VARIABLES
  op,
  asked,   \* history: {} or the answer of the node that ended the query
  value    \* the value returned beside err

queryVars == <<op, asked, value>>

Numbers == {"GetMinimumBalanceForRentExemption", "GetSlot", "GetBlockTime",
            "GetConfirmedBlocksWithLimit", "GetConfirmationStatus"}
Queries == Numbers \cup
  {"GetBalance", "GetConfirmedBlock", "GetConfirmedTransaction", "SimulateTransaction",
   "GetAccountInfo", "RequestAirdrop", "GetTokenAccountsByOwner", "GetAccount"}

-----------------------------------------------------------------------------
(***************************************************************************)
(* Decoding.  What comes back is a record of an error and a value; Missing *)
(* is the JSON null, or the first of an empty array.  The error is "panic" *)
(* if the call panics.                                                     *)
(***************************************************************************)
Missing == [missing |-> TRUE]
Ok(v) == [err |-> "nil", value |-> v]
Failed(e) == [err |-> e, value |-> {}]

GetBalance(v) == IF v.kind = "float64" THEN Ok(FloatOf(v.int)) ELSE Failed("invalid value")

\* The TransactionError of a transaction in an answer.
Transaction(t) ==
  LET parsed == IF t.meta = <<>> THEN Nothing ELSE ParseTransactionError(t.meta[1])
  IN  IF t.text = "missing" THEN Failed("panic")
      ELSE IF t.text # "good" \/ parsed.err THEN Failed("decode")
      ELSE Ok(parsed.result)

\* Variant: a transaction that cannot be read is left out.
GetConfirmedBlockSkipping(v) ==
  CASE v = Missing -> Ok(Missing)
    [] v # Missing /\ (~v.hash.ok \/ ~v.prevHash.ok) -> Failed("decode")
    [] OTHER -> LET read == SelectSeq(v.txs, LAMBDA t : Transaction(t).err = "nil")
                IN  Ok([txs |-> [i \in DOMAIN read |-> Transaction(read[i]).value]])

\* The first transaction that cannot be read ends the call.
GetConfirmedBlock(v) ==
  CASE v = Missing -> Ok(Missing)
    [] v # Missing /\ (~v.hash.ok \/ ~v.prevHash.ok) -> Failed("decode")
    [] OTHER -> LET bad == {i \in DOMAIN v.txs : Transaction(v.txs[i]).err # "nil"}
                IN  IF bad = {} THEN Ok([txs |-> [i \in DOMAIN v.txs |-> Transaction(v.txs[i]).value]])
                    ELSE IF \E i \in bad : v.txs[i].text = "missing" /\ \A j \in bad : i <= j
                    THEN Failed("panic")
                    ELSE Failed("decode")

GetConfirmedTransaction(v) ==
  IF v = Missing THEN Failed("signature not found") ELSE Transaction(v)

SimulateTransaction(v) ==
  LET parsed == ParseTransactionError(v)
  IN  IF parsed.err THEN Failed("decode") ELSE Ok(parsed.result)

GetAccountInfo(v) ==
  CASE v = Missing -> Failed("no account info")
    [] v # Missing /\ v.owner.ok /\ v.data = Missing -> Failed("panic")
    [] v # Missing /\ (~v.owner.ok \/ (v.data # Missing /\ ~v.data.ok)) -> Failed("decode")
    [] OTHER -> Ok([owner |-> v.owner.bytes, data |-> v.data.bytes])

\* No bytes stand for a signature of zeros.
RequestAirdrop(v) ==
  CASE ~v.ok -> Failed("decode")
    [] v.ok /\ v.bytes = <<>> -> Failed("empty signature")
    [] OTHER -> Ok(v.bytes)

GetTokenAccountsByOwner(v) ==
  IF \E i \in DOMAIN v : ~v[i].ok THEN Failed("decode")
  ELSE Ok([i \in DOMAIN v |-> v[i].bytes])

Decoded(query, v) ==
  CASE query \in Numbers -> Ok(v)
    [] query = "GetBalance" -> GetBalance(v)
    [] query = "GetConfirmedBlock" -> GetConfirmedBlock(v)
    [] query = "GetConfirmedTransaction" -> GetConfirmedTransaction(v)
    [] query = "SimulateTransaction" -> SimulateTransaction(v)
    [] query = "GetAccountInfo" -> GetAccountInfo(v)
    [] query = "RequestAirdrop" -> RequestAirdrop(v)
    [] query = "GetTokenAccountsByOwner" -> GetTokenAccountsByOwner(v)
    [] query = "GetAccount" -> GetAccount(GetAccountInfo(v), ProgramKey, Token)

-----------------------------------------------------------------------------
(***************************************************************************)
(* External: what the nodes answer.  A JSON value is a null only if it is  *)
(* Null, a balance is in the range of FloatOf, and the accounts of the     *)
(* token program are kept as that program keeps them.                      *)
(***************************************************************************)
Text == [ok : BOOLEAN, bytes : Seq(Nat)]
NullIsNull(v) == v.kind = "null" => v = Null
ErrorIsJSON(t) == t.meta # <<>> => NullIsNull(t.meta[1])

ASSUME QueryAssumption ==
  /\ MaxBump \in Nat /\ MaxSeeds \in Nat
  /\ \A v \in Answers["GetBalance"] : v.kind = "float64" => v.int \in 0 .. 2 * ExactFloat
  /\ \A v \in Answers["GetConfirmedBlock"] \ {Missing} : \A n \in DOMAIN v.txs : ErrorIsJSON(v.txs[n])
  /\ \A v \in Answers["GetConfirmedTransaction"] \ {Missing} : ErrorIsJSON(v)
  /\ \A v \in Answers["SimulateTransaction"] : NullIsNull(v)
  /\ \A v \in Answers["GetTokenAccountsByOwner"] : v \in Seq(Text)

ASSUME TokenAssumption ==
  /\ Token # Zeros(KeySize)
  /\ \A v \in Answers["GetAccount"] \ {Missing} :
       /\ v.owner \in Text
       /\ v.data # Missing => v.data \in Text
       /\ v.data # Missing /\ v.owner.bytes = ProgramKey /\ Len(v.data.bytes) = AccountSize =>
            Kept(v.data.bytes)

-----------------------------------------------------------------------------
Finish(answer, r) ==
  /\ Return(s, r.err)
  /\ asked' = answer
  /\ value' = r.value
  /\ UNCHANGED <<cluster, rejected, op>>

\* The call fails with an error to try again, or one that is not an RPC error.
QueryFails ==
  /\ pc = "query"
  /\ \/ /\ tries < RetryLimit
        /\ tries' = tries + 1
        /\ UNCHANGED <<cluster, pc, polls, s, err, rejected, queryVars>>
     \/ Finish({}, Failed("request"))

\* The node answers with another RPC error.  GetBlockTime knows the code of a
\* block that is not available and goes on with the zero value for any other.
QueryRefused ==
  /\ pc = "query"
  /\ IF op = "GetBlockTime"
     THEN Finish({}, Failed("block not available")) \/ Finish({}, Ok(0))
     ELSE Finish({}, Failed("rpc"))

QueryAnswered ==
  /\ pc = "query"
  /\ \E v \in Answers[op] : Finish({v}, Decoded(op, v))

-----------------------------------------------------------------------------
(***************************************************************************)
(* CreateProgramAddress and FindProgramAddress.  onCurve says for which    *)
(* bumps the hash is a point of the curve; the seeds are a number of       *)
(* seeds and whether one of them is too long.                              *)
(***************************************************************************)
CreateProgramAddress(seeds, bump, onCurve) ==
  CASE seeds.count + 1 > MaxSeeds -> Failed("too many seeds")
    [] seeds.count + 1 <= MaxSeeds /\ seeds.long -> Failed("max seed length exceeded")
    [] OTHER -> IF bump \in onCurve THEN Failed("invalid public key") ELSE Ok({bump})

\* MaxBump attempts from MaxBump down, the bump 0 is not among them.
FindProgramAddress(seeds, onCurve) ==
  LET try(bump) == CreateProgramAddress(seeds, bump, onCurve)
      ends  == {bump \in 1..MaxBump : try(bump).err # "invalid public key"}
      first == {b \in ends : \A c \in ends : c <= b}
  IN  IF first = {} THEN Ok({}) ELSE try(CHOOSE b \in first : TRUE)

Search ==
  /\ pc = "search"
  /\ \E seeds \in [count : 0..MaxSeeds, long : BOOLEAN], onCurve \in SUBSET (0..MaxBump) :
       Finish({[seeds |-> seeds, onCurve |-> onCurve]}, FindProgramAddress(seeds, onCurve))

-----------------------------------------------------------------------------
(***************************************************************************)
(* Properties.                                                             *)
(***************************************************************************)
Answered(query) == pc = "done" /\ op = query /\ err = "nil"

\* Whether an array in the answer to a query is empty.
EmptyArray(query, a) ==
  \/ query = "GetConfirmedBlock" /\ \E i \in DOMAIN a.txs : a.txs[i].text = "missing"
  \/ query = "GetConfirmedTransaction" /\ a.text = "missing"
  \/ query \in {"GetAccountInfo", "GetAccount"} /\ a.data = Missing

\* Whether an answer says that a transaction failed.
FailedOnChain(t) == t.meta # <<>> /\ t.meta[1] # Null

\* A query without an error returns what the node knows: every transaction of a
\* block, marked as failed exactly if it failed; a balance that is exact as far
\* as a float64 goes and off by one beyond; all the accounts.  Without an answer
\* only GetBlockTime returns no error, and then the epoch.  A program address is
\* the first off the curve, and none only if the whole range is on it.  And only
\* an empty array in the answer makes a query panic.
QueriesFaithful ==
  /\ pc = "done" /\ op \in Queries /\ err = "nil" /\ asked = {}
       => op = "GetBlockTime" /\ value = 0
  /\ \A a \in asked :
       /\ pc = "done" /\ err = "panic" => EmptyArray(op, a)
       /\ Answered("GetBalance") =>
            /\ a.int <= ExactFloat => value = a.int
            /\ value \in a.int - 1 .. a.int + 1
       /\ Answered("GetConfirmedBlock") =>
            /\ value = Missing <=> a = Missing
            /\ a # Missing => /\ DOMAIN value.txs = DOMAIN a.txs
                              /\ \A i \in DOMAIN a.txs : value.txs[i] # Nil <=> FailedOnChain(a.txs[i])
       /\ Answered("GetConfirmedTransaction") => (value # Nil <=> FailedOnChain(a))
       /\ Answered("SimulateTransaction") => (value # Nil <=> a # Null)
       /\ Answered("GetTokenAccountsByOwner") => Len(value) = Len(a)
       /\ Answered("FindProgramAddress") =>
            LET first == {b \in 1..MaxBump : b \notin a.onCurve /\ b + 1 .. MaxBump \subseteq a.onCurve}
            IN  value = first

\* GetAccount returns an account only as the chain has it, whatever is left in the
\* cells of fields that are not there, and only one of the token program,
\* initialised and of this client's mint; it says "not found" only of an account
\* that does not exist.
TokenAccountChecked ==
  \A a \in asked :
    /\ Answered("GetAccount") =>
         /\ a.owner.bytes = ProgramKey
         /\ \A x \in value : Marshal(x) = Cleared(a.data.bytes) /\ x.mint = Token /\ x.state # 0
         /\ value # {}
    /\ pc = "done" /\ op = "GetAccount" /\ err = "account not found" => a = Missing
=============================================================================
