--------------------------- MODULE MCSolanaClient ---------------------------
(***************************************************************************)
(* What a cluster and its nodes answer, for TLC.                           *)
(***************************************************************************)
EXTENDS SolanaClient, TLC

\* Errors of an instruction, with numbers of one of the two kinds.
InstructionErrors(Num(_), indexes) ==
  {Map("InstructionError" :> List(<<index, cause>>)) :
     index \in indexes,
     cause \in {String("InvalidArgument"), String("a quote"), String("a backslash"),
                Map("Custom" :> Num(3)), Map("Custom" :> Num(ExactFloat + 1)), Map("Custom" :> String("x")),
                Map("BorshIoError" :> String("x")), Num(5)}}

\* A quote ends the string, and a backslash makes another character.
MCEscapes == "a quote" :> <<>> @@ "a backslash" :> <<"a newline">>

MCRawErrors ==
  {String("AccountInUse"), Map("InsufficientFundsForRent" :> Float(1)), Float(1),
   Map("InstructionError" :> Null), Map("InstructionError" :> List(<<>>)),
   Map([k \in {"a", "b"} |-> Null])}
  \cup InstructionErrors(Float, {Float(0), String("1"), Null})

MCErrorData ==
  {Null, Map("logs" :> Null), Map("err" :> Null), Map("err" :> String("BlockhashNotFound")),
   Map("err" :> Number(1))}
  \cup {Map("err" :> raw) : raw \in InstructionErrors(Number, {Number(0), String("1"), Fraction(1)})}

-----------------------------------------------------------------------------
Good(b) == [ok |-> TRUE, bytes |-> b]
Bad == [ok |-> FALSE, bytes |-> <<>>]

\* Transactions whose text is base64 of a transaction, not base64, base64 of
\* something else, or missing, without metadata, without an error, and with errors that can
\* and that cannot be parsed.
MCTransactions ==
  [text : {"good", "encoding", "bytes", "missing"},
   meta : {<<>>, <<Null>>, <<String("AccountInUse")>>, <<Float(1)>>}]

MCTokenKey == <<1, 2>>
MCProgramKey == <<2, 1>>

\* Token accounts as the token program keeps them: an uninitialised one is zeros,
\* and a delegate that was revoked has left something behind.
MCChain ==
  {[mint |-> m, owner |-> <<2, 2>>, amount |-> n, delegate |-> d, state |-> st,
    isNative |-> p, delegatedAmount |-> IF d = <<>> THEN 0 ELSE n, closeAuthority |-> k] :
     m \in {MCTokenKey, <<1, 1>>}, n \in {0, 1, Base, Base * Base - 1},
     d \in {<<>>, <<0, 2>>}, st \in {1, 2}, p \in {<<>>, <<0>>, <<4>>}, k \in {<<>>, <<1, 0>>}}
MCTokenAccounts ==
  {Marshal(a) : a \in MCChain}
  \cup {[Marshal(a) EXCEPT ![DelegateAt + TagSize + 1] = 2] : a \in {x \in MCChain : x.delegate = <<>>}}
  \cup {Zeros(AccountSize), Zeros(AccountSize - 1), <<>>}

MCAccounts ==
  {Missing} \cup [owner : {Bad, Good(MCProgramKey), Good(<<1, 1>>)},
                  data : {Bad, Missing} \cup {Good(b) : b \in MCTokenAccounts}]

MCAnswers ==
  [q \in Numbers |-> 0 .. 2]
  @@ "GetBalance" :> ({Null, String("x")} \cup {Float(n) : n \in 0 .. 2 * ExactFloat})
  @@ "GetConfirmedBlock" :>
       ({Missing} \cup [hash : {Good(<<1>>), Bad}, prevHash : {Good(<<1>>), Bad},
                        txs : UNION {[1..n -> MCTransactions] : n \in 0..2}])
  @@ "GetConfirmedTransaction" :> ({Missing} \cup MCTransactions)
  @@ "SimulateTransaction" :> (MCRawErrors \cup {Null})
  @@ "GetAccountInfo" :> MCAccounts
  @@ "GetAccount" :> MCAccounts
  @@ "RequestAirdrop" :> {Bad, Good(<<>>), Good(<<1>>)}
  @@ "GetTokenAccountsByOwner" :> UNION {[1..n -> {Good(<<1>>), Good(<<2>>), Bad}] : n \in 0..2}
=============================================================================
