---------------------------- MODULE TokenAccount ----------------------------
(***************************************************************************)
(* The state of a token account (solana/token/state.go): its layout and    *)
(* the checks of token.Client.GetAccount.                                  *)
(*                                                                         *)
(* Bytes are cells that hold one number.  A key takes KeySize cells, an    *)
(* integer Uint64Size digits with the least one first, the tag of an       *)
(* optional field TagSize.  A nil key or pointer is <<>>.                  *)
(***************************************************************************)
EXTENDS Naturals, Sequences

KeySize    == 2
Uint64Size == 2
TagSize    == 2
Base       == 3

AccountSize == 4 * KeySize + 3 * Uint64Size + 3 * TagSize + 1

\* The offsets of the fields after the mint and the owner.
AmountAt    == 2 * KeySize
DelegateAt  == AmountAt + Uint64Size
StateAt     == DelegateAt + TagSize + KeySize
NativeAt    == StateAt + 1
DelegatedAt == NativeAt + TagSize + Uint64Size
CloseAt     == DelegatedAt + Uint64Size

Zeros(n) == [i \in 1..n |-> 0]

-----------------------------------------------------------------------------
writeKey(k) == k
writeUint64(n) == <<n % Base, n \div Base>>

Tag == [Zeros(TagSize) EXCEPT ![1] = 1]
writeOptionalKey(k) == IF Len(k) > 0 THEN Tag \o k ELSE Zeros(TagSize + KeySize)
writeOptionalUint64(p) ==
  IF p # <<>> THEN Tag \o writeUint64(p[1]) ELSE Zeros(TagSize + Uint64Size)

Marshal(a) ==
  writeKey(a.mint) \o writeKey(a.owner) \o writeUint64(a.amount)
    \o writeOptionalKey(a.delegate) \o <<a.state>> \o writeOptionalUint64(a.isNative)
    \o writeUint64(a.delegatedAmount) \o writeOptionalKey(a.closeAuthority)

loadKey(b, offset) == SubSeq(b, offset + 1, offset + KeySize)
loadUint64(b, offset) == b[offset + 1] + Base * b[offset + 2]
loadOptionalKey(b, offset) ==
  IF b[offset + 1] = 1 THEN loadKey(b, offset + TagSize) ELSE <<>>
loadOptionalUint64(b, offset) ==
  IF b[offset + 1] = 1 THEN <<loadUint64(b, offset + TagSize)>> ELSE <<>>

\* The account read from b, or {} if b has another size.
Unmarshal(b) ==
  IF Len(b) # AccountSize THEN {}
  ELSE {[mint |-> loadKey(b, 0), owner |-> loadKey(b, KeySize),
         amount |-> loadUint64(b, AmountAt),
         delegate |-> loadOptionalKey(b, DelegateAt),
         state |-> b[StateAt + 1],
         isNative |-> loadOptionalUint64(b, NativeAt),
         delegatedAmount |-> loadUint64(b, DelegatedAt),
         closeAuthority |-> loadOptionalKey(b, CloseAt)]}

\* External: how the token program keeps an account.  It clears the tag of an
\* optional field that goes away, but not the cells after it, and an account that
\* is not initialised has no mint.
Kept(b) ==
  /\ \A at \in {AmountAt, NativeAt + TagSize, DelegatedAt} : \A j \in 1..Uint64Size :
       b[at + j] \in 0..(Base - 1)
  /\ \A at \in {DelegateAt, NativeAt, CloseAt} :
       SubSeq(b, at + 1, at + TagSize) \in {Tag, Zeros(TagSize)}
  /\ b[StateAt + 1] = 0 => loadKey(b, 0) = Zeros(KeySize)

\* The cells after the tag of an optional field that is not there, and the bytes
\* of an account with zeros for them.
Body(b, at, size) == IF b[at + 1] = 0 THEN at + TagSize + 1 .. at + TagSize + size ELSE {}
Unused(b) == Body(b, DelegateAt, KeySize) \cup Body(b, NativeAt, Uint64Size) \cup Body(b, CloseAt, KeySize)
Cleared(b) == [j \in 1..AccountSize |-> IF j \in Unused(b) THEN 0 ELSE b[j]]

-----------------------------------------------------------------------------
(***************************************************************************)
(* GetAccount, given what GetAccountInfo answered.                         *)
(***************************************************************************)
\* Variant: the mint of the account is not compared.
GetAccountAnyMint(info, programKey, token) ==
  CASE info.err = "no account info" -> [err |-> "account not found", value |-> {}]
    [] info.err \notin {"nil", "no account info"} -> [err |-> info.err, value |-> {}]
    [] info.err = "nil" /\ info.value.owner # programKey ->
         [err |-> "invalid token account", value |-> {}]
    [] OTHER -> LET a == Unmarshal(info.value.data)
                IN  [err |-> IF a # {} THEN "nil" ELSE "invalid token account", value |-> a]

GetAccount(info, programKey, token) ==
  CASE info.err = "no account info" -> [err |-> "account not found", value |-> {}]
    [] info.err \notin {"nil", "no account info"} -> [err |-> info.err, value |-> {}]
    [] info.err = "nil" /\ info.value.owner # programKey ->
         [err |-> "invalid token account", value |-> {}]
    [] OTHER -> LET a == {x \in Unmarshal(info.value.data) : x.mint = token}
                IN  [err |-> IF a # {} THEN "nil" ELSE "invalid token account", value |-> a]
=============================================================================
