-------------------------- MODULE SolanaTransaction --------------------------
(***************************************************************************)
(* solana/transaction.go, instruction.go, encoding.go and shortvec: how    *)
(* instructions are compiled into a transaction, signed, put on the wire   *)
(* and read back.                                                          *)
(*                                                                         *)
(* Public keys are numbers: Zero is the key of 32 zero bytes and Empty a   *)
(* slice of length 0.  On the wire a byte, a key, a blockhash, a signature *)
(* and a field of an instruction's data are one unit each, all of them     *)
(* numbers, so that a reader that is out of step reads wrong values.       *)
(***************************************************************************)
EXTENDS Integers, Sequences, FiniteSetsExt

CONSTANT MaxUint16   \* math.MaxUint16: the greatest length that EncodeLen writes

\* These three are as in SequencesExt, which would also bring in Bags: the prover
\* carries every definition of a module into every step of a proof.
FoldLeft(Op(_, _), base, seq) ==
  MapThenFoldSet(LAMBDA x, acc : Op(acc, x), base, LAMBDA k : seq[k], Max, DOMAIN seq)

FlattenSeq(seqs) == FoldLeft(\o, <<>>, seqs)

SelectInSeq(seq, Test(_)) ==
  LET found == {k \in DOMAIN seq : Test(seq[k])}
  IN  IF found = {} THEN 0 ELSE Min(found)

Zero  == 0
Empty == 99

NewAccountMeta(pub, isSigner) ==
  [key |-> pub, signer |-> isSigner, writable |-> TRUE, payer |-> FALSE, program |-> FALSE]

NewReadonlyAccountMeta(pub, isSigner) ==
  [key |-> pub, signer |-> isSigner, writable |-> FALSE, payer |-> FALSE, program |-> FALSE]

NewInstruction(program, data, accounts) ==
  [program |-> program, data |-> data, accounts |-> accounts]

-----------------------------------------------------------------------------
(***************************************************************************)
(* NewTransaction.                                                         *)
(***************************************************************************)
\* Variant: a second mention does not promote the permissions.
FilterOneDropping(filtered, meta) ==
  IF \E j \in DOMAIN filtered : filtered[j].key = meta.key
  THEN filtered
  ELSE Append(filtered, meta)

FilterOne(filtered, meta) ==
  IF \E j \in DOMAIN filtered : filtered[j].key = meta.key
  THEN [j \in DOMAIN filtered |->
         IF filtered[j].key = meta.key
         THEN [filtered[j] EXCEPT !.signer = @ \/ meta.signer, !.writable = @ \/ meta.writable,
                                  !.payer = @ \/ meta.payer]
         ELSE filtered[j]]
  ELSE Append(filtered, meta)

filterUnique(accounts) == FoldLeft(FilterOne, <<>>, accounts)

Less(x, y) ==
  CASE x.payer # y.payer       -> x.payer
    [] x.program # y.program   -> y.program
    [] x.signer # y.signer     -> x.signer
    [] x.writable # y.writable -> x.writable
    [] OTHER                   -> FALSE

\* sort.Sort is not stable: every order that Less allows.
Sorted(accounts) ==
  LET metas == Range(accounts)
      Orders[S \in SUBSET metas] ==
        IF S = {} THEN {<<>>}
        ELSE UNION {{<<m>> \o rest : rest \in Orders[S \ {m}]} :
                      m \in {x \in S : \A y \in S : ~Less(y, x)}}
  IN  Orders[metas]

Metas(payer, instructions) ==
  <<[NewAccountMeta(payer, TRUE) EXCEPT !.payer = TRUE]>> \o
  FlattenSeq([i \in DOMAIN instructions |->
    <<[NewReadonlyAccountMeta(instructions[i].program, FALSE) EXCEPT !.program = TRUE]>>
      \o instructions[i].accounts])

\* The position of an item, 0 if there is none.
indexOf(slice, item) == SelectInSeq(slice, LAMBDA val : val = item)

Count(accounts, Test(_)) == Len(SelectSeq(accounts, Test))

HeaderOf(accounts) ==
  [NumSignatures     |-> Count(accounts, LAMBDA a : a.signer),
   NumReadonlySigned |-> Count(accounts, LAMBDA a : a.signer /\ ~a.writable),
   NumReadOnly       |-> Count(accounts, LAMBDA a : ~a.signer /\ ~a.writable)]

\* The transactions NewTransaction may return; indices in instructions are
\* counted from 0 and are bytes.
NewTransaction(payer, instructions) ==
  {LET keys == [k \in DOMAIN accounts |-> accounts[k].key]
       Index(key) == (indexOf(keys, key) - 1) % 256
   IN  [signatures   |-> [k \in 1 .. HeaderOf(accounts).NumSignatures |-> 0],
        header       |-> HeaderOf(accounts),
        accounts     |-> [k \in DOMAIN keys |-> IF keys[k] = Empty THEN Zero ELSE keys[k]],
        blockhash    |-> 0,
        instructions |-> [i \in DOMAIN instructions |->
          [program  |-> Index(instructions[i].program),
           accounts |-> [k \in DOMAIN instructions[i].accounts |->
                           Index(instructions[i].accounts[k].key)],
           data     |-> instructions[i].data]]]
   : accounts \in Sorted(filterUnique(Metas(payer, instructions)))}

-----------------------------------------------------------------------------
(***************************************************************************)
(* Sign.  Only the blockhash of a message changes after it is made.        *)
(***************************************************************************)
SignatureOf(key, t) == 1 + 2 * key + t.blockhash

\* Variant: signatures are put in the order of the signers.
SignOneInOrder(t, signed, s) ==
  LET index == indexOf(signed.signatures, 0)
  IN  IF signed.err \/ index = 0 \/ indexOf(t.accounts, s) = 0
      THEN [signed EXCEPT !.err = TRUE]
      ELSE [signed EXCEPT !.signatures[index] = SignatureOf(s, t)]

\* The loop stops at the first signer that has no slot.
SignOne(t, signed, s) ==
  LET index == indexOf(t.accounts, s)
  IN  IF signed.err \/ index = 0 \/ index > Len(signed.signatures)
      THEN [signed EXCEPT !.err = TRUE]
      ELSE [signed EXCEPT !.signatures[index] = SignatureOf(s, t)]

Signed(t, signers) ==
  FoldLeft(LAMBDA signed, s : SignOne(t, signed, s),
           [err |-> FALSE, signatures |-> t.signatures], signers)

-----------------------------------------------------------------------------
(***************************************************************************)
(* Marshal.                                                                *)
(***************************************************************************)
\* A length that is too great is an error, which Marshal ignores: nothing is written.
EncodeLen(len) ==
  IF len > MaxUint16 THEN <<>>
  ELSE IF len < 128 THEN <<len>>
  ELSE IF len < 16384 THEN <<128 + (len % 128), len \div 128>>
  ELSE <<128 + (len % 128), 128 + ((len \div 128) % 128), len \div 16384>>

Vector(s) == EncodeLen(Len(s)) \o s

MarshalMessage(t) ==
  <<t.header.NumSignatures, t.header.NumReadonlySigned, t.header.NumReadOnly>>
  \o Vector(t.accounts)
  \o <<t.blockhash>>
  \o EncodeLen(Len(t.instructions))
  \o FlattenSeq([i \in DOMAIN t.instructions |->
       <<t.instructions[i].program>> \o Vector(t.instructions[i].accounts)
                                     \o Vector(t.instructions[i].data)])

Marshal(t) == Vector(t.signatures) \o MarshalMessage(t)

-----------------------------------------------------------------------------
(***************************************************************************)
(* Unmarshal.  A reader is what is left of the buffer; every read yields   *)
(* what it got and the reader after it, and fails on a short buffer.       *)
(***************************************************************************)
Failed == [ok |-> FALSE, got |-> <<>>, rest |-> <<>>]

ReadFull(r, n) ==
  IF ~r.ok \/ Len(r.rest) < n THEN Failed
  ELSE [ok |-> TRUE, got |-> SubSeq(r.rest, 1, n), rest |-> SubSeq(r.rest, n + 1, Len(r.rest))]

\* The bytes up to the first without the high bit; more than three are an error.
DecodeLen(r) ==
  LET n == SelectInSeq(r.rest, LAMBDA byte : byte < 128)
      read == ReadFull(r, n)
      Part(k) == IF k <= n THEN (r.rest[k] % 128) * 128 ^ (k - 1) ELSE 0
  IN  IF ~r.ok \/ n = 0 \/ n > 3 THEN Failed
      ELSE [read EXCEPT !.got = Part(1) + Part(2) + Part(3)]

\* Variant: a length is taken for one byte.
ReadVectorShort(r) ==
  LET len == ReadFull(r, 1)
  IN  IF len.ok THEN ReadFull(len, len.got[1]) ELSE Failed

ReadVector(r) ==
  LET len == DecodeLen(r)
  IN  IF len.ok THEN ReadFull(len, len.got) ELSE Failed

ReadInstruction(r, numAccounts) ==
  LET program  == ReadFull(r, 1)
      accounts == ReadVector(program)
      data     == ReadVector(accounts)
  IN  IF ~data.ok \/ \E k \in Range(program.got \o accounts.got) : k >= numAccounts
      THEN Failed
      ELSE [data EXCEPT !.got = [program |-> program.got[1], accounts |-> accounts.got,
                                 data |-> data.got]]

ReadInstructions(r, n, numAccounts) ==
  FoldLeft(LAMBDA read, i :
             LET next == ReadInstruction(read, numAccounts)
             IN  IF next.ok THEN [next EXCEPT !.got = Append(read.got, @)] ELSE Failed,
           [r EXCEPT !.got = <<>>], [i \in 1 .. n |-> i])

\* The set of the transaction that is read, empty on an error.
Unmarshal(b) ==
  LET signatures   == ReadVector([ok |-> TRUE, got |-> <<>>, rest |-> b])
      header       == ReadFull(signatures, 3)
      accounts     == ReadVector(header)
      blockhash    == ReadFull(accounts, 1)
      len          == DecodeLen(blockhash)
      instructions == IF len.ok THEN ReadInstructions(len, len.got, Len(accounts.got)) ELSE Failed
  IN  IF ~instructions.ok THEN {}
      ELSE {[signatures   |-> signatures.got,
             header       |-> [NumSignatures |-> header.got[1],
                               NumReadonlySigned |-> header.got[2],
                               NumReadOnly |-> header.got[3]],
             accounts     |-> accounts.got,
             blockhash    |-> blockhash.got[1],
             instructions |-> instructions.got]}

\* An instruction of a message, with keys in place of indices.
Resolve(t, i) ==
  [program  |-> t.accounts[t.instructions[i].program + 1],
   accounts |-> [k \in DOMAIN t.instructions[i].accounts |->
                   t.accounts[t.instructions[i].accounts[k] + 1]],
   data     |-> t.instructions[i].data]
=============================================================================
