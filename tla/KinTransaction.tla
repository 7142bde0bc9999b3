--------------------------- MODULE KinTransaction ---------------------------
(***************************************************************************)
(* A Kin transaction from its builder to ParseTransaction of               *)
(* kin/transaction.go.  A client composes instructions with the builders   *)
(* of solana/system, solana/token and solana/memo, makes, signs and        *)
(* marshals the transaction; a service unmarshals and parses it.  The      *)
(* service also gets transactions that other programs have made: their     *)
(* instructions are chosen while they are parsed.                          *)
(***************************************************************************)
EXTENDS SolanaPrograms, KinMemo

CONSTANTS
  Payers,          \* keys a client may pay with
  Composed,        \* instructions the client composes
  MaxComposed,     \* bound: instructions of the client's transaction
  SignerLists,     \* arguments of Sign
  Foreign,         \* instructions, with keys, of other transactions
  MaxForeign,      \* bound: instructions of another transaction
  Subsidizer,      \* the first account of another transaction
  MemoData,        \* what a memo's first unit stands for: see MemoText
  InvoiceLists     \* numbers of invoices in a list; 0 is no list

-----------------------------------------------------------------------------
\* The text of a memo: its first unit stands for it.  A text that is base64 has
\* the parameters of the Kin memo it encodes; others may name an app.  A unit
\* that is not listed stands for a text that does neither.
MemoText(data) ==
  IF data[1] \in DOMAIN MemoData THEN MemoData[data[1]]
  ELSE [version |-> -1, type |-> 0, appIndex |-> 0, foreignKey |-> <<>>, appID |-> 0]

IsBase64(text) == text.version # -1

\* The fields of a memo have 3, 5, 16 and 230 bits.
ASSUME MemoAssumption ==
  \A d \in DOMAIN MemoData :
    IsBase64(MemoData[d]) =>
      /\ MemoData[d].version \in 0 .. 7
      /\ MemoData[d].type \in 0 .. 31
      /\ MemoData[d].appIndex \in 0 .. 65535
      /\ MemoData[d].foreignKey \in Seq(0 .. 255)
      /\ Len(MemoData[d].foreignKey) <= 29
      /\ Len(MemoData[d].foreignKey) = 29 => MemoData[d].foreignKey[29] < 64

ASSUME InvoiceAssumption == InvoiceLists \subseteq Nat

MemoFromBase64String(text) == NewMemo(text.version, text.type, text.appIndex, text.foreignKey)

AppIDFromTextMemo(text) == text.appID

-----------------------------------------------------------------------------
VARIABLES
  phase,     \* "compose", "made", "parse", "validate", "accepted" or "rejected"
  payer,     \* client: the payer
  composed,  \* client: its instructions
  tx,        \* client: the transaction; then what the service has read
  own,       \* the transaction is the client's
  il,        \* ParseTransaction: invoices in the list, 0 for none or not looked at yet
  read,      \* ParseTransaction: the instructions it has looked at
  at,        \* ParseTransaction: where in the loop the next one is looked at
  creation,  \* ParseTransaction: the creation it is in
  parsed,    \* ParseTransaction: the result
  region,    \* ParseTransaction: the region validated next
  types,     \* ParseTransaction: hasEarn, hasSpend and hasP2P
  refCount   \* ParseTransaction: regions the invoice list matches

clientVars == <<payer, composed, own, il>>
loopVars   == <<read, at, creation>>
checkVars  == <<region, types, refCount>>
vars == <<phase, tx, clientVars, loopVars, parsed, checkVars>>

NoRegion == [memoData |-> <<>>, memo |-> <<>>, creations |-> <<>>, transfers |-> <<>>,
             closures |-> <<>>]
NoTx == [signatures |-> <<>>, header |-> HeaderOf(<<>>), accounts |-> <<>>, blockhash |-> 0,
         instructions |-> <<>>]
NoCreation == [funder |-> Empty, address |-> Empty, assoc |-> FALSE]

Init ==
  /\ phase = "compose"
  /\ payer \in Payers
  /\ composed = <<>>
  /\ tx = NoTx
  /\ own = TRUE
  /\ il = 0
  /\ read = <<>> /\ at = "top" /\ creation = NoCreation
  /\ parsed = [nonce |-> FALSE, regions |-> <<NoRegion>>, appIndex |-> 0, appID |-> 0]
  /\ region = 1 /\ types = {} /\ refCount = 0

-----------------------------------------------------------------------------
(***************************************************************************)
(* The client.                                                             *)
(***************************************************************************)
Compose(ins) ==
  /\ phase = "compose"
  /\ Len(composed) < MaxComposed
  /\ composed' = Append(composed, ins)
  /\ UNCHANGED <<phase, payer, tx, own, il, loopVars, parsed, checkVars>>

Make ==
  /\ phase = "compose"
  /\ tx' \in NewTransaction(payer, composed)
  /\ phase' = "made"
  /\ UNCHANGED <<clientVars, loopVars, parsed, checkVars>>

SetBlockhash ==
  /\ phase = "made"
  /\ tx' = [tx EXCEPT !.blockhash = 1]
  /\ UNCHANGED <<phase, clientVars, loopVars, parsed, checkVars>>

Sign(signers) ==
  /\ phase = "made"
  /\ tx' = [tx EXCEPT !.signatures = Signed(tx, signers).signatures]
  /\ UNCHANGED <<phase, clientVars, loopVars, parsed, checkVars>>

\* Marshal by the client, Unmarshal and the first checks by the service.
Deliver ==
  /\ phase = "made"
  /\ LET got == Unmarshal(Marshal(tx))
     IN  \/ got = {} /\ phase' = "rejected" /\ UNCHANGED tx
         \/ /\ tx' \in got
            /\ phase' = IF tx'.instructions = <<>> \/ tx'.signatures = <<>> THEN "rejected" ELSE "parse"
  /\ UNCHANGED <<clientVars, loopVars, parsed, checkVars>>

\* A transaction of another program comes in: without instructions or
\* signatures, or its instructions are chosen as they are looked at.
ForeignArrives ==
  /\ phase = "compose" /\ composed = <<>>
  /\ own' = FALSE
  /\ phase' \in {"parse", "rejected"}
  /\ payer' = Subsidizer
  /\ tx' = [tx EXCEPT !.accounts = <<Subsidizer>>]
  /\ UNCHANGED <<composed, il, loopVars, parsed, checkVars>>

-----------------------------------------------------------------------------
(***************************************************************************)
(* ParseTransaction: the loop over the instructions.  Looking at one       *)
(* instruction is a step; at is "top" at the head of the loop, and names   *)
(* what a creation wants next after an increment of i inside it.           *)
(***************************************************************************)
Reject == phase' = "rejected" /\ UNCHANGED <<at, creation, parsed>>

Continue(where) == at' = where /\ UNCHANGED phase

\* An element for the last region.
Add(field, item) ==
  parsed' = [parsed EXCEPT !.regions[Len(parsed.regions)][field] = Append(@, item)]

ParseMemo(ins) ==
  /\ parsed' = [parsed EXCEPT !.regions = Append(@, [NoRegion EXCEPT !.memoData = ins.data])]
  /\ Continue("top")
  /\ UNCHANGED creation

ParseAdvanceNonce ==
  IF parsed.nonce THEN Reject
  ELSE /\ parsed' = [parsed EXCEPT !.nonce = TRUE]
       /\ Continue("top")
       /\ UNCHANGED creation

ParseSystem(ins) ==
  IF DecompileAdvanceNonce(ins) # {} THEN ParseAdvanceNonce
  ELSE \/ /\ \A c \in DecompileCreateAccount(ins) : c.owner # TokenProgram \/ c.size # AccountSize
          /\ Reject
       \/ \E c \in DecompileCreateAccount(ins) :
            /\ c.owner = TokenProgram /\ c.size = AccountSize
            /\ creation' = [funder |-> c.funder, address |-> c.address, assoc |-> FALSE]
            /\ Continue("initialize")
            /\ UNCHANGED parsed

ParseInitialize(ins) ==
  IF \E c \in DecompileInitializeAccount(ins) : c.account = creation.address
  THEN Continue("close") /\ UNCHANGED <<creation, parsed>>
  ELSE Reject

ParseAssoc(ins) ==
  \/ DecompileCreateAssociatedAccount(ins) = {} /\ Reject
  \/ \E c \in DecompileCreateAssociatedAccount(ins) :
       /\ creation' = [funder |-> c.funder, address |-> c.address, assoc |-> TRUE]
       /\ Continue("close")
       /\ UNCHANGED parsed

\* Variant: the account whose authority is set is not compared.
SetsAuthorityOfAny(ins, type) ==
  {a \in DecompileSetAuthority(ins) : a.type = type}

\* SetAuthority of the given type for the account in creation.
SetsAuthority(ins, type) ==
  {a \in DecompileSetAuthority(ins) : a.type = type /\ a.account = creation.address}

ParseClose(ins) ==
  \/ SetsAuthority(ins, CloseAccountAuthority) = {} /\ Reject
  \/ \E a \in SetsAuthority(ins, CloseAccountAuthority) :
       /\ Add("creations", [funder |-> creation.funder, address |-> creation.address,
                            assoc |-> creation.assoc, closeAuthority |-> a.new,
                            accountHolder |-> FALSE])
       /\ Continue(IF creation.assoc THEN "top" ELSE "holder")
       /\ UNCHANGED creation

ParseHolder(ins) ==
  IF SetsAuthority(ins, AccountHolder) = {} THEN Reject
  ELSE LET r == Len(parsed.regions)
           c == Len(parsed.regions[r].creations)
       IN  /\ parsed' = [parsed EXCEPT !.regions[r].creations[c].accountHolder = TRUE]
           /\ Continue("top")
           /\ UNCHANGED creation

ParseSPL(ins) ==
  CASE Command(ins) = CommandTransfer ->
         \/ (\A t \in DecompileTransfer(ins) : t.owner = tx.accounts[1]) /\ Reject
         \/ \E t \in DecompileTransfer(ins) :
              t.owner # tx.accounts[1] /\ Add("transfers", t) /\ Continue("top") /\ UNCHANGED creation
    [] Command(ins) = CommandCloseAccount ->
         \/ DecompileCloseAccount(ins) = {} /\ Reject
         \/ \E c \in DecompileCloseAccount(ins) :
              Add("closures", c) /\ Continue("top") /\ UNCHANGED creation
    [] OTHER -> Reject

ParseTop(ins) ==
  CASE ins.program = MemoProgram   -> ParseMemo(ins)
    [] ins.program = SystemProgram -> ParseSystem(ins)
    [] ins.program = AssociatedTokenAccountProgram -> ParseAssoc(ins)
    [] ins.program = TokenProgram  -> ParseSPL(ins)
    [] OTHER                       -> Reject

\* Variant: the instruction after a creation without a holder is left out.
ParseInstructionSkips(ins) ==
  /\ phase = "parse"
  /\ read' = Append(read, ins)
  /\ CASE at = "initialize" -> ParseInitialize(ins)
       [] at = "close"      -> ParseClose(ins)
       [] at = "holder" /\ DecompileSetAuthority(ins) # {} -> ParseHolder(ins)
       [] at = "holder" /\ DecompileSetAuthority(ins) = {} ->
            Continue("top") /\ UNCHANGED <<creation, parsed>>
       [] OTHER             -> ParseTop(ins)
  /\ UNCHANGED <<tx, clientVars, checkVars>>

\* The account holder is optional: an instruction that is no SetAuthority goes
\* back to the head of the loop.
ParseInstruction(ins) ==
  /\ phase = "parse"
  /\ read' = Append(read, ins)
  /\ CASE at = "initialize" -> ParseInitialize(ins)
       [] at = "close"      -> ParseClose(ins)
       [] at = "holder" /\ DecompileSetAuthority(ins) # {} -> ParseHolder(ins)
       [] OTHER             -> ParseTop(ins)
  /\ UNCHANGED <<tx, clientVars, checkVars>>

LookAt ==
  \/ own /\ Len(read) < Len(tx.instructions) /\ ParseInstruction(Resolve(tx, Len(read) + 1))
  \/ ~own /\ Len(read) < MaxForeign /\ \E ins \in Foreign : ParseInstruction(ins)

\* The instructions are used up; a creation may be incomplete.
EndOfInstructions ==
  /\ phase = "parse"
  /\ IF own THEN Len(read) = Len(tx.instructions) ELSE read # <<>>
  /\ phase' = IF at \in {"initialize", "close"} THEN "rejected" ELSE "validate"
  /\ il' \in InvoiceLists
  /\ UNCHANGED <<tx, payer, composed, own, loopVars, parsed, checkVars>>

-----------------------------------------------------------------------------
(***************************************************************************)
(* ParseTransaction: the loop over the regions.                            *)
(***************************************************************************)
ThisRegion == parsed.regions[region]

NextRegion == region' = region + 1 /\ UNCHANGED phase

RejectRegion == phase' = "rejected" /\ UNCHANGED <<parsed, checkVars>>

CloseAuthorityMatches ==
  \A c \in Range(ThisRegion.creations) : c.funder = c.closeAuthority

\* A memo that is no Kin memo may name an app.
TextMemo(appID) ==
  IF appID # 0 /\ parsed.appID \notin {0, appID} THEN RejectRegion
  ELSE /\ parsed' = IF appID = 0 THEN parsed ELSE [parsed EXCEPT !.appID = appID]
       /\ NextRegion
       /\ UNCHANGED <<types, refCount>>

\* The hash of the list: different lists have different ones.
InvoiceHash(list) == [k \in 1 .. 28 |-> 64 + list]

MatchesInvoices(m) ==
  il # 0 /\ SubSeq(ForeignKey(m), 1, 28) = InvoiceHash(il) /\ ForeignKey(m)[29] = 0

\* Variant: the first app index is kept and the others are not compared.
AppIndexClashesNever(m) == FALSE

\* Another app index was found in an earlier region.
AppIndexClashes(m) == parsed.appIndex > 0 /\ AppIndex(m) # parsed.appIndex

KinMemoRegion(m) ==
  IF \/ AppIndexClashes(m)
     \/ MatchesInvoices(m) /\ Len(ThisRegion.transfers) # il
  THEN RejectRegion
  ELSE /\ parsed' = [parsed EXCEPT !.regions[region].memo = m,
                                   !.appIndex = IF @ = 0 THEN AppIndex(m) ELSE @]
       /\ types' = types \cup {TransactionType(m)}
       /\ refCount' = IF MatchesInvoices(m) THEN refCount + 1 ELSE refCount
       /\ NextRegion

ValidateRegion ==
  /\ phase = "validate"
  /\ region <= Len(parsed.regions)
  /\ LET data == ThisRegion.memoData
         text == MemoText(data)
     IN  CASE ~CloseAuthorityMatches -> RejectRegion
           [] CloseAuthorityMatches /\ data = <<>> ->
                NextRegion /\ UNCHANGED <<parsed, types, refCount>>
           [] OTHER ->
                IF IsBase64(text) /\ IsValidMemo(MemoFromBase64String(text))
                THEN KinMemoRegion(MemoFromBase64String(text))
                ELSE TextMemo(AppIDFromTextMemo(text))
  /\ UNCHANGED <<tx, clientVars, loopVars>>

Finish ==
  /\ phase = "validate"
  /\ region > Len(parsed.regions)
  /\ phase' = IF \/ Earn \in types /\ types \cap {Spend, P2P} # {}
                 \/ il # 0 /\ refCount # 1
              THEN "rejected" ELSE "accepted"
  /\ UNCHANGED <<tx, clientVars, loopVars, parsed, checkVars>>

Next ==
  \/ \E ins \in Composed : Compose(ins)
  \/ Make \/ SetBlockhash \/ \E signers \in SignerLists : Sign(signers)
  \/ Deliver \/ ForeignArrives
  \/ LookAt \/ EndOfInstructions \/ ValidateRegion \/ Finish

Spec == Init /\ [][Next]_vars

-----------------------------------------------------------------------------
(***************************************************************************)
(* Properties.                                                             *)
(***************************************************************************)
TypeOK ==
  /\ phase \in {"compose", "made", "parse", "validate", "accepted", "rejected"}
  /\ payer \in Payers \cup {Subsidizer} /\ own \in BOOLEAN /\ il \in InvoiceLists
  /\ composed \in Seq(Composed)
  /\ Range(tx.signatures) \subseteq Nat /\ Range(tx.accounts) \subseteq Nat \ {Empty}
  /\ Len(tx.signatures) = tx.header.NumSignatures
  /\ \A i \in DOMAIN tx.instructions :
       {tx.instructions[i].program} \cup Range(tx.instructions[i].accounts)
         \subseteq 0 .. Len(tx.accounts) - 1
  /\ at \in {"top", "initialize", "close", "holder"}
  /\ parsed.nonce \in BOOLEAN /\ parsed.appIndex \in 0 .. 65535
  /\ region \in 1 .. Len(parsed.regions) + 1
  /\ types \subseteq -1 .. P2P /\ refCount \in Nat

\* The accounts that the composed instructions list under a key.
Asked(key) ==
  UNION {{instr.accounts[k] : k \in {j \in DOMAIN instr.accounts : instr.accounts[j].key = key}} :
           instr \in Range(composed)}

\* An instruction asks for rights of a program that was invoked before any listed
\* it as an account: filterUnique promotes the entry of the program, which stays
\* among the programs when the accounts are sorted.
PromotedProgram ==
  \E i \in DOMAIN composed :
    LET key == composed[i].program
    IN  /\ key # payer
        /\ \A j \in 1 .. i - 1 : \A k \in DOMAIN composed[j].accounts : composed[j].accounts[k].key # key
        /\ \E a \in Asked(key) : a.signer \/ a.writable

\* The instructions that a message asks for are the ones that were composed, and
\* unless a program is promoted the header gives every account exactly the rights
\* that the payer and the instructions together need, by the rule of the Solana
\* runtime: signers come first, and in both parts the read-only accounts last.
\* The payer is first.
RightsAreExact ==
  phase = "made" =>
    LET n == Len(tx.accounts)
        signed == tx.header.NumSignatures
        IsSigner(k) == k <= signed
        IsWritable(k) == IF IsSigner(k) THEN k <= signed - tx.header.NumReadonlySigned
                         ELSE k <= n - tx.header.NumReadOnly
        Named(k) == IF k = 1 THEN payer ELSE tx.accounts[k]
    IN  /\ Named(1) \in {tx.accounts[1], Empty}
        /\ ~PromotedProgram => \A k \in 1 .. n :
             /\ IsSigner(k) <=> k = 1 \/ \E a \in Asked(Named(k)) : a.signer
             /\ IsWritable(k) <=> k = 1 \/ \E a \in Asked(Named(k)) : a.writable
        /\ \A i \in DOMAIN composed : Resolve(tx, i) =
             [composed[i] EXCEPT !.accounts = [k \in DOMAIN @ |-> IF @[k].key = Empty THEN Zero
                                                                  ELSE @[k].key]]

\* "All signers are before non-signers", as NewTransaction says of its sort: an
\* account that an instruction wants as a signer is among those that the header
\* counts as signers.
SignersFirst ==
  phase = "made" =>
    \A k \in 2 .. Len(tx.accounts) :
      (\E a \in Asked(tx.accounts[k]) : a.signer) => k <= tx.header.NumSignatures

\* A signature is only ever in the slot of the account that made it, whatever the
\* order and the failures of Sign calls.
SignaturesInPlace ==
  \A k \in DOMAIN tx.signatures :
    tx.signatures[k] # 0 =>
      \E bh \in 0 .. 1 : tx.signatures[k] = SignatureOf(tx.accounts[k], [tx EXCEPT !.blockhash = bh])

\* Every length of the transaction can be written.
LengthsFit ==
  /\ \A len \in {Len(tx.signatures), Len(tx.accounts), Len(tx.instructions)} : len <= MaxUint16
  /\ \A ins \in Range(tx.instructions) : Len(ins.accounts) <= MaxUint16 /\ Len(ins.data) <= MaxUint16

\* What Marshal writes Unmarshal reads back if no length is too great, and never
\* otherwise, for the length is left out.  Unmarshal takes no part of an encoding
\* for the whole: no proper prefix of it can be read (looked at before the
\* blockhash and the signatures are filled in, which does not change its length).
EncodingFaithful ==
  phase = "made" =>
    LET b == Marshal(tx)
    IN  /\ Unmarshal(b) = {tx} <=> LengthsFit
        /\ LengthsFit /\ tx.blockhash = 0 /\ Range(tx.signatures) \subseteq {0} =>
             \A n \in 0 .. Len(b) - 1 : Unmarshal(SubSeq(b, 1, n)) = {}

\* The address an instruction creates, and who pays for it.
CreatedBy(ins) ==
  {<<c.address, c.funder>> : c \in DecompileCreateAccount(ins)}
  \cup {<<c.address, c.funder>> : c \in DecompileCreateAssociatedAccount(ins)}

\* In an accepted transaction an authority is set only of an account that the
\* transaction has just created, only the authority to close it or to hold it,
\* and the one to close it goes to who paid for it.
AuthorityOnlyOnCreated ==
  phase = "accepted" =>
    \A i \in DOMAIN read : \A a \in DecompileSetAuthority(read[i]) :
      \E j \in 1 .. i - 1 : \E funder \in {c[2] : c \in {c \in CreatedBy(read[j]) : c[1] = a.account}} :
        /\ a.type = AccountHolder \/ (a.type = CloseAccountAuthority /\ a.new = funder)
        /\ \A k \in j + 1 .. i - 1 :
             DecompileInitializeAccount(read[k]) # {} \/ DecompileSetAuthority(read[k]) # {}

\* The instructions that a region stands for, its memo apart.
Items(r) ==
  Len(r.transfers) + Len(r.closures)
  + FoldLeft(LAMBDA n, c : n + (IF c.assoc THEN 2 ELSE IF c.accountHolder THEN 4 ELSE 3), 0,
             r.creations)

\* Every instruction of an accepted transaction is accounted for once in the
\* result, and the transfers are there in their order.
NothingSkipped ==
  phase = "accepted" =>
    /\ Len(read) = (IF parsed.nonce THEN 1 ELSE 0) + Len(parsed.regions) - 1
                   + FoldLeft(LAMBDA n, r : n + Items(r), 0, parsed.regions)
    /\ LET transfers == SelectSeq(read, LAMBDA ins : DecompileTransfer(ins) # {})
       IN  FlattenSeq([r \in DOMAIN parsed.regions |-> parsed.regions[r].transfers])
             = [i \in DOMAIN transfers |-> CHOOSE t \in DecompileTransfer(transfers[i]) : TRUE]

\* The memos of the transaction.
Texts == {MemoText(ins.data) : ins \in {ins \in Range(read) : ins.program = MemoProgram
                                                           /\ ins.data # <<>>}}
KinTexts == {text \in Texts : IsBase64(text)}

\* A memo with the hash of the invoice list as its foreign key.
Refers(ins) ==
  /\ ins.program = MemoProgram /\ ins.data # <<>>
  /\ IsBase64(MemoText(ins.data))
  /\ MemoText(ins.data).foreignKey \in {InvoiceHash(il), InvoiceHash(il) \o <<0>>}

\* An accepted transaction names at most one app index and one app ID in all its
\* memos, these are the ones returned, and it does not mix earns with spends or
\* payments between persons.  An invoice list that is given belongs to exactly one
\* memo, and to as many transfers as it has invoices, which stand between that
\* memo and the next.
MemosAgree ==
  phase = "accepted" =>
    /\ {text.appIndex : text \in KinTexts} \subseteq {0, parsed.appIndex}
    /\ {text.appID : text \in Texts \ KinTexts} \subseteq {0, parsed.appID}
    /\ ~({Earn} \subseteq {text.type : text \in KinTexts}
         /\ \E text \in KinTexts : text.type \in {Spend, P2P})
    /\ il # 0 => \E i \in DOMAIN read :
         /\ {j \in DOMAIN read : Refers(read[j])} = {i}
         /\ ExistsBijection(1 .. il, {j \in i + 1 .. Len(read) :
              /\ DecompileTransfer(read[j]) # {}
              /\ \A k \in i + 1 .. j : read[k].program # MemoProgram})
=============================================================================
