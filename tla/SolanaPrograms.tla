--------------------------- MODULE SolanaPrograms ---------------------------
(***************************************************************************)
(* The builders and decompilers of solana/system, solana/token and         *)
(* solana/memo.  The data of an instruction is a sequence of fields, one   *)
(* unit each; a decompiler gets an instruction with keys for its accounts, *)
(* as Resolve yields it.                                                   *)
(***************************************************************************)
EXTENDS SolanaTransaction

(***************************************************************************)
(* The programs: builders.                                                 *)
(***************************************************************************)
SystemProgram == Zero
TokenProgram  == 1
AssociatedTokenAccountProgram == 2
MemoProgram   == 3
RentSysVar    == 4
RecentBlockhashesSysVar == 5

CommandCreateAccount     == 0
CommandAdvanceNonce      == 4
CommandInitializeAccount == 1
CommandInitializeMultisig == 2
CommandTransfer          == 3
CommandSetAuthority      == 6
CommandCloseAccount      == 9
CommandTransfer2         == 12
AccountHolder == 2
CloseAccountAuthority == 3
AccountSize == 165

CreateAccount(funder, address, owner, lamports, size) ==
  NewInstruction(SystemProgram, <<CommandCreateAccount, lamports, size, owner>>,
    <<NewAccountMeta(funder, TRUE), NewAccountMeta(address, TRUE)>>)

AdvanceNonce(account, authority) ==
  NewInstruction(SystemProgram, <<CommandAdvanceNonce>>,
    <<NewAccountMeta(account, TRUE), NewReadonlyAccountMeta(RecentBlockhashesSysVar, FALSE),
      NewReadonlyAccountMeta(authority, TRUE)>>)

InitializeAccount(account, mint, owner) ==
  NewInstruction(TokenProgram, <<CommandInitializeAccount>>,
    <<NewAccountMeta(account, TRUE), NewReadonlyAccountMeta(mint, FALSE),
      NewReadonlyAccountMeta(owner, FALSE), NewReadonlyAccountMeta(RentSysVar, FALSE)>>)

\* The accounts of a multisignature owner and its signers.
Multisig(owner, signers) ==
  <<NewReadonlyAccountMeta(owner, FALSE)>>
  \o [k \in DOMAIN signers |-> NewReadonlyAccountMeta(signers[k], TRUE)]

InitializeMultisig(account, requiredSigners, signers) ==
  NewInstruction(TokenProgram, <<CommandInitializeMultisig, requiredSigners>>,
    <<NewAccountMeta(account, FALSE), NewReadonlyAccountMeta(RentSysVar, FALSE)>>
    \o [k \in DOMAIN signers |-> NewReadonlyAccountMeta(signers[k], FALSE)])

SetAuthorityData(newAuthority, type) ==
  IF newAuthority = Empty THEN <<CommandSetAuthority, type, 0>>
  ELSE <<CommandSetAuthority, type, 1, newAuthority>>

SetAuthority(account, currentAuthority, newAuthority, type) ==
  NewInstruction(TokenProgram, SetAuthorityData(newAuthority, type),
    <<NewAccountMeta(account, FALSE), NewReadonlyAccountMeta(currentAuthority, TRUE)>>)

SetAuthorityMultisig(account, multisigOwner, newAuthority, type, signers) ==
  NewInstruction(TokenProgram, SetAuthorityData(newAuthority, type),
    <<NewAccountMeta(account, FALSE)>> \o Multisig(multisigOwner, signers))

Transfer(source, dest, owner, amount) ==
  NewInstruction(TokenProgram, <<CommandTransfer, amount>>,
    <<NewAccountMeta(source, FALSE), NewAccountMeta(dest, FALSE),
      NewReadonlyAccountMeta(owner, TRUE)>>)

TransferMultisig(source, dest, multisigOwner, amount, signers) ==
  NewInstruction(TokenProgram, <<CommandTransfer, amount>>,
    <<NewAccountMeta(source, FALSE), NewAccountMeta(dest, FALSE)>>
    \o Multisig(multisigOwner, signers))

Transfer2(source, mint, dest, owner, amount, decimals) ==
  NewInstruction(TokenProgram, <<CommandTransfer2, amount, decimals>>,
    <<NewAccountMeta(source, FALSE), NewReadonlyAccountMeta(mint, FALSE),
      NewAccountMeta(dest, FALSE), NewReadonlyAccountMeta(owner, TRUE)>>)

CloseAccount(account, dest, owner) ==
  NewInstruction(TokenProgram, <<CommandCloseAccount>>,
    <<NewAccountMeta(account, FALSE), NewAccountMeta(dest, FALSE),
      NewReadonlyAccountMeta(owner, TRUE)>>)

\* The derived address of a wallet; wallets here are below 50.
GetAssociatedAccount(wallet, mint) == 50 + wallet

CreateAssociatedTokenAccount(subsidizer, wallet, mint) ==
  NewInstruction(AssociatedTokenAccountProgram, <<>>,
    <<NewAccountMeta(subsidizer, TRUE), NewAccountMeta(GetAssociatedAccount(wallet, mint), FALSE),
      NewReadonlyAccountMeta(wallet, FALSE), NewReadonlyAccountMeta(mint, FALSE),
      NewReadonlyAccountMeta(SystemProgram, FALSE), NewReadonlyAccountMeta(TokenProgram, FALSE),
      NewReadonlyAccountMeta(RentSysVar, FALSE)>>)

Memo(data) == NewInstruction(MemoProgram, data, <<>>)

-----------------------------------------------------------------------------
(***************************************************************************)
(* The programs: decompilers.  Each yields the set of what it returns,     *)
(* empty on an error.                                                      *)
(***************************************************************************)
Command(ins) == IF ins.data = <<>> THEN 255 ELSE ins.data[1]

DecompileCreateAccount(ins) ==
  IF ins.program = SystemProgram /\ Command(ins) = CommandCreateAccount
     /\ Len(ins.accounts) = 2 /\ Len(ins.data) = 4
  THEN {[funder |-> ins.accounts[1], address |-> ins.accounts[2], size |-> ins.data[3],
         owner |-> ins.data[4]]}
  ELSE {}

DecompileAdvanceNonce(ins) ==
  IF ins.program = SystemProgram /\ ins.data = <<CommandAdvanceNonce>>
     /\ Len(ins.accounts) = 3 /\ ins.accounts[2] = RecentBlockhashesSysVar
  THEN {[account |-> ins.accounts[1], authority |-> ins.accounts[3]]}
  ELSE {}

DecompileInitializeAccount(ins) ==
  IF ins.program = TokenProgram /\ ins.data = <<CommandInitializeAccount>>
     /\ Len(ins.accounts) = 4 /\ ins.accounts[4] = RentSysVar
  THEN {[account |-> ins.accounts[1], mint |-> ins.accounts[2], owner |-> ins.accounts[3]]}
  ELSE {}

DecompileCreateAssociatedAccount(ins) ==
  IF ins.program = AssociatedTokenAccountProgram /\ ins.data = <<>> /\ Len(ins.accounts) = 7
     /\ SubSeq(ins.accounts, 5, 7) = <<SystemProgram, TokenProgram, RentSysVar>>
  THEN {[funder |-> ins.accounts[1], address |-> ins.accounts[2], owner |-> ins.accounts[3],
         mint |-> ins.accounts[4]]}
  ELSE {}

DecompileSetAuthority(ins) ==
  IF ins.program = TokenProgram /\ Command(ins) = CommandSetAuthority
     /\ Len(ins.accounts) >= 2 /\ Len(ins.data) >= 3
     /\ (ins.data[3] = 0 => Len(ins.data) = 3) /\ (ins.data[3] = 1 => Len(ins.data) = 4)
  THEN {[account |-> ins.accounts[1], current |-> ins.accounts[2], type |-> ins.data[2],
         new |-> IF ins.data[3] = 1 THEN ins.data[4] ELSE Empty]}
  ELSE {}

DecompileTransfer(ins) ==
  IF ins.program = TokenProgram /\ Command(ins) = CommandTransfer
     /\ Len(ins.accounts) >= 3 /\ Len(ins.data) = 2
  THEN {[source |-> ins.accounts[1], dest |-> ins.accounts[2], owner |-> ins.accounts[3],
         amount |-> ins.data[2]]}
  ELSE {}

DecompileCloseAccount(ins) ==
  IF ins.program = TokenProgram /\ ins.data = <<CommandCloseAccount>> /\ Len(ins.accounts) >= 3
  THEN {[account |-> ins.accounts[1], dest |-> ins.accounts[2], owner |-> ins.accounts[3]]}
  ELSE {}
=============================================================================
