-------------------------- MODULE MCKinTransaction --------------------------
(***************************************************************************)
(* Keys, memos and instructions for TLC.  What is composed is there to mix *)
(* the rights of accounts; what comes from elsewhere has an instruction of *)
(* every kind that is parsed, with its plausible errors.                   *)
(***************************************************************************)
EXTENDS KinTransaction

sub   == 10
owner == 11
alice == 12
bob   == 13
mint  == 14
other == 15

Keys(ins) == [ins EXCEPT !.accounts = [k \in DOMAIN @ |-> @[k].key]]

Kin(type, appIndex, foreignKey) ==
  [version |-> 1, type |-> type, appIndex |-> appIndex, foreignKey |-> foreignKey, appID |-> 0]
Text(appID) == [version |-> -1, type |-> 0, appIndex |-> 0, foreignKey |-> <<>>, appID |-> appID]

MCMemoData ==
  <<Kin(Earn, 1, InvoiceHash(1)), Kin(Earn, 0, InvoiceHash(2) \o <<0>>),
    Kin(Spend, 1, InvoiceHash(1) \o <<1>>), Kin(Spend + 16, 16385, <<>>), Text(0), Text(1), Text(2)>>

MCPayers == {sub, Empty}

MCComposed ==
  {Memo(<<5>>), Memo(<<1>> \o [k \in 1 .. 129 |-> 0]), Memo(<<1>> \o [k \in 1 .. 130 |-> 0]),
   CreateAccount(sub, other, TokenProgram, 1, AccountSize),
   NewInstruction(other, <<>>, <<NewReadonlyAccountMeta(bob, FALSE)>>),
   CreateAccount(sub, alice, TokenProgram, 1, AccountSize), InitializeAccount(alice, mint, owner),
   SetAuthority(alice, owner, sub, CloseAccountAuthority), AdvanceNonce(bob, owner),
   CreateAssociatedTokenAccount(sub, owner, mint), Transfer(alice, bob, owner, 1),
   TransferMultisig(alice, bob, other, 1, <<sub, owner>>), CloseAccount(alice, sub, owner)}

MCSignerLists == {<<sub>>, <<owner, sub>>, <<alice, mint, owner>>}

MCForeign ==
  {Keys(ins) : ins \in
    {Memo(<<k>>) : k \in DOMAIN MCMemoData} \cup
    {Memo(<<>>), AdvanceNonce(bob, owner), CreateAccount(sub, alice, TokenProgram, 1, AccountSize),
     CreateAccount(sub, alice, TokenProgram, 1, 1), InitializeAccount(alice, mint, owner),
     InitializeAccount(bob, mint, owner), InitializeMultisig(alice, 1, <<owner>>),
     CreateAssociatedTokenAccount(sub, owner, mint),
     SetAuthority(alice, owner, sub, CloseAccountAuthority),
     SetAuthority(alice, owner, owner, CloseAccountAuthority),
     SetAuthority(alice, owner, bob, AccountHolder), SetAuthority(bob, owner, bob, AccountHolder),
     SetAuthorityMultisig(GetAssociatedAccount(owner, mint), owner, sub, CloseAccountAuthority,
                          <<alice>>),
     SetAuthority(alice, owner, Empty, CloseAccountAuthority),
     Transfer(alice, bob, owner, 1), Transfer(alice, bob, sub, 1),
     Transfer2(alice, mint, bob, owner, 1, 5), CloseAccount(alice, sub, owner),
     NewInstruction(other, <<>>, <<>>)}}

MCInvoiceLists == 0 .. 2
=============================================================================
