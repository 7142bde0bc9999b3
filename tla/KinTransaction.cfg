\* A client's transaction of up to two instructions, and others of up to four.
SPECIFICATION Spec
CONSTANTS
  MaxUint16 = 130
  Payers <- MCPayers
  Composed <- MCComposed
  MaxComposed = 2
  SignerLists <- MCSignerLists
  Foreign <- MCForeign
  MaxForeign = 4
  Subsidizer <- sub
  MemoData <- MCMemoData
  InvoiceLists <- MCInvoiceLists
INVARIANTS
  RightsAreExact
  SignaturesInPlace
  EncodingFaithful
  AuthorityOnlyOnCreated
  NothingSkipped
  MemosAgree
\* Parsing ends.
CHECK_DEADLOCK FALSE
