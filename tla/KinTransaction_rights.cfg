\* Two instructions: one wants a program as a signer that the other invokes.
SPECIFICATION Spec
CONSTANTS
  MaxUint16 = 130
  Payers <- MCPayers
  Composed <- MCComposed
  MaxComposed = 2
  SignerLists <- MCSignerLists
  Foreign <- MCForeign
  MaxForeign = 4
  Subsidizer <- sub
  MemoData <- MCMemoData
  InvoiceLists <- MCInvoiceLists
INVARIANT SignersFirst
CHECK_DEADLOCK FALSE
