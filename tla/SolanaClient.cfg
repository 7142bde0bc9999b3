CONSTANTS
  RetryLimit = 3
  PollLimit = 4
  RawErrors <- MCRawErrors
  ErrorData <- MCErrorData
  Answers <- MCAnswers
  ExactFloat = 8
  Escapes <- MCEscapes
  ProgramKey <- MCProgramKey
  Token <- MCTokenKey
  MaxBump = 4
  MaxSeeds = 2
  Callers = {c1, c2, c3}
  Windows = {2, 3}
  MaxWindow = 3
  Latency = 2
  MaxTime = 6
  None = None
SPECIFICATION FairClientSpec
INVARIANTS
  CommitmentReached
  NoFalseSuccess
  ErrorsSurviveJSON
  FreshEnough
  QueriesFaithful
  TokenAccountChecked
PROPERTY CallsReturn
