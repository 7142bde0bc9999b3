\* The constants of Library.cfg.  As in Go, the most digits before the point make
\* more quarks than an int64 holds.
CONSTANTS
  BatchLimit = 2
  MaxLen = 5
  MaxSubmits = 2
  Workers = {w1, w2, w3}
  VisibilityTimeout = 12
  TicksPerSecond = 4
  Latency = 1
  VisibilityExtensionEnabled = TRUE
  MaxVisibilityExtensions = 3
  None = None
  Callers = {c1, c2}
  MaxGets = 3
  MaxChanges = 2
  Width = 10
  Errors = {unavailable, invalid}
  Listed = {unavailable}
  Limits = {0, 1, 3}
  MaxStrategies = 3
  BaseDelays = {3, 360}
  Precision = 8
  MaxBackoffs = {50, 511}
  Jitter = 10
  MaxCalls = 5
  Goroutines = {g1, g2}
  Contexts = {k1, k2}
  TagCounts = {0, 2, 3}
  MaxOps = 2
  MaxRounds = 2
  Global = Global
  NoCell = NoCell
  Second = 6
  Millisecond = 3
  Minute = 2
  Hour = 4
  Day = 12
  MinTimestampSeconds <- MCMinTimestampSeconds
  MaxTimestampSeconds = 100
  UnixBound = 140
  NanoYear = 80
  KinDigits = 1
  QuarkDigits = 2
  MinFund = 1
  MaxQuarks = 400
  Inputs <- MCInputs
SPECIFICATION LibrarySpec
INVARIANT
  Represented
CHECK_DEADLOCK FALSE
