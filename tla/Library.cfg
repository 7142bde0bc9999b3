\* SubmitBatch with batches of every length up to two slices and a half.  A timer
\* of 8 ticks while SQS hides a message for 12: 8 + 3 < 12.  Every typed config over
\* every source, for two goroutines.  Retry and Loop with every sequence of up to
\* three strategies: with ten bits the products of the base delay 360 wrap around at
\* the second attempt, and are positive again at the third.  Metrics with two
\* goroutines and the poller.  All the arguments of the conversions, or those at
\* the limits.
CONSTANTS
  BatchLimit = 2
  MaxLen = 5
  MaxSubmits = 2
  Workers = {w1, w2, w3}
  VisibilityTimeout = 12
  TicksPerSecond = 4
  Latency = 1
  VisibilityExtensionEnabled = TRUE
  MaxVisibilityExtensions = 3
  None = None
  Callers = {c1, c2}
  MaxGets = 3
  MaxChanges = 2
  Width = 10
  Errors = {unavailable, invalid}
  Listed = {unavailable}
  Limits = {0, 1, 3}
  MaxStrategies = 3
  BaseDelays = {3, 360}
  Precision = 8
  MaxBackoffs = {50, 511}
  Jitter = 10
  MaxCalls = 5
  Goroutines = {g1, g2}
  Contexts = {k1, k2}
  TagCounts = {0, 2, 3}
  MaxOps = 2
  MaxRounds = 2
  Global = Global
  NoCell = NoCell
  Second = 6
  Millisecond = 3
  Minute = 2
  Hour = 4
  Day = 12
  MinTimestampSeconds <- MCMinTimestampSeconds
  MaxTimestampSeconds = 100
  UnixBound = 140
  NanoYear = 80
  KinDigits = 1
  QuarkDigits = 2
  MinFund = 1
  MaxQuarks = 400
  Inputs <- MCInputs
SPECIFICATION LibrarySpec
INVARIANTS
  AllOrNothingMarshalled
  SentOncePerCall
  CallsInTime
  OneHandlerAtATime
  LastKnownValue
  OnlyConvertedValues
  AllStrategiesAgree
  SleepsAsDocumented
  RecordsKept
  PolledOnce
  TimesExact
  NumbersExact
\* Calls return, and the calls of a caller, an action and a goroutine are bounded.
CHECK_DEADLOCK FALSE
