CONSTANTS
  Messages = {m1}
  Payloads = {p1}
  Empty = Empty
  Absent = Absent
  VersionTexts = {3, 7, NotANumber}
  NotANumber = NotANumber
  OneAtATime = TRUE
  MaxCalls = 2
  MaxSets = 2
SPECIFICATION Spec
INVARIANTS
  VersionArrives
  PanicsOnlyOnEmptyHeader
  RepliesChecked
PROPERTY
  ImplementsPropagation
\* A tree of calls ends.
CHECK_DEADLOCK FALSE
