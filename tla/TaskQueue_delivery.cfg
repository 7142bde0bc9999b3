\* Delivery of tasks: two workers, one task of ours and one message that does
\* not decode, extensions on, shutdown and crashes possible.
SPECIFICATION Spec
CONSTANTS
  None = None
  Workers = {w1, w2}
  Tasks = {t1, bad}
  Malformed = {bad}
  Callers = {c1}
  PausedStart = FALSE
  VisibilityExtensionEnabled = TRUE
  MaxVisibilityExtensions = 2
  MayCrash = TRUE
SYMMETRY Symmetry
INVARIANTS
  NoTaskLost
PROPERTY
  ImplementsAtLeastOnce
