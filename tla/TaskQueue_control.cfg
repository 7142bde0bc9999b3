\* Start, Pause and Shutdown from two callers, against two workers, under the
\* scheduler's fairness; the processor starts paused.  Progress of an accepted task
\* is asked of the behaviours in which SQS and the handler work as well.
SPECIFICATION FairSpec
CONSTANTS
  None = None
  Workers = {w1, w2}
  Tasks = {t1}
  Malformed = {}
  Callers = {c1, c2}
  PausedStart = TRUE
  VisibilityExtensionEnabled = FALSE
  MaxVisibilityExtensions = 1
  MayCrash = FALSE
INVARIANTS
  PausedMeansNotPolling
  UnlockOnlyLocked
PROPERTIES
  PauseReturns
  ShutdownStopsWorkers
  AcceptedTaskDone
