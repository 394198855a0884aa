SPECIFICATION FairSpec
CONSTANTS
  JobId <- MCJobId
  Kind <- MCKind
  Worker = {w1, w2}
  Serves <- MCServes
  None = None
  MaxAttempts = 2
  MaxErrors = 2
  MaxCrashes = 1
INVARIANT AcknowledgedKept
PROPERTIES OneRunPerAttempt QueuedRuns
CHECK_DEADLOCK FALSE
