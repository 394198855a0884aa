SPECIFICATION MCSpec
CONSTANTS
  Worker = {w1, w2}
  Interval = {1, 2}
  MaxTime = 3
  MaxFailures = 1
  MaxErrors = 1
  MaxCrashes = 1
  None = None
  MigrationWorker = {w1, w2}
  MaxVersion = 3
  NoMigration = NoMigration
  MaxJournalErrors = 3
  MaxJournalCrashes = 2
  Client = {"a", "b", "c"}
  Foreign = {"c"}
  Requests <- MCRequests
  MaxSocketErrors = 1
  NoClient = NoClient
  MaxEvents = 4
  MaxLogFaults = 3
INVARIANTS SocketServes LogKept
PROPERTIES ScrubsSafe ScrubsHappen MigrationSafe MigrationCompletes JobsServed
CHECK_DEADLOCK FALSE
