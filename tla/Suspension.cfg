CONSTANTS
  Threads = {main, t1}
  MainThread = main
  GCThread = gc
  StwThreads = {t1}
  ExitThreads = {main, t1}
  Nobody = Nobody
  MaxRounds = 3
SPECIFICATION FairSpec
INVARIANTS SuspensionsCounted WorldStopped OwnerStaysSuspended SuspendedNotDeleted
PROPERTIES SafepointReached OperationsComplete
CHECK_DEADLOCK FALSE
