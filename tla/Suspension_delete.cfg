CONSTANTS
  Threads = {main, t1}
  MainThread = main
  GCThread = gc
  StwThreads = {}
  ExitThreads = {main, t1}
  Nobody = Nobody
  MaxRounds = 1
SPECIFICATION Spec
INVARIANT NotDeletedWhileAccessed
CHECK_DEADLOCK FALSE
