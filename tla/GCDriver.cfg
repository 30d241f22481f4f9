CONSTANTS
  Mutators = {m1, m2}
  Main = main
  GCThread = gc
  Nobody = Nobody
  MaxRequests = 1
  MaxForks = 1
  MaxScopes = 1
SPECIFICATION FairSpec
INVARIANTS OneCollector RequestCovered TriggersOffForATask
PROPERTIES ServiceProgress StartupEnds
CHECK_DEADLOCK FALSE
