CONSTANTS
  Threads = {t1, t2, t3}
  NoThread = NoThread
  recursive_mutex_ = TRUE
  MaxRecursion = 2
  SpinTries = 1
SPECIFICATION FairSpec
INVARIANTS MutualExclusion CodeAssertions WaitersExact NoLostWakeup
PROPERTIES RefinesLock NoStuckLock
