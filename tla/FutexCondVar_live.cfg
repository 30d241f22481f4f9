CONSTANTS
  Threads = {t1, t2}
  NoThread = NoThread
  recursive_mutex_ = TRUE
  MaxRecursion = 2
  SpinTries = 2
  MaxSignals = 3
SPECIFICATION CvFairSpec
INVARIANT CvMutualExclusion
PROPERTY SignalledReturns
