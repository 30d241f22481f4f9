CONSTANTS
  Threads = {t1, t2, t3}
  NoThread = NoThread
  recursive_mutex_ = FALSE
  MaxRecursion = 1
  SpinTries = 1
  MaxSignals = 2
SPECIFICATION CvSpec
SYMMETRY Symmetry
INVARIANTS CvWaitersExact CvNoLostWakeup
PROPERTY SignalsDelivered
