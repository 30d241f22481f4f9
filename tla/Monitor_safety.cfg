CONSTANTS
  Threads = {t1, t2, t3}
  NoThread = NoThread
  Waiters = {t1, t2, t3}
  Hashers = {}
  Interruptible = {}
  Hashes = {h1}
  NoHash = NoHash
  LightLockMax = 2
  MaxMonitorId = 4
  MaxDepth = 2
SPECIFICATION Spec
SYMMETRY Symmetry
INVARIANTS LevelsKept NoStaleMonitor ListsExact WakeupChain
