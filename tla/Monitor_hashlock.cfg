CONSTANTS
  Threads = {t1, t2}
  NoThread = NoThread
  Waiters = {}
  Hashers = {t2}
  Interruptible = {}
  Hashes = {h1}
  NoHash = NoHash
  LightLockMax = 2
  MaxMonitorId = 3
  MaxDepth = 1
SPECIFICATION Spec
INVARIANT HashTakesNoLock
