CONSTANTS
  Threads = {t1, t2}
  NoThread = NoThread
  Waiters = {t1, t2}
  Hashers = {t2}
  Interruptible = {t1}
  Hashes = {h1, h2}
  NoHash = NoHash
  LightLockMax = 3
  MaxMonitorId = 3
  MaxDepth = 2
SPECIFICATION FairSpec
INVARIANT HashStable
PROPERTIES RefinesMonitor NoStuckCall
