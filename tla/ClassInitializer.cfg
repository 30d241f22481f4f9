CONSTANTS
  Threads = {t1, t2, t3}
  B = B
  S = S
  I = I
  J = J
  Classes <- MCClasses
  Interfaces <- MCInterfaces
  DefaultMethods <- MCDefaultMethods
  Base <- MCBase
  IfacesOf <- MCIfacesOf
  Entries <- MCEntries
  Uses <- MCUses
  Unverifiable = {J}
  StaleThreads = {t3}
  MaxCalls = 1
  NoClass = NoClass
  NoThread = NoThread
SPECIFICATION FairSpec
INVARIANTS CctorRunsOnce DependenciesFirst AbortsOnlyAfterSpoiling FailureThrows
PROPERTY CallsReturn
CHECK_DEADLOCK FALSE
