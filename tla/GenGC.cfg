CONSTANTS
  NumTenured = 4
  NumYoung = 2
  CardSize = 2
  MoveReserve = 2
  Threads = {m1, m2}
  HeapThreads = {m1}
  Regs = {r1, r2}
  Strings = {"s"}
  MaxChain = 1
  MaxOps = 4
SYMMETRY RegSymmetry
SPECIFICATION Spec
INVARIANTS NoDanglingReference InternedOnce GarbageCollected
