--------------------------- MODULE FutexCondVarProofs ---------------------------
(***************************************************************************)
(* Proofs about FutexCondVar, for every set of threads, recursive or not,  *)
(* and any number of signals.                                              *)
(*                                                                         *)
(* CvInv is the inductive invariant.  Its mutex part (Holding) and the     *)
(* bookkeeping of the mutex's own steps come from FutexMutexProofs; what   *)
(* the condition variable adds is where a thread inside Wait is in the     *)
(* mutex's code (PositionInv), the recursion count it has set aside        *)
(* (RestoreInv), which of the kernel's two queues a sleeper is in          *)
(* (QueueInv), and what the waiters know of cond_ (SignalInv).             *)
(***************************************************************************)
EXTENDS FutexCondVar, FutexMutexProofs

\* Where a thread inside Wait or SignalCount is in the mutex's code.
PositionInv ==
  \A t \in Threads :
    /\ cvpc[t] \in {"register", "count", "cond", "unlock", "deregister"} => pc[t] = "in"
    /\ cvpc[t] = "futex" => pc[t] \in UnlockPcs \cup {"wake", "out"}
    /\ cvpc[t] \in {"sleep", "relock"} => pc[t] = "out"
    /\ cvpc[t] = "locking" => pc[t] \in LockPcs \cup {"own", "in"}
    /\ cvpc[t] # "none" => mutex_ptr_ /\ sigpc[t] = "none"
    /\ sigpc[t] # "none" => pc[t] \in {"in", "out"}

\* The recursion count that Wait has set aside can be restored, and the one it has
\* put in its place makes its Unlock release the mutex; a waiter that leaves has
\* its count back.
RestoreInv ==
  \A t \in Threads :
    /\ cvpc[t] = "unlock" => recursive_count_ = 1
    /\ cvpc[t] = "deregister" => recursive_count_ = old_count[t]
    /\ cvpc[t] \in {"unlock", "futex", "sleep", "relock", "locking"} =>
         /\ old_count[t] > 0
         /\ ~recursive_mutex_ => old_count[t] <= 1

\* Who is in the kernel's two queues; nobody is in both.
QueueInv ==
  /\ \A t \in futexQ : pc[t] = "sleep" \/ cvpc[t] = "sleep"
  /\ \A t \in condQ : cvpc[t] = "sleep" /\ t \notin futexQ

Adding == {u \in Threads : sigpc[u] = "add"}

\* A waiter's copy of cond_ is never ahead of it, and is behind it for a waiter that
\* a signal, about to make its futex call, had found awake.
SignalInv ==
  /\ cond_ + Cardinality(Adding) <= MaxSignals
  /\ \A t \in Threads : cur_cond[t] <= cond_
  /\ \A u \in Threads : sigpc[u] = "op" =>
       \A t \in seen[u] : cvpc[t] \in {"unlock", "futex"} => cur_cond[t] < cond_

CvInv ==
  /\ CvTypeOK /\ Holding /\ PositionInv /\ RestoreInv /\ QueueInv
  /\ SignalInv /\ CvWaitersExact /\ CvNoLostWakeup

USE DEF Words, Unlocked, WaitingPcs, LockPcs, TryPcs, UnlockPcs, HolderPcs, Pcs, IsHeld,
        WaitPcs

-----------------------------------------------------------------------------
(* The steps, by what they do to the mutex. *)

\* A call or a step of the mutex alone: the condition variable is not involved.
MutexOnly(t) ==
  /\ \/ cvpc[t] = "none" /\ sigpc[t] = "none" /\ (Lock(t) \/ Unlock(t))
     \/ MutexStep(t)
  /\ UNCHANGED <<waitVars, signalVars>>

\* The steps that leave the mutex and its queue alone.
WaitOnly(t) ==
  Wait(t) \/ WaitRegister(t) \/ WaitFutex(t) \/ WaitWoken(t) \/ WaitDeregister(t)

SignalOnly(t) == Signal(t) \/ SignalAll(t) \/ SignalAddCond(t)

CvStep(t) ==
  \/ MutexOnly(t) \/ WaitUnlock(t) \/ WaitLock(t)
  \/ WaitOnly(t) \/ SignalOnly(t)
  \/ WaitIncrementWaiters(t) \/ WaitLoadCond(t) \/ WaitInterrupted(t)
  \/ WaitDecrementWaiters(t) \/ SignalFutex(t)

\* The classification loses no step.
LEMMA CvSteps == CvNext => \E t \in Threads : CvStep(t)
  BY DEF CvNext, ClientCall, CvProgress, CvCas, CvCasFail, CvStep, MutexOnly, WaitOnly,
         SignalOnly, MutexStep

\* How a step of the mutex moves its thread, and that the recursion count is the
\* holder's alone.
LEMMA MutexFlow ==
  ASSUME TypeOK, NEW t \in Threads, MutexStep(t)
  PROVE  /\ \/ pc[t] \in UnlockPcs \cup {"wake"} /\ pc'[t] \in UnlockPcs \cup {"wake", "out"}
            \/ pc[t] \in LockPcs \cup {"own"} /\ pc'[t] \in LockPcs \cup {"own", "in"}
            \/ pc[t] \in TryPcs /\ pc'[t] \in TryPcs \cup {"own", "out"}
         /\ recursive_count_' = recursive_count_ \/ pc[t] = "own"
  <1> USE DEF TypeOK
  <1>1. CASE LockLoad(t)
    BY <1>1 DEF LockLoad, Goto
  <1>2. CASE LockWaitBriefly(t)
    BY <1>2 DEF LockWaitBriefly, Goto
  <1>3. CASE LockIncrementWaiters(t)
    BY <1>3 DEF LockIncrementWaiters, IncrementWaiters, Goto
  <1>4. CASE LockFutexWait(t)
    BY <1>4 DEF LockFutexWait, FutexWait, Goto
  <1>5. CASE LockWoken(t)
    BY <1>5 DEF LockWoken, Goto
  <1>6. CASE LockReload(t)
    BY <1>6 DEF LockReload, Goto
  <1>7. CASE LockDecrementWaiters(t)
    BY <1>7 DEF LockDecrementWaiters, DecrementWaiters, Goto
  <1>8. CASE LockOwn(t)
    BY <1>8 DEF LockOwn, Goto
  <1>9. CASE TryLockFetch(t)
    BY <1>9 DEF TryLockFetch
  <1>10. CASE TryLockSpin(t)
    BY <1>10 DEF TryLockSpin, Goto
  <1>11. CASE UnlockLoad(t)
    BY <1>11 DEF UnlockLoad, Goto
  <1>12. CASE UnlockClearOwner(t)
    BY <1>12 DEF UnlockClearOwner, Goto
  <1>13. CASE UnlockWake(t)
    BY <1>13 DEF UnlockWake, FutexWakeOne, Goto
  <1>14. CASE LockCas(t)
    BY <1>14 DEF LockCas, Goto
  <1>15. CASE TryLockCas(t)
    BY <1>15 DEF TryLockCas, Goto
  <1>16. CASE UnlockCas(t)
    BY <1>16 DEF UnlockCas, Goto
  <1>17. CASE LockCasFail(t)
    BY <1>17 DEF LockCasFail, Goto
  <1>18. CASE UnlockCasFail(t)
    BY <1>18 DEF UnlockCasFail, Goto
  <1>19. CASE FutexInterrupt(t)
    BY <1>19 DEF FutexInterrupt
  <1> QED
    BY <1>1, <1>2, <1>3, <1>4, <1>5, <1>6, <1>7, <1>8, <1>9, <1>10, <1>11,
       <1>12, <1>13, <1>14, <1>15, <1>16, <1>17, <1>18, <1>19
       DEF MutexStep, Progress, Cas, CasFail

-----------------------------------------------------------------------------
(* One lemma per part of the invariant. *)

\* The mutex is held by at most one thread, waits and signals included: Wait changes
\* the recursion count of the mutex it holds, and restores it once it holds it again.
LEMMA CvHoldingStep ==
  ASSUME CvTypeOK, Holding, PositionInv, RestoreInv, MutexAssumption,
         NEW t \in Threads, CvStep(t)
  PROVE  Holding'
  <1> USE DEF CvTypeOK
  <1>1. CASE MutexOnly(t) \/ WaitUnlock(t) \/ WaitLock(t)
    BY <1>1, HoldingStep DEF MutexOnly, WaitUnlock, WaitLock, Call
  <1>2. CASE WaitOnly(t) \/ SignalOnly(t)
    <2>1. UNCHANGED mutexVars
      BY <1>2 DEF WaitOnly, SignalOnly, Wait, WaitRegister, WaitFutex, WaitWoken,
         WaitDeregister, Signal, SignalAll, SignalCount, SignalAddCond
    <2> QED BY <2>1 DEF mutexVars, Holding, MutualExclusion, Holders, CodeAssertions,
         CopyInv, CountInv
  <1> USE DEF TypeOK, Holding, MutualExclusion, Holders, CodeAssertions, CopyInv, CountInv
  <1>3. CASE WaitIncrementWaiters(t)
    BY <1>3 DEF WaitIncrementWaiters, IncrementWaiters
  <1>4. CASE WaitLoadCond(t)
    BY <1>4 DEF WaitLoadCond, CvGoto, PositionInv
  <1>5. CASE WaitInterrupted(t)
    BY <1>5 DEF WaitInterrupted
  <1>6. CASE WaitDecrementWaiters(t)
    BY <1>6 DEF WaitDecrementWaiters, DecrementWaiters, CvGoto, RestoreInv
  <1>7. CASE SignalFutex(t)
    BY <1>7 DEF SignalFutex
  <1> QED BY <1>1, <1>2, <1>3, <1>4, <1>5, <1>6, <1>7 DEF CvStep

\* A thread inside Wait or SignalCount is where the code says it is in the mutex.
LEMMA PositionStep ==
  ASSUME CvTypeOK, Holding, PositionInv, RestoreInv, MutexAssumption,
         NEW t \in Threads, CvStep(t)
  PROVE  PositionInv'
  <1> USE DEF CvTypeOK, TypeOK, PositionInv
  <1>1. CASE MutexOnly(t)
    <2>1. CASE MutexStep(t)
      <3>1. \A u \in Threads \ {t} : pc'[u] = pc[u]
        BY <2>1, QueueStep
      <3>2. UNCHANGED <<cvpc, sigpc, mutex_ptr_>>
        BY <1>1 DEF MutexOnly, waitVars, signalVars
      <3>3. \/ pc[t] \in UnlockPcs \cup {"wake"} /\ pc'[t] \in UnlockPcs \cup {"wake", "out"}
            \/ pc[t] \in LockPcs \cup {"own"} /\ pc'[t] \in LockPcs \cup {"own", "in"}
            \/ pc[t] \in TryPcs /\ pc'[t] \in TryPcs \cup {"own", "out"}
        BY <2>1, MutexFlow
      <3>4. /\ pc[t] \notin {"in", "out"}
            /\ pc[t] \in UnlockPcs \cup {"wake", "out"} => pc'[t] \in UnlockPcs \cup {"wake", "out"}
            /\ pc[t] \in LockPcs \cup {"own", "in"} => pc'[t] \in LockPcs \cup {"own", "in"}
        BY <3>3
      <3> QED BY <3>1, <3>2, <3>4
    <2>2. CASE cvpc[t] = "none" /\ sigpc[t] = "none" /\ (Lock(t) \/ Unlock(t))
      BY <1>1, <2>2 DEF MutexOnly, Lock, Unlock, Goto, waitVars, signalVars
    <2> QED BY <1>1, <2>1, <2>2 DEF MutexOnly
  <1>2. CASE WaitUnlock(t)
    BY <1>2 DEF WaitUnlock, Unlock, CvGoto, RestoreInv, signalVars
  <1>3. CASE WaitLock(t)
    BY <1>3 DEF WaitLock, Lock, Goto, CvGoto, signalVars
  <1>4. CASE WaitOnly(t)
    <2> USE DEF CvGoto, mutexVars, signalVars
    <2>1. CASE Wait(t)
      BY <2>1 DEF Wait
    <2>2. CASE WaitRegister(t)
      BY <2>2 DEF WaitRegister
    <2>3. CASE WaitFutex(t)
      BY <2>3 DEF WaitFutex
    <2>4. CASE WaitWoken(t)
      BY <2>4 DEF WaitWoken
    <2>5. CASE WaitDeregister(t)
      BY <2>5 DEF WaitDeregister
    <2> QED BY <1>4, <2>1, <2>2, <2>3, <2>4, <2>5 DEF WaitOnly
  <1>5. CASE SignalOnly(t)
    BY <1>5 DEF SignalOnly, Signal, SignalAll, SignalCount, SignalAddCond, mutexVars, waitVars
  <1>6. CASE WaitIncrementWaiters(t)
    BY <1>6 DEF WaitIncrementWaiters, CvGoto, signalVars
  <1>7. CASE WaitLoadCond(t)
    BY <1>7 DEF WaitLoadCond, CvGoto
  <1>8. CASE WaitInterrupted(t)
    BY <1>8 DEF WaitInterrupted, signalVars
  <1>9. CASE WaitDecrementWaiters(t)
    BY <1>9 DEF WaitDecrementWaiters, CvGoto, signalVars
  <1>10. CASE SignalFutex(t)
    BY <1>10 DEF SignalFutex
  <1> QED BY <1>1, <1>2, <1>3, <1>4, <1>5, <1>6, <1>7, <1>8, <1>9, <1>10 DEF CvStep

\* The recursion count that Wait puts aside stays restorable while others lock and
\* unlock: only the holder of the mutex writes recursive_count_.
LEMMA RestoreStep ==
  ASSUME CvTypeOK, Holding, PositionInv, RestoreInv, MutexAssumption,
         NEW t \in Threads, CvStep(t)
  PROVE  RestoreInv'
  <1> USE DEF CvTypeOK, TypeOK, RestoreInv
  <1>1. CASE MutexOnly(t)
    <2>1. CASE recursive_count_' = recursive_count_
      BY <1>1, <2>1 DEF MutexOnly, waitVars
    <2>2. CASE recursive_count_' # recursive_count_
      <3>1. pc[t] \in HolderPcs /\ (pc[t] # "own" => cvpc[t] = "none")
        BY <1>1, <2>2, MutexFlow DEF MutexOnly, Lock, Unlock, Goto
      <3>2. \A u \in Threads : cvpc[u] \in {"unlock", "deregister"} => u = t
        BY <3>1 DEF PositionInv, Holding, MutualExclusion, Holders
      <3>3. cvpc[t] \notin {"unlock", "deregister"}
        BY <3>1 DEF PositionInv
      <3> QED BY <1>1, <3>2, <3>3 DEF MutexOnly, waitVars
    <2> QED BY <2>1, <2>2
  <1>2. CASE WaitUnlock(t)
    BY <1>2 DEF WaitUnlock, CvGoto, PositionInv, Holding, MutualExclusion, Holders
  <1>3. CASE WaitLock(t)
    BY <1>3 DEF WaitLock, CvGoto, PositionInv, Lock, Goto
  <1>4. CASE WaitOnly(t)
    BY <1>4 DEF WaitOnly, Wait, WaitRegister, WaitFutex, WaitWoken, WaitDeregister, CvGoto,
       mutexVars
  <1>5. CASE SignalOnly(t)
    BY <1>5 DEF SignalOnly, Signal, SignalAll, SignalCount, SignalAddCond, mutexVars, waitVars
  <1>6. CASE WaitIncrementWaiters(t)
    BY <1>6 DEF WaitIncrementWaiters, CvGoto
  <1>7. CASE WaitLoadCond(t)
    BY <1>7 DEF WaitLoadCond, CvGoto, PositionInv, Holding, CodeAssertions, CountInv
  <1>8. CASE WaitInterrupted(t)
    BY <1>8 DEF WaitInterrupted
  <1>9. CASE WaitDecrementWaiters(t)
    BY <1>9 DEF WaitDecrementWaiters, CvGoto, PositionInv, Holding, MutualExclusion, Holders
  <1>10. CASE SignalFutex(t)
    BY <1>10 DEF SignalFutex
  <1> QED BY <1>1, <1>2, <1>3, <1>4, <1>5, <1>6, <1>7, <1>8, <1>9, <1>10 DEF CvStep

\* A sleeper is in one queue at most; FUTEX_REQUEUE takes it from one to the other.
LEMMA QueuesStep ==
  ASSUME CvTypeOK, PositionInv, QueueInv, NEW t \in Threads, CvStep(t)
  PROVE  QueueInv'
  <1> USE DEF CvTypeOK, TypeOK, QueueInv
  <1>1. CASE MutexOnly(t)
    <2>1. Call(t) \/ MutexStep(t)
      BY <1>1 DEF MutexOnly, Call
    <2>2. cvpc[t] = "sleep" => pc[t] = "out"
      BY DEF PositionInv
    <2>3. \A u \in condQ : u \notin futexQ'
      <3>1. cvpc[t] = "sleep" => ~MutexOnly(t)
        BY <2>2, MutexFlow DEF MutexOnly
      <3> QED BY <1>1, <2>1, <3>1, QueueStep
    <2>4. ASSUME NEW u \in futexQ' PROVE pc'[u] = "sleep" \/ cvpc[u] = "sleep"
      <3>1. CASE u \notin futexQ
        BY <2>1, <3>1, QueueStep
      <3>2. CASE u \in futexQ /\ u # t
        BY <2>1, <3>2, QueueStep
      <3>3. CASE u \in futexQ /\ u = t
        BY <2>1, <3>3, QueueStep
      <3> QED BY <3>1, <3>2, <3>3
    <2> QED BY <1>1, <2>3, <2>4 DEF MutexOnly, waitVars
  <1>2. CASE WaitUnlock(t)
    BY <1>2 DEF WaitUnlock, Unlock, CvGoto
  <1>3. CASE WaitLock(t)
    BY <1>3 DEF WaitLock, Lock, Goto, CvGoto, PositionInv
  <1>4. CASE WaitOnly(t)
    BY <1>4 DEF WaitOnly, Wait, WaitRegister, WaitFutex, WaitWoken, WaitDeregister, CvGoto,
       mutexVars, PositionInv
  <1>5. CASE SignalOnly(t)
    BY <1>5 DEF SignalOnly, Signal, SignalAll, SignalCount, SignalAddCond, mutexVars, waitVars
  <1>6. CASE WaitIncrementWaiters(t)
    BY <1>6 DEF WaitIncrementWaiters, CvGoto
  <1>7. CASE WaitLoadCond(t)
    BY <1>7 DEF WaitLoadCond, CvGoto
  <1>8. CASE WaitInterrupted(t)
    BY <1>8 DEF WaitInterrupted
  <1>9. CASE WaitDecrementWaiters(t)
    BY <1>9 DEF WaitDecrementWaiters, CvGoto
  <1>10. CASE SignalFutex(t)
    BY <1>10 DEF SignalFutex
  <1> QED BY <1>1, <1>2, <1>3, <1>4, <1>5, <1>6, <1>7, <1>8, <1>9, <1>10 DEF CvStep

\* No waiter's copy of cond_ is ahead of it, and one that a signal counts on to
\* notice the increment is behind it until it takes a new copy.
LEMMA SignalStep ==
  ASSUME CvTypeOK, SignalInv, PositionInv, MutexAssumption, CondVarAssumption,
         NEW t \in Threads, CvStep(t)
  PROVE  SignalInv'
  <1> USE DEF CvTypeOK, MutexAssumption, CondVarAssumption
  <1>1. IsFiniteSet(Adding) /\ Cardinality(Adding) \in Nat
    BY FS_Subset, FS_CardinalityType DEF Adding
  <1>2. CASE MutexOnly(t)
    BY <1>2 DEF MutexOnly, waitVars, signalVars, SignalInv, Adding
  <1>3. CASE WaitUnlock(t)
    BY <1>3 DEF WaitUnlock, CvGoto, signalVars, SignalInv, Adding
  <1>4. CASE WaitLock(t)
    BY <1>4 DEF WaitLock, CvGoto, signalVars, SignalInv, Adding
  <1>5. CASE WaitOnly(t)
    <2>1. Adding' = Adding
      BY <1>5 DEF WaitOnly, Wait, WaitRegister, WaitFutex, WaitWoken, WaitDeregister,
         signalVars, Adding
    <2>2. CASE Wait(t) \/ WaitRegister(t) \/ WaitFutex(t) \/ WaitWoken(t)
      BY <2>1, <2>2 DEF Wait, WaitRegister, WaitFutex, WaitWoken, CvGoto, signalVars, SignalInv
    <2>3. CASE WaitDeregister(t)
      BY <2>1, <2>3 DEF WaitDeregister, CvGoto, signalVars, SignalInv
    <2> QED BY <1>5, <2>2, <2>3 DEF WaitOnly
  <1>6. CASE Signal(t) \/ SignalAll(t)
    <2>1. PICK n \in {"one", "all"} : SignalCount(t, n)
      BY <1>6 DEF Signal, SignalAll
    <2>2. Adding' = Adding \cup {t} /\ t \notin Adding
      BY <2>1 DEF SignalCount, Adding
    <2>3. Cardinality(Adding') = Cardinality(Adding) + 1
      BY <1>1, <2>2, FS_AddElement
    <2>4. cond_' = cond_ /\ cond_ + Cardinality(Adding) < MaxSignals
      BY <2>1 DEF SignalCount, waitVars, Adding
    <2>5. cond_' + Cardinality(Adding') <= MaxSignals
      BY <1>1, <2>3, <2>4
    <2> QED BY <2>1, <2>5 DEF SignalCount, waitVars, SignalInv
  <1>7. CASE SignalAddCond(t)
    <2>1. Adding' = Adding \ {t} /\ t \in Adding
      BY <1>7 DEF SignalAddCond, Adding
    <2>2. Cardinality(Adding') = Cardinality(Adding) - 1
      BY <1>1, <2>1, FS_RemoveElement
    <2>3. cond_' + Cardinality(Adding') <= MaxSignals
      BY <1>1, <1>7, <2>2 DEF SignalAddCond, SignalInv
    <2>4. \A u \in Threads : cur_cond[u] < cond_'
      BY <1>7 DEF SignalAddCond, SignalInv
    <2> QED BY <1>7, <2>3, <2>4 DEF SignalAddCond, SignalInv
  <1>8. CASE WaitLoadCond(t)
    <2>1. Adding' = Adding
      BY <1>8 DEF WaitLoadCond, Adding
    <2> QED BY <1>8, <2>1 DEF WaitLoadCond, CvGoto, SignalInv
  <1>9. CASE WaitIncrementWaiters(t) \/ WaitInterrupted(t) \/ WaitDecrementWaiters(t)
    <2>1. Adding' = Adding
      BY <1>9 DEF WaitIncrementWaiters, WaitInterrupted, WaitDecrementWaiters, signalVars, Adding
    <2> QED BY <1>9, <2>1 DEF WaitIncrementWaiters, WaitInterrupted, WaitDecrementWaiters,
       CvGoto, signalVars, SignalInv
  <1>10. CASE SignalFutex(t)
    <2>1. Adding' = Adding
      BY <1>10 DEF SignalFutex, Adding
    <2> QED BY <1>10, <2>1 DEF SignalFutex, SignalInv
  <1> QED
    BY <1>2, <1>3, <1>4, <1>5, <1>6, <1>7, <1>8, <1>9, <1>10 DEF CvStep, SignalOnly

\* The threads counted in the mutex and in the condition variable are finitely many.
LEMMA CountedFinite ==
  ASSUME MutexAssumption
  PROVE  /\ IsFiniteSet(CountedInMutex) /\ Cardinality(CountedInMutex) \in Nat
         /\ IsFiniteSet(CountedInCond) /\ Cardinality(CountedInCond) \in Nat
  BY FS_Subset, FS_CardinalityType DEF MutexAssumption, CountedInMutex, CountedInCond

\* Both waiter counts stay exact.  The mutex's own steps move its count with the
\* threads in the slow path of Lock; Wait moves it, and waiters_, with itself.
LEMMA CvWaitersStep ==
  ASSUME CvTypeOK, TypeOK', PositionInv, CvWaitersExact, MutexAssumption,
         NEW t \in Threads, CvStep(t)
  PROVE  CvWaitersExact'
  <1> USE DEF CvTypeOK
  <1>1. Cardinality(Waiting) \in Nat
    BY WaitingFinite
  <1>2. ASSUME UNCHANGED <<pc, waiters_, mutex_ptr_>>, CountedInMutex' = CountedInMutex,
               CountedInCond' = CountedInCond,
               state_and_waiters_'.waiters = state_and_waiters_.waiters
        PROVE  CvWaitersExact'
    BY <1>2 DEF CvWaitersExact, Waiting
  <1>3. CASE MutexOnly(t) \/ WaitUnlock(t) \/ WaitLock(t)
    <2>1. UNCHANGED <<waiters_, mutex_ptr_, CountedInMutex, CountedInCond>>
      BY <1>3 DEF MutexOnly, WaitUnlock, WaitLock, CvGoto, waitVars, CountedInMutex,
         CountedInCond
    <2>2. state_and_waiters_'.waiters - Cardinality(Waiting')
            = state_and_waiters_.waiters - Cardinality(Waiting)
      BY <1>3, WaitersStep DEF MutexOnly, WaitUnlock, WaitLock, Call
    <2>3. Cardinality(Waiting') \in Nat
      BY FS_Subset, FS_CardinalityType DEF MutexAssumption, Waiting
    <2>4. state_and_waiters_.waiters \in Nat /\ state_and_waiters_'.waiters \in Nat
      BY DEF TypeOK
    <2> QED BY <1>1, <2>1, <2>2, <2>3, <2>4, CountedFinite DEF CvWaitersExact
  <1>4. CASE Wait(t)
    BY <1>4 DEF Wait, CvGoto, mutexVars, CvWaitersExact, Waiting, CountedInMutex, CountedInCond
  <1>5. CASE WaitFutex(t) \/ WaitWoken(t) \/ SignalOnly(t) \/ WaitLoadCond(t)
             \/ WaitInterrupted(t) \/ SignalFutex(t)
    BY <1>2, <1>5 DEF WaitFutex, WaitWoken, SignalOnly, Signal, SignalAll, SignalCount,
       SignalAddCond, WaitLoadCond, WaitInterrupted, SignalFutex, CvGoto, mutexVars, waitVars,
       CountedInMutex, CountedInCond
  <1>6. CASE WaitRegister(t)
    <2>1. CountedInMutex' = CountedInMutex /\ UNCHANGED <<pc, state_and_waiters_, mutex_ptr_>>
      BY <1>6 DEF WaitRegister, CvGoto, CountedInMutex, mutexVars
    <2>2. CountedInCond' = CountedInCond \cup {t} /\ t \notin CountedInCond
      BY <1>6 DEF WaitRegister, CvGoto, CountedInCond
    <2>3. Cardinality(CountedInCond') = Cardinality(CountedInCond) + 1
      BY <2>2, CountedFinite, FS_AddElement
    <2>4. waiters_' = waiters_ + 1 /\ mutex_ptr_
      BY <1>6 DEF WaitRegister, CvGoto, PositionInv
    <2> QED BY <2>1, <2>3, <2>4 DEF CvWaitersExact, Waiting
  <1>7. CASE WaitDeregister(t)
    <2>1. CountedInMutex' = CountedInMutex /\ UNCHANGED <<pc, state_and_waiters_, mutex_ptr_>>
      BY <1>7 DEF WaitDeregister, CvGoto, CountedInMutex, mutexVars
    <2>2. CountedInCond' = CountedInCond \ {t} /\ t \in CountedInCond
      BY <1>7 DEF WaitDeregister, CvGoto, CountedInCond
    <2>3. Cardinality(CountedInCond') = Cardinality(CountedInCond) - 1
      BY <2>2, CountedFinite, FS_RemoveElement
    <2>4. waiters_' = waiters_ - 1 /\ mutex_ptr_
      BY <1>7 DEF WaitDeregister, CvGoto, PositionInv
    <2> QED BY <2>1, <2>3, <2>4 DEF CvWaitersExact, Waiting
  <1>8. CASE WaitIncrementWaiters(t)
    <2>1. CountedInCond' = CountedInCond /\ UNCHANGED <<pc, waiters_, mutex_ptr_>>
      BY <1>8 DEF WaitIncrementWaiters, CvGoto, CountedInCond
    <2>2. CountedInMutex' = CountedInMutex \cup {t} /\ t \notin CountedInMutex
      BY <1>8 DEF WaitIncrementWaiters, CvGoto, CountedInMutex
    <2>3. Cardinality(CountedInMutex') = Cardinality(CountedInMutex) + 1
      BY <2>2, CountedFinite, FS_AddElement
    <2>4. state_and_waiters_'.waiters = state_and_waiters_.waiters + 1
      BY <1>8 DEF WaitIncrementWaiters, IncrementWaiters, TypeOK
    <2> QED BY <1>1, <2>1, <2>3, <2>4, CountedFinite DEF CvWaitersExact, Waiting
  <1>9. CASE WaitDecrementWaiters(t)
    <2>1. CountedInCond' = CountedInCond /\ UNCHANGED <<pc, waiters_, mutex_ptr_>>
      BY <1>9 DEF WaitDecrementWaiters, CvGoto, CountedInCond
    <2>2. CountedInMutex' = CountedInMutex \ {t} /\ t \in CountedInMutex
      BY <1>9 DEF WaitDecrementWaiters, CvGoto, CountedInMutex
    <2>3. Cardinality(CountedInMutex') = Cardinality(CountedInMutex) - 1
      BY <2>2, CountedFinite, FS_RemoveElement
    <2>4. state_and_waiters_'.waiters = state_and_waiters_.waiters - 1
      BY <1>9 DEF WaitDecrementWaiters, DecrementWaiters, TypeOK
    <2> QED BY <1>1, <2>1, <2>3, <2>4, CountedFinite DEF CvWaitersExact, Waiting
  <1> QED
    BY <1>3, <1>4, <1>5, <1>6, <1>7, <1>8, <1>9 DEF CvStep, WaitOnly

\* The mutex's own steps lose no wake-up: whoever sleeps on the word, requeued or not,
\* is counted in it when Unlock tests it, and whoever is woken is on its way to Lock.
LEMMA MutexWakeup ==
  ASSUME CvTypeOK, Holding, QueueInv, CvWaitersExact, CvNoLostWakeup, MutexAssumption,
         NEW t \in Threads, Call(t) \/ MutexStep(t),
         condQ' = condQ,
         \A u \in Threads \ {t} : cvpc'[u] = cvpc[u],
         cvpc[t] = "sleep" => cvpc'[t] = "sleep",
         cvpc[t] = "relock" => cvpc'[t] = "relock" \/ pc'[t] \in LockPcs
  PROVE  CvNoLostWakeup'
  <1> USE DEF CvTypeOK, TypeOK, CvNoLostWakeup
  <1>1. CASE Lock(t)
    <2>1. state_and_waiters_' = state_and_waiters_ /\ futexQ' = futexQ
      BY <1>1 DEF Lock
    <2>2. CASE pc' = pc
      BY <2>1, <2>2
    <2>3. CASE pc[t] = "out" /\ pc' = [pc EXCEPT ![t] = "load"]
      BY <2>1, <2>3
    <2> QED BY <1>1, <2>2, <2>3 DEF Lock, Goto
  <1>2. CASE TryLock(t) \/ TryLockWithSpinning(t)
    <2>1. state_and_waiters_' = state_and_waiters_ /\ futexQ' = futexQ
      BY <1>2 DEF TryLock, TryLockWithSpinning, TryLockEntry
    <2>2. pc' = pc \/ (pc[t] = "out" /\ pc' = [pc EXCEPT ![t] = "tryLoad"])
      BY <1>2 DEF TryLock, TryLockWithSpinning, TryLockEntry, Goto
    <2>3. CASE pc' = pc
      BY <2>1, <2>3
    <2>4. CASE pc[t] = "out" /\ pc' = [pc EXCEPT ![t] = "tryLoad"]
      BY <2>1, <2>4
    <2> QED BY <2>2, <2>3, <2>4
  <1>4. CASE Unlock(t)
    BY <1>4 DEF Unlock
  <1>5. CASE LockLoad(t)
    BY <1>5 DEF LockLoad, Goto
  <1>6. CASE LockWaitBriefly(t)
    BY <1>6 DEF LockWaitBriefly, Goto
  <1>7. CASE LockIncrementWaiters(t)
    BY <1>7 DEF LockIncrementWaiters, IncrementWaiters, Goto
  <1>8. CASE LockFutexWait(t)
    BY <1>8 DEF LockFutexWait, FutexWait, Goto, Holding, CopyInv
  <1>9. CASE LockWoken(t)
    BY <1>9 DEF LockWoken, Goto
  <1>10. CASE LockReload(t)
    BY <1>10 DEF LockReload, Goto
  <1>11. CASE LockDecrementWaiters(t)
    BY <1>11 DEF LockDecrementWaiters, DecrementWaiters, Goto
  <1>12. CASE LockOwn(t)
    BY <1>12 DEF LockOwn, Goto
  <1>13. CASE TryLockFetch(t)
    BY <1>13 DEF TryLockFetch
  <1>14. CASE TryLockSpin(t)
    BY <1>14 DEF TryLockSpin, Goto
  <1>15. CASE UnlockLoad(t)
    BY <1>15 DEF UnlockLoad, Goto
  <1>16. CASE UnlockClearOwner(t)
    BY <1>16 DEF UnlockClearOwner, Goto
  <1>17. CASE UnlockWake(t)
    <2>1. CASE futexQ = {}
      BY <1>17, <2>1 DEF UnlockWake, FutexWakeOne, Goto
    <2>2. CASE futexQ # {}
      <3>1. PICK u \in futexQ : futexQ' = futexQ \ {u}
        BY <1>17, <2>2 DEF UnlockWake, FutexWakeOne
      <3>2. u # t => pc'[u] = pc[u]
        BY <1>17 DEF UnlockWake, Goto
      <3>3. pc'[u] \in LockPcs \/ (cvpc'[u] = "sleep" /\ u \notin condQ')
        BY <1>17, <3>1, <3>2 DEF UnlockWake, Goto, QueueInv
      <3> QED BY <3>1, <3>3
    <2> QED BY <2>1, <2>2
  <1>18. CASE LockCas(t)
    BY <1>18 DEF LockCas, Goto
  <1>19. CASE TryLockCas(t)
    BY <1>19 DEF TryLockCas, Goto
  <1>20. CASE UnlockCas(t)
    <2>1. futexQ # {} => Waiting \cup CountedInMutex # {}
      BY SMTT(30) DEF QueueInv, Waiting, CountedInMutex
    <2>2. futexQ # {} => state_and_waiters_.waiters # 0
      BY <2>1, WaitingFinite, CountedFinite, FS_EmptySet DEF CvWaitersExact
    <2> QED BY <1>20, <2>2 DEF UnlockCas, Goto
  <1>21. CASE LockCasFail(t)
    BY <1>21 DEF LockCasFail, Goto
  <1>22. CASE UnlockCasFail(t)
    BY <1>22 DEF UnlockCasFail, Goto
  <1>23. CASE FutexInterrupt(t)
    BY <1>23 DEF FutexInterrupt
  <1> QED
    BY <1>1, <1>2, <1>4, <1>5, <1>6, <1>7, <1>8, <1>9, <1>10, <1>11,
       <1>12, <1>13, <1>14, <1>15, <1>16, <1>17, <1>18, <1>19, <1>20, <1>21,
       <1>22, <1>23
       DEF Call, MutexStep, Progress, Cas, CasFail

\* Nor does any other step: a requeue is made by a thread that holds the mutex.
LEMMA CvWakeupStep ==
  ASSUME CvTypeOK, Holding, PositionInv, QueueInv, CvWaitersExact, CvNoLostWakeup,
         MutexAssumption, NEW t \in Threads, CvStep(t)
  PROVE  CvNoLostWakeup'
  <1> USE DEF CvTypeOK, TypeOK
  <1>1. CASE MutexOnly(t)
    BY <1>1, MutexWakeup DEF MutexOnly, Call, waitVars
  <1>2. CASE WaitUnlock(t)
    BY <1>2, MutexWakeup DEF WaitUnlock, Call, CvGoto
  <1>3. CASE WaitLock(t)
    <2>1. pc'[t] \in LockPcs
      BY <1>3 DEF WaitLock, Lock, Goto, CvGoto, PositionInv
    <2> QED BY <1>3, <2>1, MutexWakeup DEF WaitLock, Call, CvGoto
  <1> USE DEF CvNoLostWakeup
  <1>4. CASE WaitOnly(t)
    BY <1>4 DEF WaitOnly, Wait, WaitRegister, WaitFutex, WaitWoken, WaitDeregister, CvGoto,
       mutexVars
  <1>5. CASE SignalOnly(t)
    BY <1>5 DEF SignalOnly, Signal, SignalAll, SignalCount, SignalAddCond, mutexVars, waitVars
  <1>6. CASE WaitIncrementWaiters(t)
    BY <1>6 DEF WaitIncrementWaiters, IncrementWaiters, CvGoto
  <1>7. CASE WaitLoadCond(t)
    BY <1>7 DEF WaitLoadCond, CvGoto
  <1>8. CASE WaitInterrupted(t)
    BY <1>8 DEF WaitInterrupted
  <1>9. CASE WaitDecrementWaiters(t)
    BY <1>9 DEF WaitDecrementWaiters, DecrementWaiters, CvGoto, Holding, MutualExclusion, Holders
  <1>10. CASE SignalFutex(t)
    <2>1. CASE IsHeld(t)
      BY <1>10, <2>1 DEF SignalFutex, Holding, MutualExclusion, CodeAssertions, Holders
    <2>2. CASE ~IsHeld(t)
      BY <1>10, <2>2 DEF SignalFutex
    <2> QED BY <2>1, <2>2
  <1> QED BY <1>1, <1>2, <1>3, <1>4, <1>5, <1>6, <1>7, <1>8, <1>9, <1>10 DEF CvStep

\* All variables keep their types: both counters are above zero where they are
\* decremented, because the decrementing thread is one of those counted.
LEMMA CvTypeStep ==
  ASSUME CvTypeOK, Holding, PositionInv, SignalInv, CvWaitersExact, MutexAssumption,
         CondVarAssumption, NEW t \in Threads, CvStep(t)
  PROVE  CvTypeOK'
  <1> USE DEF CvTypeOK
  <1>1. /\ pc[t] = "dec" => state_and_waiters_.waiters # 0
        /\ cvpc[t] = "locking" => state_and_waiters_.waiters # 0
        /\ cvpc[t] = "deregister" => waiters_ # 0
    <2>1. /\ pc[t] = "dec" => Waiting # {}
          /\ cvpc[t] = "locking" => CountedInMutex # {}
          /\ cvpc[t] = "deregister" => CountedInCond # {}
      BY DEF Waiting, CountedInMutex, CountedInCond
    <2> QED BY <2>1, WaitingFinite, CountedFinite, FS_EmptySet DEF CvWaitersExact
  <1>2. CASE MutexOnly(t) \/ WaitUnlock(t) \/ WaitLock(t)
    <2>1. TypeOK'
      BY <1>1, <1>2, TypeStep DEF MutexOnly, WaitUnlock, WaitLock, Call
    <2> QED BY <1>2, <2>1 DEF MutexOnly, WaitUnlock, WaitLock, CvGoto, waitVars, signalVars
  <1> USE DEF TypeOK
  <1>3. CASE WaitOnly(t)
    <2> USE DEF CvGoto, mutexVars, signalVars
    <2>1. CASE Wait(t)
      BY <2>1 DEF Wait
    <2>2. CASE WaitRegister(t)
      BY <2>2 DEF WaitRegister
    <2>3. CASE WaitFutex(t)
      BY <2>3 DEF WaitFutex
    <2>4. CASE WaitWoken(t)
      BY <2>4 DEF WaitWoken
    <2>5. CASE WaitDeregister(t)
      <3>1. waiters_' \in Nat
        BY <1>1, <2>5 DEF WaitDeregister
      <3> QED BY <2>5, <3>1 DEF WaitDeregister, CondVarAssumption
    <2> QED BY <1>3, <2>1, <2>2, <2>3, <2>4, <2>5 DEF WaitOnly
  <1>4. CASE Signal(t) \/ SignalAll(t)
    <2>1. PICK n \in {"one", "all"} : SignalCount(t, n)
      BY <1>4 DEF Signal, SignalAll
    <2>2. to_wake' \in [Threads -> {"one", "all"}] /\ sigpc' \in [Threads -> {"none", "add", "op"}]
      BY <2>1 DEF SignalCount
    <2>3. seen' \in [Threads -> SUBSET Threads] /\ left' \in [Threads -> BOOLEAN]
      BY <2>1 DEF SignalCount
    <2> QED BY <2>1, <2>2, <2>3 DEF SignalCount, mutexVars, waitVars
  <1>5. CASE SignalAddCond(t)
    <2>1. IsFiniteSet(Adding) /\ Adding # {}
      BY <1>5, FS_Subset DEF SignalAddCond, Adding, MutexAssumption
    <2>2. cond_ + 1 <= MaxSignals
      BY <2>1, FS_EmptySet, FS_CardinalityType DEF SignalInv, CondVarAssumption
    <2> QED BY <1>5, <2>2 DEF SignalAddCond, mutexVars, CondVarAssumption
  <1>6. CASE WaitIncrementWaiters(t)
    <2>1. state_and_waiters_' \in Words
      BY <1>6, SMTT(30) DEF WaitIncrementWaiters, IncrementWaiters
    <2> QED BY <1>6, <2>1 DEF WaitIncrementWaiters, CvGoto, signalVars
  <1>7. CASE WaitLoadCond(t)
    BY <1>7 DEF WaitLoadCond, CvGoto
  <1>8. CASE WaitInterrupted(t)
    BY <1>8 DEF WaitInterrupted, signalVars
  <1>9. CASE WaitDecrementWaiters(t)
    <2>1. state_and_waiters_' \in Words
      <3>1. state_and_waiters_.waiters - 1 \in Nat
        BY <1>1, <1>9 DEF WaitDecrementWaiters, CvGoto
      <3>2. state_and_waiters_' = [state_and_waiters_ EXCEPT !.waiters = @ - 1]
        BY <1>9 DEF WaitDecrementWaiters, DecrementWaiters
      <3> QED BY <3>1, <3>2
    <2> QED BY <1>9, <2>1 DEF WaitDecrementWaiters, CvGoto, signalVars
  <1>10. CASE SignalFutex(t)
    BY <1>10 DEF SignalFutex
  <1> QED
    BY <1>2, <1>3, <1>4, <1>5, <1>6, <1>7, <1>8, <1>9, <1>10 DEF CvStep, SignalOnly

-----------------------------------------------------------------------------
(* The theorems. *)

\* The conjunction is an invariant of the condition variable and its mutex.
THEOREM CvInvariance == CvSpec => []CvInv
  <1> USE MutexAssumption, CondVarAssumption
  <1>1. CvInit => CvInv
    <2> SUFFICES ASSUME CvInit PROVE CvInv
      OBVIOUS
    <2>1. CvTypeOK
      <3>1. TypeOK
        BY DEF CvInit, Init, TypeOK, MutexAssumption
      <3>2. /\ mutex_ptr_ \in BOOLEAN /\ left \in [Threads -> BOOLEAN]
            /\ seen \in [Threads -> SUBSET Threads]
        BY DEF CvInit
      <3> QED BY <3>1, <3>2 DEF CvInit, CvTypeOK, CondVarAssumption
    <2>2. Holding
      BY DEF CvInit, Init, Holding, MutualExclusion, Holders, CodeAssertions, CopyInv,
         CountInv, MutexAssumption
    <2>3. PositionInv /\ RestoreInv /\ QueueInv /\ CvNoLostWakeup
      BY DEF CvInit, Init, PositionInv, RestoreInv, QueueInv, CvNoLostWakeup
    <2>4. Waiting = {} /\ CountedInMutex = {} /\ CountedInCond = {} /\ Adding = {}
      BY DEF CvInit, Init, Waiting, CountedInMutex, CountedInCond, Adding
    <2>5. SignalInv
      BY <2>4, FS_EmptySet DEF CvInit, SignalInv, CondVarAssumption
    <2>6. CvWaitersExact
      BY <2>4, FS_EmptySet DEF CvInit, Init, CvWaitersExact
    <2> QED BY <2>1, <2>2, <2>3, <2>5, <2>6 DEF CvInv
  <1>2. CvInv /\ [CvNext]_cvVars => CvInv'
    <2> SUFFICES ASSUME CvInv, [CvNext]_cvVars PROVE CvInv'
      OBVIOUS
    <2>1. CASE CvNext
      <3>1. PICK t \in Threads : CvStep(t)
        BY <2>1, CvSteps
      <3>2. CvTypeOK'
        BY <3>1, CvTypeStep DEF CvInv
      <3>3. Holding' /\ PositionInv' /\ RestoreInv'
        BY <3>1, CvHoldingStep, PositionStep, RestoreStep DEF CvInv
      <3>4. QueueInv' /\ SignalInv' /\ CvNoLostWakeup'
        BY <3>1, QueuesStep, SignalStep, CvWakeupStep DEF CvInv
      <3>5. CvWaitersExact'
        BY <3>1, <3>2, CvWaitersStep DEF CvInv, CvTypeOK
      <3> QED BY <3>2, <3>3, <3>4, <3>5 DEF CvInv
    <2>2. CASE UNCHANGED cvVars
      <3> USE <2>2 DEF CvInv, cvVars, mutexVars, waitVars, signalVars
      <3>1. CvTypeOK' /\ Holding'
        BY DEF CvTypeOK, TypeOK, Holding, MutualExclusion, Holders, CodeAssertions, CopyInv,
           CountInv
      <3>2. PositionInv' /\ RestoreInv' /\ QueueInv' /\ CvNoLostWakeup'
        BY DEF PositionInv, RestoreInv, QueueInv, CvNoLostWakeup
      <3>3. SignalInv' /\ CvWaitersExact'
        BY DEF SignalInv, Adding, CvWaitersExact, Waiting, CountedInMutex, CountedInCond
      <3> QED BY <3>1, <3>2, <3>3
    <2> QED BY <2>1, <2>2
  <1> QED BY <1>1, <1>2, PTL DEF CvSpec

\* Type correctness of the condition variable and its mutex.
THEOREM CvTypeCorrectness == CvSpec => []CvTypeOK
  <1>1. CvInv => CvTypeOK
    BY DEF CvInv
  <1> QED BY <1>1, CvInvariance, PTL

\* The mutex stays exclusive when it is released and taken again inside Wait, at any
\* depth of recursion; a thread asleep in Wait does not hold it, and one that leaves
\* Wait holds it to the depth it had.
THEOREM CvExclusion == CvSpec => []CvMutualExclusion
  <1>1. CvInv => CvMutualExclusion
    BY DEF CvInv, CvMutualExclusion, Holding, PositionInv, RestoreInv, Holders
  <1> QED BY <1>1, CvInvariance, PTL

\* The waiter counts of the mutex's word and of the condition variable are exact, and
\* SignalCount finds mutex_ptr_ set whenever it does not return at once.
THEOREM CvWaitersCounted == CvSpec => []CvWaitersExact
  <1>1. CvInv => CvWaitersExact
    BY DEF CvInv
  <1> QED BY <1>1, CvInvariance, PTL

\* A waiter that FUTEX_REQUEUE has moved to the mutex's queue is never left there
\* beside a free mutex.
THEOREM CvNoWakeupLost == CvSpec => []CvNoLostWakeup
  <1>1. CvInv => CvNoLostWakeup
    BY DEF CvInv
  <1> QED BY <1>1, CvInvariance, PTL

\* Signal and SignalAll reach the threads that were waiting when they were called,
\* the ones on their way to FUTEX_WAIT included.
THEOREM SignalDelivery == CvSpec => SignalsDelivered
  <1> DEFINE Delivered(u) ==
        \/ seen[u] = {}
        \/ /\ to_wake[u] = "one"
           /\ left[u] \/ condQ' # condQ \/ \E t \in seen[u] : ~Dormant(t)'
        \/ \A t \in seen[u] : ~Dormant(t)'
  <1>1. ASSUME CvInv, [CvNext]_cvVars, NEW u \in Threads, sigpc[u] = "op", sigpc'[u] = "none"
        PROVE  Delivered(u)
    <2> USE DEF CvInv, CvTypeOK
    <2>1. PICK t \in Threads : CvStep(t)
      BY <1>1, CvSteps DEF cvVars, signalVars
    <2>2. SignalFutex(t) /\ t = u
      BY <1>1, <2>1 DEF CvStep, MutexOnly, WaitUnlock, WaitLock, WaitOnly, Wait, WaitRegister,
         WaitFutex, WaitWoken, WaitDeregister, SignalOnly, Signal, SignalAll, SignalCount,
         SignalAddCond, WaitIncrementWaiters, WaitLoadCond, WaitInterrupted,
         WaitDecrementWaiters, SignalFutex, signalVars
    <2>3. PICK moved \in SUBSET condQ : Picked(to_wake[u], moved) /\ condQ' = condQ \ moved
      BY <2>2 DEF SignalFutex
    <2>4. CASE to_wake[u] = "one" /\ condQ # {}
      <3>1. moved # {}
        BY <2>3, <2>4, FS_EmptySet DEF Picked
      <3> QED BY <2>3, <2>4, <3>1
    <2>5. CASE ~(to_wake[u] = "one" /\ condQ # {})
      <3>1. condQ' = {}
        BY <2>3, <2>5 DEF Picked
      <3>2. \A s \in seen[u] : cvpc[s] \in {"unlock", "futex"} => cur_cond[s] < cond_
        BY <1>1 DEF SignalInv
      <3>3. UNCHANGED <<cvpc, cur_cond, cond_>>
        BY <2>2 DEF SignalFutex
      <3>4. ASSUME NEW s \in seen[u] PROVE ~Dormant(s)'
        <4>1. s \in Threads /\ cur_cond[s] \in Nat /\ cond_ \in Nat
          BY <1>1 DEF CondVarAssumption
        <4>2. cvpc[s] \in {"unlock", "futex"} => cur_cond[s] # cond_
          BY <3>2, <4>1
        <4> QED BY <3>1, <3>3, <4>2 DEF Dormant
      <3> QED BY <3>4
    <2> QED BY <2>4, <2>5
  <1>2. CvInv /\ [CvNext]_cvVars =>
          [\A u \in Threads : sigpc[u] = "op" /\ sigpc'[u] = "none" => Delivered(u)]_cvVars
    BY <1>1
  <1> QED BY <1>2, CvInvariance, PTL DEF CvSpec, SignalsDelivered
=============================================================================
