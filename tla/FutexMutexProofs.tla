---------------------------- MODULE FutexMutexProofs ----------------------------
(***************************************************************************)
(* Proofs about FutexMutex, for every set of threads, recursive or not.    *)
(*                                                                         *)
(* Inv is the inductive invariant.  Type correctness alone is not          *)
(* inductive: DecrementWaiters keeps the waiter count a natural number     *)
(* only because the count is exact (WaitersExact), and the exclusion of    *)
(* holders rests on what each thread's local copy of the word says         *)
(* (CopyInv), on the recursion count of a mutex nobody holds (CountInv)    *)
(* and on where sleepers are (SleepInv).                                   *)
(***************************************************************************)
EXTENDS FutexMutex, FiniteSetTheorems, TLAPS

\* The local copy of the word where the code has tested it: unlocked before an
\* acquiring exchange, held before FUTEX_WAIT and before a releasing exchange.
CopyInv ==
  \A t \in Threads :
    /\ pc[t] \in {"cas", "tryCas"} => ~cur_state[t].held
    /\ pc[t] \in {"brief", "inc", "wait"} => cur_state[t].held
    /\ pc[t] = "spin" => tries[t] > 0

\* The recursion count of a mutex that is free or being released is zero, and
\* one level is all a mutex that is not recursive has.
CountInv ==
  /\ ~state_and_waiters_.held => recursive_count_ = 0
  /\ \A t \in Threads : pc[t] \in UnlockPcs => recursive_count_ = 0
  /\ ~recursive_mutex_ => recursive_count_ <= 1

SleepInv == \A t \in futexQ : pc[t] = "sleep"

\* The part of the invariant that is about the holder.
Holding == MutualExclusion /\ CodeAssertions /\ CopyInv /\ CountInv

Inv == TypeOK /\ Holding /\ SleepInv /\ WaitersExact /\ NoLostWakeup

USE DEF Words, Unlocked, WaitingPcs, LockPcs, TryPcs, UnlockPcs, HolderPcs, Pcs, IsHeld

-----------------------------------------------------------------------------
(* One lemma per part of the invariant, one step per action. *)

\* The exclusion of holders, the code's assertions and what they rest on are
\* preserved by every step of a client, of the mutex and of the kernel.
LEMMA HoldingStep ==
  ASSUME TypeOK, Holding, MutexAssumption, NEW t \in Threads, Call(t) \/ MutexStep(t)
  PROVE  Holding'
  <1> USE DEF TypeOK, Holding, MutualExclusion, Holders, CodeAssertions, CopyInv,
              CountInv
  <1>1. CASE Lock(t)
    BY <1>1 DEF Lock, Goto
  <1>2. CASE TryLock(t)
    BY <1>2 DEF TryLock, TryLockEntry, Goto
  <1>3. CASE TryLockWithSpinning(t)
    BY <1>3 DEF TryLockWithSpinning, TryLockEntry, Goto
  <1>4. CASE Unlock(t)
    BY <1>4 DEF Unlock
  <1>5. CASE LockLoad(t)
    BY <1>5 DEF LockLoad, Goto
  <1>6. CASE LockWaitBriefly(t)
    BY <1>6 DEF LockWaitBriefly, Forget, Goto
  <1>7. CASE LockIncrementWaiters(t)
    BY <1>7 DEF LockIncrementWaiters, IncrementWaiters, Goto
  <1>8. CASE LockFutexWait(t)
    BY <1>8 DEF LockFutexWait, FutexWait, Goto
  <1>9. CASE LockWoken(t)
    BY <1>9 DEF LockWoken, Goto
  <1>10. CASE LockReload(t)
    BY <1>10 DEF LockReload, Goto
  <1>11. CASE LockDecrementWaiters(t)
    BY <1>11 DEF LockDecrementWaiters, DecrementWaiters, Forget, Goto
  <1>12. CASE LockOwn(t)
    BY <1>12 DEF LockOwn, Goto
  <1>13. CASE TryLockFetch(t)
    BY <1>13 DEF TryLockFetch, Forget
  <1>14. CASE TryLockSpin(t)
    BY <1>14 DEF TryLockSpin, Goto
  <1>15. CASE UnlockLoad(t)
    BY <1>15 DEF UnlockLoad, Goto
  <1>16. CASE UnlockClearOwner(t)
    BY <1>16 DEF UnlockClearOwner, Goto
  <1>17. CASE UnlockWake(t)
    BY <1>17 DEF UnlockWake, FutexWakeOne, Goto
  <1>18. CASE LockCas(t)
    BY <1>18 DEF LockCas, Forget, Goto
  <1>19. CASE TryLockCas(t)
    BY <1>19 DEF TryLockCas, Forget, Goto
  <1>20. CASE UnlockCas(t)
    BY <1>20 DEF UnlockCas, Forget, Goto
  <1>21. CASE LockCasFail(t)
    BY <1>21 DEF LockCasFail, Forget, Goto
  <1>22. CASE UnlockCasFail(t)
    BY <1>22 DEF UnlockCasFail, Goto
  <1>23. CASE FutexInterrupt(t)
    BY <1>23 DEF FutexInterrupt
  <1> QED
    BY <1>1, <1>2, <1>3, <1>4, <1>5, <1>6, <1>7, <1>8, <1>9, <1>10,
     <1>11, <1>12, <1>13, <1>14, <1>15, <1>16, <1>17, <1>18, <1>19, <1>20,
     <1>21, <1>22, <1>23
       DEF Call, MutexStep, Progress, Cas, CasFail

\* A step moves its own thread only; a thread joins the kernel's queue at the end of
\* its FUTEX_WAIT, and stays at that point of Lock for as long as it is in the queue.
LEMMA QueueStep ==
  ASSUME TypeOK, NEW t \in Threads, Call(t) \/ MutexStep(t)
  PROVE  /\ \A u \in Threads \ {t} : pc'[u] = pc[u]
         /\ \A u \in futexQ' \ futexQ : u = t /\ pc'[u] = "sleep"
         /\ t \in futexQ' /\ pc[t] = "sleep" => pc'[t] = "sleep"
  <1> USE DEF TypeOK
  <1>1. CASE Lock(t)
    BY <1>1 DEF Lock, Goto
  <1>2. CASE TryLock(t)
    BY <1>2 DEF TryLock, TryLockEntry, Goto
  <1>3. CASE TryLockWithSpinning(t)
    BY <1>3 DEF TryLockWithSpinning, TryLockEntry, Goto
  <1>4. CASE Unlock(t)
    BY <1>4 DEF Unlock
  <1>5. CASE LockLoad(t)
    BY <1>5 DEF LockLoad, Goto
  <1>6. CASE LockWaitBriefly(t)
    BY <1>6 DEF LockWaitBriefly, Goto
  <1>7. CASE LockIncrementWaiters(t)
    BY <1>7 DEF LockIncrementWaiters, IncrementWaiters, Goto
  <1>8. CASE LockFutexWait(t)
    BY <1>8 DEF LockFutexWait, FutexWait, Goto
  <1>9. CASE LockWoken(t)
    BY <1>9 DEF LockWoken, Goto
  <1>10. CASE LockReload(t)
    BY <1>10 DEF LockReload, Goto
  <1>11. CASE LockDecrementWaiters(t)
    BY <1>11 DEF LockDecrementWaiters, DecrementWaiters, Goto
  <1>12. CASE LockOwn(t)
    BY <1>12 DEF LockOwn, Goto
  <1>13. CASE TryLockFetch(t)
    BY <1>13 DEF TryLockFetch
  <1>14. CASE TryLockSpin(t)
    BY <1>14 DEF TryLockSpin, Goto
  <1>15. CASE UnlockLoad(t)
    BY <1>15 DEF UnlockLoad, Goto
  <1>16. CASE UnlockClearOwner(t)
    BY <1>16 DEF UnlockClearOwner, Goto
  <1>17. CASE UnlockWake(t)
    BY <1>17 DEF UnlockWake, FutexWakeOne, Goto
  <1>18. CASE LockCas(t)
    BY <1>18 DEF LockCas, Goto
  <1>19. CASE TryLockCas(t)
    BY <1>19 DEF TryLockCas, Goto
  <1>20. CASE UnlockCas(t)
    BY <1>20 DEF UnlockCas, Goto
  <1>21. CASE LockCasFail(t)
    BY <1>21 DEF LockCasFail, Goto
  <1>22. CASE UnlockCasFail(t)
    BY <1>22 DEF UnlockCasFail, Goto
  <1>23. CASE FutexInterrupt(t)
    BY <1>23 DEF FutexInterrupt
  <1> QED
    BY <1>1, <1>2, <1>3, <1>4, <1>5, <1>6, <1>7, <1>8, <1>9, <1>10,
     <1>11, <1>12, <1>13, <1>14, <1>15, <1>16, <1>17, <1>18, <1>19, <1>20,
     <1>21, <1>22, <1>23
       DEF Call, MutexStep, Progress, Cas, CasFail

\* All variables keep their types; DecrementWaiters does because its caller is counted.
LEMMA TypeStep ==
  ASSUME TypeOK, Holding, MutexAssumption, NEW t \in Threads, Call(t) \/ MutexStep(t),
         pc[t] = "dec" => state_and_waiters_.waiters # 0
  PROVE  TypeOK'
  <1> USE DEF TypeOK, MutexAssumption
  <1>1. CASE Lock(t)
    BY <1>1 DEF Lock, Goto
  <1>2. CASE TryLock(t)
    BY <1>2 DEF TryLock, TryLockEntry, Goto
  <1>3. CASE TryLockWithSpinning(t)
    BY <1>3 DEF TryLockWithSpinning, TryLockEntry, Goto
  <1>4. CASE Unlock(t)
    BY <1>4 DEF Unlock, Holding, CodeAssertions
  <1>5. CASE LockLoad(t)
    BY <1>5 DEF LockLoad, Goto
  <1>6. CASE LockWaitBriefly(t)
    <2>1. cur_state' \in [Threads -> Words]
      <3>1. cur_state' = cur_state \/ Forget(t) \/ cur_state' = [cur_state EXCEPT ![t] = state_and_waiters_]
        BY <1>6 DEF LockWaitBriefly
      <3>2. ASSUME Forget(t) PROVE cur_state' \in [Threads -> Words]
        BY <3>2 DEF Forget
      <3> QED BY <3>1, <3>2
    <2> QED BY <1>6, <2>1 DEF LockWaitBriefly, Goto
  <1>7. CASE LockIncrementWaiters(t)
    BY <1>7 DEF LockIncrementWaiters, IncrementWaiters, Goto
  <1>8. CASE LockFutexWait(t)
    BY <1>8 DEF LockFutexWait, FutexWait, Goto
  <1>9. CASE LockWoken(t)
    BY <1>9 DEF LockWoken, Goto
  <1>10. CASE LockReload(t)
    BY <1>10 DEF LockReload, Goto
  <1>11. CASE LockDecrementWaiters(t)
    <2>1. state_and_waiters_' \in Words
      <3>1. state_and_waiters_.waiters - 1 \in Nat
        BY <1>11 DEF LockDecrementWaiters, Goto
      <3>2. state_and_waiters_' = [state_and_waiters_ EXCEPT !.waiters = @ - 1]
        BY <1>11 DEF LockDecrementWaiters, DecrementWaiters
      <3> QED BY <3>1, <3>2
    <2>2. cur_state' \in [Threads -> Words]
      BY <1>11 DEF LockDecrementWaiters, Forget
    <2> QED BY <1>11, <2>1, <2>2 DEF LockDecrementWaiters, Goto
  <1>12. CASE LockOwn(t)
    BY <1>12 DEF LockOwn, Goto
  <1>13. CASE TryLockFetch(t)
    <2>1. cur_state' \in [Threads -> Words]
      <3>1. cur_state' = cur_state \/ Forget(t) \/ cur_state' = [cur_state EXCEPT ![t] = state_and_waiters_]
        BY <1>13 DEF TryLockFetch
      <3>2. ASSUME Forget(t) PROVE cur_state' \in [Threads -> Words]
        BY <3>2 DEF Forget
      <3> QED BY <3>1, <3>2
    <2> QED BY <1>13, <2>1 DEF TryLockFetch
  <1>14. CASE TryLockSpin(t)
    BY <1>14 DEF TryLockSpin, Goto, Holding, CopyInv
  <1>15. CASE UnlockLoad(t)
    BY <1>15 DEF UnlockLoad, Goto
  <1>16. CASE UnlockClearOwner(t)
    BY <1>16 DEF UnlockClearOwner, Goto
  <1>17. CASE UnlockWake(t)
    BY <1>17 DEF UnlockWake, FutexWakeOne, Goto
  <1>18. CASE LockCas(t)
    BY <1>18 DEF LockCas, Forget, Goto
  <1>19. CASE TryLockCas(t)
    BY <1>19 DEF TryLockCas, Forget, Goto
  <1>20. CASE UnlockCas(t)
    BY <1>20 DEF UnlockCas, Forget, Goto
  <1>21. CASE LockCasFail(t)
    BY <1>21 DEF LockCasFail, Forget, Goto
  <1>22. CASE UnlockCasFail(t)
    BY <1>22 DEF UnlockCasFail, Goto
  <1>23. CASE FutexInterrupt(t)
    BY <1>23 DEF FutexInterrupt
  <1> QED
    BY <1>1, <1>2, <1>3, <1>4, <1>5, <1>6, <1>7, <1>8, <1>9, <1>10,
     <1>11, <1>12, <1>13, <1>14, <1>15, <1>16, <1>17, <1>18, <1>19, <1>20,
     <1>21, <1>22, <1>23
       DEF Call, MutexStep, Progress, Cas, CasFail

\* The waiting threads are finitely many; a thread that enters the slow path of Lock
\* adds one to them, and one that leaves it takes one off.
LEMMA WaitingFinite ==
  ASSUME MutexAssumption
  PROVE  IsFiniteSet(Waiting) /\ Cardinality(Waiting) \in Nat
  BY FS_Subset, FS_CardinalityType DEF MutexAssumption, Waiting

LEMMA WaitingJoin ==
  ASSUME TypeOK, MutexAssumption, NEW t \in Threads, NEW p \in WaitingPcs,
         pc[t] \notin WaitingPcs, pc' = [pc EXCEPT ![t] = p]
  PROVE  Cardinality(Waiting') = Cardinality(Waiting) + 1
  <1>1. Waiting' = Waiting \cup {t} /\ t \notin Waiting
    BY DEF TypeOK, Waiting
  <1> QED BY <1>1, WaitingFinite, FS_AddElement

LEMMA WaitingLeave ==
  ASSUME TypeOK, MutexAssumption, NEW t \in Threads, NEW p,
         p \notin WaitingPcs, pc[t] \in WaitingPcs, pc' = [pc EXCEPT ![t] = p]
  PROVE  Cardinality(Waiting') = Cardinality(Waiting) - 1
  <1>1. Waiting' = Waiting \ {t} /\ t \in Waiting
    BY DEF TypeOK, Waiting
  <1> QED BY <1>1, WaitingFinite, FS_RemoveElement

\* The waiter count of the word moves with the number of waiting threads: two actions
\* change it, with the set of waiting threads, and the others change neither.
LEMMA WaitersStep ==
  ASSUME TypeOK, MutexAssumption, NEW t \in Threads, Call(t) \/ MutexStep(t)
  PROVE  state_and_waiters_'.waiters - Cardinality(Waiting')
           = state_and_waiters_.waiters - Cardinality(Waiting)
  <1> USE DEF TypeOK
  <1>1. CASE LockIncrementWaiters(t)
    <2>1. Cardinality(Waiting') = Cardinality(Waiting) + 1
      BY <1>1, WaitingJoin DEF LockIncrementWaiters, Goto
    <2>2. state_and_waiters_'.waiters = state_and_waiters_.waiters + 1
      BY <1>1 DEF LockIncrementWaiters, IncrementWaiters
    <2> QED BY <2>1, <2>2, WaitingFinite
  <1>2. CASE LockDecrementWaiters(t)
    <2>1. Cardinality(Waiting') = Cardinality(Waiting) - 1
      BY <1>2, WaitingLeave DEF LockDecrementWaiters, Goto
    <2>2. state_and_waiters_'.waiters = state_and_waiters_.waiters - 1
      BY <1>2 DEF LockDecrementWaiters, DecrementWaiters
    <2> QED BY <2>1, <2>2, WaitingFinite
  <1>3. ASSUME ~LockIncrementWaiters(t), ~LockDecrementWaiters(t)
        PROVE  /\ Waiting' = Waiting
               /\ state_and_waiters_'.waiters = state_and_waiters_.waiters
    <2> USE DEF Waiting
    <2>1. CASE Lock(t)
      BY <2>1 DEF Lock, Goto
    <2>2. CASE TryLock(t)
      BY <2>2 DEF TryLock, TryLockEntry, Goto
    <2>3. CASE TryLockWithSpinning(t)
      BY <2>3 DEF TryLockWithSpinning, TryLockEntry, Goto
    <2>4. CASE Unlock(t)
      BY <2>4 DEF Unlock
    <2>5. CASE LockLoad(t)
      BY <2>5 DEF LockLoad, Goto
    <2>6. CASE LockWaitBriefly(t)
      BY <2>6 DEF LockWaitBriefly, Goto
    <2>7. CASE LockFutexWait(t)
      BY <2>7 DEF LockFutexWait, FutexWait, Goto
    <2>8. CASE LockWoken(t)
      BY <2>8 DEF LockWoken, Goto
    <2>9. CASE LockReload(t)
      BY <2>9 DEF LockReload, Goto
    <2>10. CASE LockOwn(t)
      BY <2>10 DEF LockOwn, Goto
    <2>11. CASE TryLockFetch(t)
      BY <2>11 DEF TryLockFetch
    <2>12. CASE TryLockSpin(t)
      BY <2>12 DEF TryLockSpin, Goto
    <2>13. CASE UnlockLoad(t)
      BY <2>13 DEF UnlockLoad, Goto
    <2>14. CASE UnlockClearOwner(t)
      BY <2>14 DEF UnlockClearOwner, Goto
    <2>15. CASE UnlockWake(t)
      BY <2>15 DEF UnlockWake, FutexWakeOne, Goto
    <2>16. CASE LockCas(t)
      BY <2>16 DEF LockCas, Goto
    <2>17. CASE TryLockCas(t)
      BY <2>17 DEF TryLockCas, Goto
    <2>18. CASE UnlockCas(t)
      BY <2>18 DEF UnlockCas, Goto
    <2>19. CASE LockCasFail(t)
      BY <2>19 DEF LockCasFail, Goto
    <2>20. CASE UnlockCasFail(t)
      BY <2>20 DEF UnlockCasFail, Goto
    <2>21. CASE FutexInterrupt(t)
      BY <2>21 DEF FutexInterrupt
    <2> QED
      BY <1>3, <2>1, <2>2, <2>3, <2>4, <2>5, <2>6, <2>7, <2>8,
       <2>9, <2>10, <2>11, <2>12, <2>13, <2>14, <2>15, <2>16, <2>17, <2>18,
       <2>19, <2>20, <2>21
         DEF Call, MutexStep, Progress, Cas, CasFail
  <1> QED BY <1>1, <1>2, <1>3

\* Whoever sleeps is counted, so the Unlock that frees the mutex is going to wake;
\* whoever goes to sleep saw the mutex held; and a thread that is woken is awake in
\* Lock when the next sleeper needs it.
LEMMA WakeupStep ==
  ASSUME TypeOK, Holding, SleepInv, WaitersExact, NoLostWakeup, MutexAssumption,
         NEW t \in Threads, Call(t) \/ MutexStep(t)
  PROVE  NoLostWakeup'
  <1> USE DEF TypeOK, NoLostWakeup
  <1>1. CASE Lock(t)
    BY <1>1 DEF Lock, Goto
  <1>2. CASE TryLock(t)
    BY <1>2 DEF TryLock, TryLockEntry, Goto
  <1>3. CASE TryLockWithSpinning(t)
    BY <1>3 DEF TryLockWithSpinning, TryLockEntry, Goto
  <1>4. CASE Unlock(t)
    BY <1>4 DEF Unlock
  <1>5. CASE LockLoad(t)
    BY <1>5 DEF LockLoad, Goto
  <1>6. CASE LockWaitBriefly(t)
    BY <1>6 DEF LockWaitBriefly, Forget, Goto
  <1>7. CASE LockIncrementWaiters(t)
    BY <1>7 DEF LockIncrementWaiters, IncrementWaiters, Goto
  <1>8. CASE LockFutexWait(t)
    BY <1>8 DEF LockFutexWait, FutexWait, Goto, Holding, CopyInv
  <1>9. CASE LockWoken(t)
    BY <1>9 DEF LockWoken, Goto
  <1>10. CASE LockReload(t)
    BY <1>10 DEF LockReload, Goto
  <1>11. CASE LockDecrementWaiters(t)
    BY <1>11 DEF LockDecrementWaiters, DecrementWaiters, Forget, Goto
  <1>12. CASE LockOwn(t)
    BY <1>12 DEF LockOwn, Goto
  <1>13. CASE TryLockFetch(t)
    BY <1>13 DEF TryLockFetch, Forget
  <1>14. CASE TryLockSpin(t)
    BY <1>14 DEF TryLockSpin, Goto
  <1>15. CASE UnlockLoad(t)
    BY <1>15 DEF UnlockLoad, Goto
  <1>16. CASE UnlockClearOwner(t)
    BY <1>16 DEF UnlockClearOwner, Goto
  <1>17. CASE UnlockWake(t)
    <2>1. CASE futexQ = {}
      BY <1>17, <2>1 DEF UnlockWake, FutexWakeOne, Goto
    <2>2. CASE futexQ # {}
      <3>1. PICK u \in futexQ : futexQ' = futexQ \ {u}
        BY <1>17, <2>2 DEF UnlockWake, FutexWakeOne
      <3>2. u \in Threads /\ pc'[u] \in LockPcs /\ u \notin futexQ'
        BY <1>17, <3>1 DEF UnlockWake, Goto, SleepInv
      <3> QED BY <3>2
    <2> QED BY <2>1, <2>2
  <1>18. CASE LockCas(t)
    BY <1>18 DEF LockCas, Forget, Goto
  <1>19. CASE TryLockCas(t)
    BY <1>19 DEF TryLockCas, Forget, Goto
  <1>20. CASE UnlockCas(t)
    <2>1. futexQ # {} => Waiting # {}
      BY DEF SleepInv, Waiting
    <2>2. futexQ # {} => state_and_waiters_.waiters # 0
      BY <2>1, FS_Subset, FS_EmptySet DEF WaitersExact, Waiting, MutexAssumption
    <2> QED BY <1>20, <2>2 DEF UnlockCas, Goto, Forget
  <1>21. CASE LockCasFail(t)
    BY <1>21 DEF LockCasFail, Forget, Goto
  <1>22. CASE UnlockCasFail(t)
    BY <1>22 DEF UnlockCasFail, Goto
  <1>23. CASE FutexInterrupt(t)
    BY <1>23 DEF FutexInterrupt, SleepInv
  <1> QED
    BY <1>1, <1>2, <1>3, <1>4, <1>5, <1>6, <1>7, <1>8, <1>9, <1>10,
     <1>11, <1>12, <1>13, <1>14, <1>15, <1>16, <1>17, <1>18, <1>19, <1>20,
     <1>21, <1>22, <1>23
       DEF Call, MutexStep, Progress, Cas, CasFail

-----------------------------------------------------------------------------
(* The theorems. *)

\* The conjunction is an invariant of the mutex: it holds initially, and each of
\* its parts is preserved by every step.
THEOREM Invariance == Spec => []Inv
  <1>1. Init => Inv
    <2> SUFFICES ASSUME Init PROVE Inv
      OBVIOUS
    <2>1. TypeOK /\ Holding /\ SleepInv /\ NoLostWakeup
      BY MutexAssumption DEF Init, TypeOK, Holding, MutualExclusion, Holders,
         CodeAssertions, CopyInv, CountInv, SleepInv, NoLostWakeup, MutexAssumption
    <2>2. Waiting = {}
      BY DEF Init, Waiting
    <2> QED BY <2>1, <2>2, FS_EmptySet DEF Init, Inv, WaitersExact
  <1>2. Inv /\ [Next]_mutexVars => Inv'
    <2> SUFFICES ASSUME Inv, [Next]_mutexVars PROVE Inv'
      OBVIOUS
    <2>1. CASE Next
      <3>1. PICK t \in Threads : Call(t) \/ MutexStep(t)
        BY <2>1 DEF Next
      <3>2. pc[t] = "dec" => state_and_waiters_.waiters # 0
        <4>1. pc[t] = "dec" => Waiting # {}
          BY DEF Waiting
        <4> QED BY <4>1, WaitingFinite, FS_EmptySet, MutexAssumption DEF Inv, WaitersExact
      <3>3. TypeOK' /\ Holding' /\ NoLostWakeup'
        BY <3>1, <3>2, HoldingStep, TypeStep, WakeupStep, MutexAssumption DEF Inv
      <3>4. SleepInv'
        BY <3>1, QueueStep DEF Inv, TypeOK, SleepInv
      <3>5. WaitersExact'
        <4>1. Cardinality(Waiting) \in Nat /\ Cardinality(Waiting') \in Nat
          BY FS_Subset, FS_CardinalityType, MutexAssumption DEF MutexAssumption, Waiting
        <4>2. state_and_waiters_.waiters \in Nat /\ state_and_waiters_'.waiters \in Nat
          BY <3>3 DEF Inv, TypeOK
        <4>3. state_and_waiters_'.waiters - Cardinality(Waiting')
                = state_and_waiters_.waiters - Cardinality(Waiting)
          BY <3>1, WaitersStep, MutexAssumption DEF Inv
        <4> QED BY <4>1, <4>2, <4>3 DEF Inv, WaitersExact
      <3> QED BY <3>3, <3>4, <3>5 DEF Inv
    <2>2. CASE UNCHANGED mutexVars
      BY <2>2 DEF mutexVars, Inv, TypeOK, Holding, MutualExclusion, Holders, CodeAssertions,
         CopyInv, CountInv, SleepInv, WaitersExact, Waiting, NoLostWakeup
    <2> QED BY <2>1, <2>2
  <1> QED BY <1>1, <1>2, PTL DEF Spec

\* Type correctness, for any number of threads and any depth of recursion.
THEOREM TypeCorrectness == Spec => []TypeOK
  <1>1. Inv => TypeOK
    BY DEF Inv
  <1> QED BY <1>1, Invariance, PTL

\* At most one thread is between its acquiring and its releasing exchange, and the
\* held bit of the word says whether there is one.
THEOREM Exclusion == Spec => []MutualExclusion
  <1>1. Inv => MutualExclusion
    BY DEF Inv, Holding
  <1> QED BY <1>1, Invariance, PTL

\* None of the ASSERTs and aborts of Lock, TryLock and Unlock is ever reached by a
\* client that unlocks only what it has locked.
THEOREM AssertionsHold == Spec => []CodeAssertions
  <1>1. Inv => CodeAssertions
    BY DEF Inv, Holding
  <1> QED BY <1>1, Invariance, PTL

\* The waiter bits of the word are the number of threads in the slow path of Lock.
THEOREM WaitersCounted == Spec => []WaitersExact
  <1>1. Inv => WaitersExact
    BY DEF Inv
  <1> QED BY <1>1, Invariance, PTL

\* No sleeper is left behind by the relaxed load, the exchange and the conditional
\* FUTEX_WAKE of Unlock, however many threads race in Lock.
THEOREM NoWakeupLost == Spec => []NoLostWakeup
  <1>1. Inv => NoLostWakeup
    BY DEF Inv
  <1> QED BY <1>1, Invariance, PTL

-----------------------------------------------------------------------------
(* The mutex implements AbstractLock. *)

\* The refinement mapping without its CHOOSE: a thread between its acquiring and
\* its releasing exchange is the abstract owner, and without one nobody is.
OwnerMap ==
  /\ \A t \in Threads : pc[t] \in HolderPcs =>
       /\ AbstractOwner = t
       /\ AbstractDepth = IF pc[t] = "in" THEN recursive_count_ ELSE 1
  /\ (\A t \in Threads : pc[t] \notin HolderPcs) =>
       AbstractOwner = NoThread /\ AbstractDepth = 0

LEMMA OwnerMapHolds == Inv => OwnerMap
  <1> SUFFICES ASSUME Inv PROVE OwnerMap
    OBVIOUS
  <1>1. ASSUME NEW t \in Threads, pc[t] \in HolderPcs
        PROVE  AbstractOwner = t /\ Holders # {}
    <2>1. Holders # {}
      BY <1>1 DEF Holders
    <2>2. \A u \in Threads : pc[u] \in HolderPcs => u = t
      BY <1>1 DEF Inv, Holding, MutualExclusion, Holders
    <2> QED BY <1>1, <2>1, <2>2 DEF AbstractOwner
  <1>2. ASSUME NEW t \in Threads, pc[t] \in HolderPcs
        PROVE  AbstractDepth = IF pc[t] = "in" THEN recursive_count_ ELSE 1
    BY <1>1, <1>2 DEF AbstractDepth
  <1>3. ASSUME \A t \in Threads : pc[t] \notin HolderPcs
        PROVE  AbstractOwner = NoThread /\ AbstractDepth = 0
    BY <1>3 DEF Holders, AbstractOwner, AbstractDepth
  <1> QED BY <1>1, <1>2, <1>3 DEF OwnerMap

LEMMA OwnerMapPrime == Inv' => OwnerMap'
  BY OwnerMapHolds, PTL

\* A step of t that keeps whether t holds the mutex, whether t is back in the
\* client, and the recursion count, leaves the abstract lock alone.
LEMMA AbstractStutter ==
  ASSUME OwnerMap, OwnerMap', NEW t \in Threads,
         \A u \in Threads \ {t} : pc'[u] = pc[u],
         pc[t] \in HolderPcs <=> pc'[t] \in HolderPcs,
         pc[t] = "in" <=> pc'[t] = "in",
         recursive_count_' = recursive_count_
  PROVE  UNCHANGED <<AbstractOwner, AbstractDepth>>
  <1> HIDE DEF HolderPcs
  <1>1. CASE \A u \in Threads : pc[u] \notin HolderPcs
    <2>1. \A u \in Threads : pc'[u] \notin HolderPcs
      BY <1>1
    <2> QED BY <1>1, <2>1 DEF OwnerMap
  <1>2. CASE \E u \in Threads : pc[u] \in HolderPcs
    <2>1. PICK u \in Threads : pc[u] \in HolderPcs
      BY <1>2
    <2>2. pc'[u] \in HolderPcs /\ (pc[u] = "in" <=> pc'[u] = "in")
      BY <2>1
    <2> QED BY <2>1, <2>2 DEF OwnerMap
  <1> QED BY <1>1, <1>2

\* Every step of the mutex is a step of the abstract lock or leaves it alone.
LEMMA AbstractStep ==
  ASSUME Inv, Inv', MutexAssumption, OwnerMap, OwnerMap', NEW t \in Threads,
         Call(t) \/ MutexStep(t)
  PROVE  [Abstract!Next]_<<AbstractOwner, AbstractDepth>>
  <1> USE DEF Inv, TypeOK
  <1>1. ASSUME pc[t] = "in", pc'[t] = "in", IsHeld(t), UNCHANGED pc,
               recursive_count_' = recursive_count_ + 1
        PROVE  Abstract!Reacquire(t)
    BY <1>1 DEF OwnerMap, Abstract!Reacquire
  <1>2. ASSUME ~state_and_waiters_.held, pc'[t] = "own"
        PROVE  Abstract!Acquire(t)
    <2>1. \A u \in Threads : pc[u] \notin HolderPcs
      BY <1>2 DEF Holding, MutualExclusion, Holders
    <2> QED BY <1>2, <2>1 DEF OwnerMap, Abstract!Acquire
  <1>3. CASE Lock(t)
    BY <1>1, <1>3, AbstractStutter DEF Lock, Goto, Abstract!Next
  <1>4. CASE TryLock(t) \/ TryLockWithSpinning(t)
    BY <1>1, <1>4, AbstractStutter
       DEF TryLock, TryLockWithSpinning, TryLockEntry, Goto, Abstract!Next
  <1>5. CASE Unlock(t)
    <2>1. CASE pc'[t] = "in"
      <3>1. recursive_count_ > 1 /\ recursive_count_' = recursive_count_ - 1
        BY <1>5, <2>1 DEF Unlock
      <3>2. Abstract!Release(t)
        BY <1>5, <2>1, <3>1 DEF Unlock, OwnerMap, Abstract!Release
      <3> QED BY <3>2 DEF Abstract!Next
    <2>2. CASE pc'[t] = "unlockLoad"
      <3>1. recursive_count_ = 1
        BY <1>5, <2>2, MutexAssumption
           DEF MutexAssumption, Unlock, Holding, CodeAssertions, CountInv
      <3> QED BY <1>5, <2>2, <3>1 DEF Unlock, OwnerMap
    <2> QED BY <1>5, <2>1, <2>2 DEF Unlock
  <1>6. CASE LockCas(t)
    BY <1>2, <1>6 DEF LockCas, Goto, Holding, CopyInv, Abstract!Next
  <1>7. CASE TryLockCas(t)
    BY <1>2, <1>7 DEF TryLockCas, Goto, Holding, CopyInv, Abstract!Next
  <1>8. CASE LockOwn(t)
    BY <1>8 DEF LockOwn, Goto, OwnerMap, Holding, CodeAssertions
  <1>9. CASE UnlockCas(t)
    <2>1. \A u \in Threads : pc'[u] \notin HolderPcs
      BY <1>9 DEF UnlockCas, Holding, MutualExclusion, Holders
    <2>2. Abstract!Release(t)
      BY <1>9, <2>1 DEF UnlockCas, Goto, OwnerMap, Abstract!Release
    <2> QED BY <2>2 DEF Abstract!Next
  <1>10. CASE LockLoad(t) \/ LockWaitBriefly(t) \/ LockIncrementWaiters(t) \/ LockFutexWait(t)
    BY <1>10, AbstractStutter
       DEF LockLoad, LockWaitBriefly, LockIncrementWaiters, LockFutexWait, Goto
  <1>11. CASE LockWoken(t) \/ LockReload(t) \/ LockDecrementWaiters(t) \/ LockCasFail(t)
    BY <1>11, AbstractStutter
       DEF LockWoken, LockReload, LockDecrementWaiters, LockCasFail, Goto
  <1>12. CASE TryLockFetch(t) \/ TryLockSpin(t) \/ FutexInterrupt(t)
    BY <1>12, AbstractStutter DEF TryLockFetch, TryLockSpin, FutexInterrupt, Goto
  <1>13. CASE UnlockLoad(t) \/ UnlockClearOwner(t) \/ UnlockWake(t) \/ UnlockCasFail(t)
    BY <1>13, AbstractStutter
       DEF UnlockLoad, UnlockClearOwner, UnlockWake, UnlockCasFail, Goto
  <1> QED
    BY <1>3, <1>4, <1>5, <1>6, <1>7, <1>8, <1>9, <1>10, <1>11, <1>12, <1>13
       DEF Call, MutexStep, Progress, Cas, CasFail

\* Mutex and RecursiveMutex implement the lock that the rest of the runtime relies
\* on: ownership changes hands only through a free lock, at the exchanges of the
\* word, and nested Lock and Unlock only count.
THEOREM Refinement == Spec => RefinesLock
  <1>1. Init => Abstract!Init
    BY DEF Init, Abstract!Init, AbstractOwner, AbstractDepth, Holders
  <1>2. Inv /\ Inv' /\ [Next]_mutexVars => [Abstract!Next]_<<AbstractOwner, AbstractDepth>>
    <2> SUFFICES ASSUME Inv, Inv', [Next]_mutexVars
                 PROVE  [Abstract!Next]_<<AbstractOwner, AbstractDepth>>
      OBVIOUS
    <2>1. CASE Next
      <3>1. PICK t \in Threads : Call(t) \/ MutexStep(t)
        BY <2>1 DEF Next
      <3> QED BY <3>1, AbstractStep, OwnerMapHolds, OwnerMapPrime, MutexAssumption
    <2>2. CASE UNCHANGED mutexVars
      BY <2>2 DEF mutexVars, AbstractOwner, AbstractDepth, Holders
    <2> QED BY <2>1, <2>2
  <1> QED BY <1>1, <1>2, Invariance, PTL DEF Spec, RefinesLock, Abstract!Spec, Abstract!lockVars


=============================================================================
