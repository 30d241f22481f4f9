--------------------------- MODULE FutexRWLockProofs ---------------------------
(***************************************************************************)
(* Proofs about FutexRWLock, for every finite set of threads.              *)
(*                                                                         *)
(* Inv is the inductive invariant.  Exclusion rests on what a thread's     *)
(* local copy of state_ says when it exchanges (CopyInv), and on           *)
(* exclusive_owner_, which Unlock reads to tell a writer from a reader     *)
(* although it is stored after and cleared before the exchange (OwnerInv). *)
(* That no wake-up is lost rests on the exact count of waiters and on      *)
(* where sleepers are (SleepInv).                                          *)
(***************************************************************************)
EXTENDS FutexRWLock, FiniteSetTheorems, TLAPS

\* The local copy where the code has tested it: available before an acquiring
\* exchange, not available on the way to FUTEX_WAIT.
CopyInv ==
  \A t \in Threads :
    /\ pc[t] \in {"cas", "tryCas"} => Available(mode[t], cur_state[t])
    /\ pc[t] \in {"brief", "inc", "wait"} => ~Available(mode[t], cur_state[t])

\* exclusive_owner_ names a writer or nobody, and nobody once a writer has cleared
\* it or before it has stored it.
OwnerInv ==
  /\ HasExclusiveHolder => exclusive_owner_ \in Writers
  /\ \A t \in Threads : pc[t] \in {"own", "wuCas"} => ~HasExclusiveHolder
  /\ \A t \in Threads : pc[t] = "own" => mode[t] = "write"

SleepInv == \A t \in rwQ : pc[t] = "sleep"

\* The part of the invariant that is about one thread's locals and the owner.
Local == CodeAssertions /\ CopyInv /\ OwnerInv /\ SleepInv

Inv == TypeOK /\ RWExclusion /\ Local /\ WaitersExact /\ NoLostWakeup

Step(t) == Call(t) \/ Progress(t) \/ Cas(t) \/ FutexInterrupt(t)

USE DEF Modes, WaitingPcs, LockPcs, TryPcs, WriteUnlockPcs, ReadUnlockPcs, Pcs,
        WRITE_LOCKED, UNLOCKED, READ_INCREMENT, Available, Taken, AfterCas, HasExclusiveHolder

-----------------------------------------------------------------------------
(* What a step does to the holders of the lock. *)

ReadTaken(t) ==
  /\ Writers = {} /\ t \notin Readers
  /\ Readers' = Readers \cup {t} /\ Writers' = Writers /\ state_' = state_ + 1

WriteTaken(t) ==
  /\ Writers = {} /\ state_ = 0
  /\ Readers' = Readers /\ Writers' = {t} /\ state_' = WRITE_LOCKED

ReadReleased(t) ==
  /\ t \in Readers
  /\ Readers' = Readers \ {t} /\ Writers' = Writers /\ state_' = state_ - 1

WriteReleased(t) ==
  /\ Writers = {t}
  /\ Readers' = Readers /\ Writers' = {} /\ state_' = UNLOCKED

\* The sets of holders are finite and their size is what state_ says.
LEMMA ReadersFinite ==
  ASSUME RWLockAssumption
  PROVE  IsFiniteSet(Readers) /\ Cardinality(Readers) \in Nat
  BY FS_Subset, FS_CardinalityType DEF RWLockAssumption, Readers

LEMMA NoWriterWhenFree ==
  ASSUME RWLockAssumption, RWExclusion, state_ >= 0
  PROVE  Writers = {}
  BY ReadersFinite DEF RWExclusion

\* Every step is one of four changes of the holders, or leaves them alone.
LEMMA HoldersStep ==
  ASSUME TypeOK, RWExclusion, Local, RWLockAssumption, NEW t \in Threads, Step(t)
  PROVE  \/ ReadTaken(t) \/ WriteTaken(t) \/ ReadReleased(t) \/ WriteReleased(t)
         \/ UNCHANGED <<state_, Readers, Writers>>
  <1> USE DEF TypeOK, Local, CodeAssertions, Readers, Writers
  <1>1. CASE ReadLock(t)
    BY <1>1 DEF ReadLock, Enter, Goto
  <1>2. CASE WriteLock(t)
    BY <1>2 DEF WriteLock, Enter, Goto
  <1>3. CASE TryReadLock(t)
    BY <1>3 DEF TryReadLock, Enter, Goto
  <1>4. CASE TryWriteLock(t)
    BY <1>4 DEF TryWriteLock, Enter, Goto
  <1>5. CASE Unlock(t)
    BY <1>5 DEF Unlock, Goto, OwnerInv
  <1>6. CASE LockLoad(t)
    BY <1>6 DEF LockLoad, SetCur, Goto
  <1>7. CASE LockCasFail(t)
    BY <1>7 DEF LockCasFail, Forget, SetCur, Goto
  <1>8. CASE LockWaitBriefly(t)
    BY <1>8 DEF LockWaitBriefly, Goto
  <1>9. CASE IncrementWaiters(t)
    BY <1>9 DEF IncrementWaiters, Goto
  <1>10. CASE LockFutexWait(t)
    BY <1>10 DEF LockFutexWait, Goto
  <1>11. CASE LockWoken(t)
    BY <1>11 DEF LockWoken, Goto
  <1>12. CASE LockReload(t)
    BY <1>12 DEF LockReload, SetCur, Goto
  <1>13. CASE DecrementWaiters(t)
    BY <1>13 DEF DecrementWaiters, Forget, SetCur, Goto
  <1>14. CASE WriteOwn(t)
    BY <1>14 DEF WriteOwn, Goto, OwnerInv
  <1>15. CASE TryFetch(t)
    BY <1>15 DEF TryFetch, Forget, SetCur
  <1>16. CASE UnlockLoad(t)
    BY <1>16 DEF UnlockLoad, SetCur, Goto
  <1>17. CASE WriteUnlockClearOwner(t)
    BY <1>17 DEF WriteUnlockClearOwner, Goto
  <1>18. CASE UnlockCasFail(t)
    BY <1>18 DEF UnlockCasFail, SetCur
  <1>19. CASE UnlockCheckWaiters(t)
    BY <1>19 DEF UnlockCheckWaiters, Goto
  <1>20. CASE UnlockWakeAll(t)
    BY <1>20 DEF UnlockWakeAll, Goto
  <1>21. CASE LockCas(t)
    <2>1. state_ >= 0 /\ Writers = {}
      BY <1>21, NoWriterWhenFree DEF LockCas, Goto, CopyInv
    <2>2. CASE mode[t] = "read"
      BY <1>21, <2>1, <2>2 DEF LockCas, Goto, ReadTaken
    <2>3. CASE mode[t] = "write"
      <3>1. state_ = 0
        BY <1>21, <2>3 DEF LockCas, Goto, CopyInv
      <3> QED BY <1>21, <2>1, <2>3, <3>1 DEF LockCas, Goto, WriteTaken
    <2> QED BY <2>2, <2>3
  <1>22. CASE TryCas(t)
    <2>1. state_ >= 0 /\ Writers = {}
      BY <1>22, NoWriterWhenFree DEF TryCas, Goto, CopyInv
    <2>2. CASE mode[t] = "read"
      BY <1>22, <2>1, <2>2 DEF TryCas, Goto, ReadTaken
    <2>3. CASE mode[t] = "write"
      <3>1. state_ = 0
        BY <1>22, <2>3 DEF TryCas, Goto, CopyInv
      <3> QED BY <1>22, <2>1, <2>3, <3>1 DEF TryCas, Goto, WriteTaken
    <2> QED BY <2>2, <2>3
  <1>23. CASE WriteUnlockCas(t)
    <2>1. Writers = {t}
      BY <1>23 DEF WriteUnlockCas, Goto, RWExclusion
    <2> QED BY <1>23, <2>1 DEF WriteUnlockCas, Goto, WriteReleased
  <1>24. CASE ReadUnlockCas(t)
    BY <1>24 DEF ReadUnlockCas, Goto, ReadReleased
  <1>25. CASE FutexInterrupt(t)
    BY <1>25 DEF FutexInterrupt
  <1> QED
    BY <1>1, <1>2, <1>3, <1>4, <1>5, <1>6, <1>7, <1>8, <1>9, <1>10, <1>11, <1>12, <1>13, <1>14, <1>15, <1>16, <1>17, <1>18, <1>19, <1>20, <1>21, <1>22, <1>23, <1>24, <1>25
       DEF Step, Call, Progress, Cas

\* A writer stays alone and state_ stays the number of readers.
LEMMA ExclusionStep ==
  ASSUME TypeOK, RWExclusion, Local, RWLockAssumption, NEW t \in Threads, Step(t)
  PROVE  RWExclusion'
  <1>1. CASE ReadTaken(t)
    <2>1. Cardinality(Readers') = Cardinality(Readers) + 1
      BY <1>1, ReadersFinite, FS_AddElement DEF ReadTaken
    <2> QED BY <1>1, <2>1 DEF ReadTaken, RWExclusion
  <1>2. CASE WriteTaken(t)
    <2>1. Readers = {}
      BY <1>2, ReadersFinite, FS_EmptySet DEF WriteTaken, RWExclusion
    <2> QED BY <1>2, <2>1 DEF WriteTaken, RWExclusion
  <1>3. CASE ReadReleased(t)
    <2>1. Cardinality(Readers') = Cardinality(Readers) - 1
      BY <1>3, ReadersFinite, FS_RemoveElement DEF ReadReleased
    <2> QED BY <1>3, <2>1 DEF ReadReleased, RWExclusion
  <1>4. CASE WriteReleased(t)
    <2>1. Readers' = {} /\ Cardinality(Readers') = 0
      BY <1>4, FS_EmptySet DEF WriteReleased, RWExclusion
    <2> QED BY <1>4, <2>1 DEF WriteReleased, RWExclusion
  <1>5. CASE UNCHANGED <<state_, Readers, Writers>>
    BY <1>5 DEF RWExclusion
  <1> QED BY <1>1, <1>2, <1>3, <1>4, <1>5, HoldersStep

-----------------------------------------------------------------------------
(* One lemma for each other part of the invariant, one step per action. *)

\* The code's assertions, the local copies, the owner and the place of sleepers.
LEMMA LocalStep ==
  ASSUME TypeOK, RWExclusion, Local, RWLockAssumption, NEW t \in Threads, Step(t)
  PROVE  Local'
  <1> USE DEF TypeOK, Local, CodeAssertions, CopyInv, OwnerInv, SleepInv, Readers, Writers
  <1>1. CASE ReadLock(t)
    BY <1>1 DEF ReadLock, Enter, Goto
  <1>2. CASE WriteLock(t)
    BY <1>2 DEF WriteLock, Enter, Goto
  <1>3. CASE TryReadLock(t)
    BY <1>3 DEF TryReadLock, Enter, Goto
  <1>4. CASE TryWriteLock(t)
    BY <1>4 DEF TryWriteLock, Enter, Goto
  <1>5. CASE Unlock(t)
    BY <1>5, RWLockAssumption DEF Unlock, Goto, RWLockAssumption
  <1>6. CASE LockLoad(t)
    BY <1>6 DEF LockLoad, SetCur, Goto
  <1>7. CASE LockCasFail(t)
    BY <1>7 DEF LockCasFail, Forget, SetCur, Goto
  <1>8. CASE LockWaitBriefly(t)
    BY <1>8 DEF LockWaitBriefly, Goto
  <1>9. CASE IncrementWaiters(t)
    BY <1>9 DEF IncrementWaiters, Goto
  <1>10. CASE LockFutexWait(t)
    BY <1>10 DEF LockFutexWait, Goto
  <1>11. CASE LockWoken(t)
    BY <1>11 DEF LockWoken, Goto
  <1>12. CASE LockReload(t)
    BY <1>12 DEF LockReload, SetCur, Goto
  <1>13. CASE DecrementWaiters(t)
    BY <1>13 DEF DecrementWaiters, Forget, SetCur, Goto
  <1>14. CASE WriteOwn(t)
    <2>1. Writers = {t} /\ Readers = {}
      BY <1>14 DEF WriteOwn, Goto, RWExclusion
    <2> QED BY <1>14, <2>1 DEF WriteOwn, Goto
  <1>15. CASE TryFetch(t)
    BY <1>15 DEF TryFetch, Forget, SetCur
  <1>16. CASE UnlockLoad(t)
    <2>1. pc[t] = "wuLoad" => state_ = WRITE_LOCKED
      BY DEF RWExclusion
    <2>2. pc[t] = "ruLoad" => state_ > UNLOCKED
      <3>1. t \in Readers => Cardinality(Readers) # 0
        BY ReadersFinite, FS_EmptySet
      <3> QED BY <3>1, ReadersFinite DEF RWExclusion
    <2> QED BY <1>16, <2>1, <2>2 DEF UnlockLoad, SetCur, Goto
  <1>17. CASE WriteUnlockClearOwner(t)
    <2>1. Writers = {t}
      BY <1>17 DEF WriteUnlockClearOwner, Goto, RWExclusion
    <2> QED BY <1>17, <2>1 DEF WriteUnlockClearOwner, Goto
  <1>18. CASE UnlockCasFail(t)
    <2>1. pc[t] = "wuCas" => state_ = WRITE_LOCKED
      BY DEF RWExclusion
    <2>2. pc[t] = "ruCas" => state_ > UNLOCKED
      <3>1. t \in Readers => Cardinality(Readers) # 0
        BY ReadersFinite, FS_EmptySet
      <3> QED BY <3>1, ReadersFinite DEF RWExclusion
    <2> QED BY <1>18, <2>1, <2>2 DEF UnlockCasFail, SetCur
  <1>19. CASE UnlockCheckWaiters(t)
    BY <1>19 DEF UnlockCheckWaiters, Goto
  <1>20. CASE UnlockWakeAll(t)
    BY <1>20 DEF UnlockWakeAll, Goto
  <1>21. CASE LockCas(t)
    <2>1. Writers = {}
      BY <1>21, NoWriterWhenFree DEF LockCas, Goto
    <2> QED BY <1>21, <2>1, RWLockAssumption DEF LockCas, Forget, SetCur, Goto, RWLockAssumption
  <1>22. CASE TryCas(t)
    <2>1. Writers = {}
      BY <1>22, NoWriterWhenFree DEF TryCas, Goto
    <2> QED BY <1>22, <2>1, RWLockAssumption DEF TryCas, Forget, SetCur, Goto, RWLockAssumption
  <1>23. CASE WriteUnlockCas(t)
    BY <1>23 DEF WriteUnlockCas, Forget, SetCur, Goto
  <1>24. CASE ReadUnlockCas(t)
    BY <1>24 DEF ReadUnlockCas, Forget, SetCur, Goto
  <1>25. CASE FutexInterrupt(t)
    BY <1>25 DEF FutexInterrupt
  <1> QED
    BY <1>1, <1>2, <1>3, <1>4, <1>5, <1>6, <1>7, <1>8, <1>9, <1>10, <1>11, <1>12, <1>13, <1>14, <1>15, <1>16, <1>17, <1>18, <1>19, <1>20, <1>21, <1>22, <1>23, <1>24, <1>25
       DEF Step, Call, Progress, Cas

\* The threads in the slow path are finitely many; IncrementWaiters adds one to them
\* and DecrementWaiters takes one off.
LEMMA WaitingFinite ==
  ASSUME RWLockAssumption
  PROVE  IsFiniteSet(Waiting) /\ Cardinality(Waiting) \in Nat
  BY FS_Subset, FS_CardinalityType DEF RWLockAssumption, Waiting

LEMMA WaitingJoin ==
  ASSUME TypeOK, RWLockAssumption, NEW t \in Threads, IncrementWaiters(t)
  PROVE  Cardinality(Waiting') = Cardinality(Waiting) + 1
  <1>1. Waiting' = Waiting \cup {t} /\ t \notin Waiting
    BY DEF TypeOK, Waiting, IncrementWaiters, Goto
  <1> QED BY <1>1, WaitingFinite, FS_AddElement

LEMMA WaitingLeave ==
  ASSUME TypeOK, RWLockAssumption, NEW t \in Threads, DecrementWaiters(t)
  PROVE  Cardinality(Waiting') = Cardinality(Waiting) - 1 /\ Cardinality(Waiting) # 0
  <1>1. Waiting' = Waiting \ {t} /\ t \in Waiting
    BY DEF TypeOK, Waiting, DecrementWaiters, Goto
  <1> QED BY <1>1, WaitingFinite, FS_RemoveElement, FS_EmptySet

\* waiters_ stays exact: two actions change it, with the set of waiting threads, and
\* the others change neither.
LEMMA WaitersStep ==
  ASSUME TypeOK, WaitersExact, RWLockAssumption, NEW t \in Threads, Step(t)
  PROVE  WaitersExact' /\ waiters_' \in Nat
  <1> USE DEF TypeOK
  <1>a. CASE IncrementWaiters(t)
    BY <1>a, WaitingJoin, WaitingFinite DEF IncrementWaiters, WaitersExact
  <1>b. CASE DecrementWaiters(t)
    BY <1>b, WaitingLeave, WaitingFinite DEF DecrementWaiters, WaitersExact
  <1>c. ASSUME ~IncrementWaiters(t), ~DecrementWaiters(t)
        PROVE  Waiting' = Waiting /\ waiters_' = waiters_
    <2> USE DEF Waiting
    <2>1. CASE ReadLock(t)
      BY <2>1 DEF ReadLock, Enter, Goto
    <2>2. CASE WriteLock(t)
      BY <2>2 DEF WriteLock, Enter, Goto
    <2>3. CASE TryReadLock(t)
      BY <2>3 DEF TryReadLock, Enter, Goto
    <2>4. CASE TryWriteLock(t)
      BY <2>4 DEF TryWriteLock, Enter, Goto
    <2>5. CASE Unlock(t)
      BY <2>5 DEF Unlock, Goto
    <2>6. CASE LockLoad(t)
      BY <2>6 DEF LockLoad, Goto
    <2>7. CASE LockCasFail(t)
      BY <2>7 DEF LockCasFail, Goto
    <2>8. CASE LockWaitBriefly(t)
      BY <2>8 DEF LockWaitBriefly, Goto
    <2>9. CASE LockFutexWait(t)
      BY <2>9 DEF LockFutexWait, Goto
    <2>10. CASE LockWoken(t)
      BY <2>10 DEF LockWoken, Goto
    <2>11. CASE LockReload(t)
      BY <2>11 DEF LockReload, Goto
    <2>12. CASE WriteOwn(t)
      BY <2>12 DEF WriteOwn, Goto
    <2>13. CASE TryFetch(t)
      BY <2>13 DEF TryFetch
    <2>14. CASE UnlockLoad(t)
      BY <2>14 DEF UnlockLoad, Goto
    <2>15. CASE WriteUnlockClearOwner(t)
      BY <2>15 DEF WriteUnlockClearOwner, Goto
    <2>16. CASE UnlockCasFail(t)
      BY <2>16 DEF UnlockCasFail
    <2>17. CASE UnlockCheckWaiters(t)
      BY <2>17 DEF UnlockCheckWaiters, Goto
    <2>18. CASE UnlockWakeAll(t)
      BY <2>18 DEF UnlockWakeAll, Goto
    <2>19. CASE LockCas(t)
      BY <2>19 DEF LockCas, Goto
    <2>20. CASE TryCas(t)
      BY <2>20 DEF TryCas, Goto
    <2>21. CASE WriteUnlockCas(t)
      BY <2>21 DEF WriteUnlockCas, Goto
    <2>22. CASE ReadUnlockCas(t)
      BY <2>22 DEF ReadUnlockCas, Goto
    <2>23. CASE FutexInterrupt(t)
      BY <2>23 DEF FutexInterrupt
    <2> QED
      BY <2>1, <2>2, <2>3, <2>4, <2>5, <2>6, <2>7, <2>8, <2>9, <2>10, <2>11, <2>12, <2>13, <2>14, <2>15, <2>16, <2>17, <2>18, <2>19, <2>20, <2>21, <2>22, <2>23, <1>c
         DEF Step, Call, Progress, Cas
  <1> QED BY <1>a, <1>b, <1>c DEF WaitersExact

\* All variables keep their types.
LEMMA TypeStep ==
  ASSUME TypeOK, Local, WaitersExact, RWLockAssumption, NEW t \in Threads, Step(t)
  PROVE  TypeOK'
  <1> USE DEF TypeOK
  <1>0. waiters_' \in Nat
    BY WaitersStep
  <1>1. CASE ReadLock(t)
    BY <1>1, <1>0 DEF ReadLock, Enter, Goto
  <1>2. CASE WriteLock(t)
    BY <1>2, <1>0 DEF WriteLock, Enter, Goto
  <1>3. CASE TryReadLock(t)
    BY <1>3, <1>0 DEF TryReadLock, Enter, Goto
  <1>4. CASE TryWriteLock(t)
    BY <1>4, <1>0 DEF TryWriteLock, Enter, Goto
  <1>5. CASE Unlock(t)
    BY <1>5, <1>0 DEF Unlock, Goto
  <1>6. CASE LockLoad(t)
    BY <1>6, <1>0 DEF LockLoad, SetCur, Goto
  <1>7. CASE LockCasFail(t)
    BY <1>7, <1>0 DEF LockCasFail, Forget, SetCur, Goto
  <1>8. CASE LockWaitBriefly(t)
    BY <1>8, <1>0 DEF LockWaitBriefly, Goto
  <1>9. CASE IncrementWaiters(t)
    BY <1>9, <1>0 DEF IncrementWaiters, Goto
  <1>10. CASE LockFutexWait(t)
    BY <1>10, <1>0 DEF LockFutexWait, Goto
  <1>11. CASE LockWoken(t)
    BY <1>11, <1>0 DEF LockWoken, Goto
  <1>12. CASE LockReload(t)
    BY <1>12, <1>0 DEF LockReload, SetCur, Goto
  <1>13. CASE DecrementWaiters(t)
    BY <1>13, <1>0 DEF DecrementWaiters, Forget, SetCur, Goto
  <1>14. CASE WriteOwn(t)
    BY <1>14, <1>0 DEF WriteOwn, Goto
  <1>15. CASE TryFetch(t)
    BY <1>15, <1>0 DEF TryFetch, Forget, SetCur
  <1>16. CASE UnlockLoad(t)
    BY <1>16, <1>0 DEF UnlockLoad, SetCur, Goto
  <1>17. CASE WriteUnlockClearOwner(t)
    BY <1>17, <1>0 DEF WriteUnlockClearOwner, Goto
  <1>18. CASE UnlockCasFail(t)
    BY <1>18, <1>0 DEF UnlockCasFail, SetCur
  <1>19. CASE UnlockCheckWaiters(t)
    BY <1>19, <1>0 DEF UnlockCheckWaiters, Goto
  <1>20. CASE UnlockWakeAll(t)
    BY <1>20, <1>0 DEF UnlockWakeAll, Goto
  <1>21. CASE LockCas(t)
    BY <1>21, <1>0 DEF LockCas, Forget, SetCur, Goto
  <1>22. CASE TryCas(t)
    BY <1>22, <1>0 DEF TryCas, Forget, SetCur, Goto
  <1>23. CASE WriteUnlockCas(t)
    BY <1>23, <1>0 DEF WriteUnlockCas, Forget, SetCur, Goto
  <1>24. CASE ReadUnlockCas(t)
    BY <1>24, <1>0 DEF ReadUnlockCas, Forget, SetCur, Goto
  <1>25. CASE FutexInterrupt(t)
    BY <1>25, <1>0 DEF FutexInterrupt
  <1> QED
    BY <1>1, <1>2, <1>3, <1>4, <1>5, <1>6, <1>7, <1>8, <1>9, <1>10, <1>11, <1>12, <1>13, <1>14, <1>15, <1>16, <1>17, <1>18, <1>19, <1>20, <1>21, <1>22, <1>23, <1>24, <1>25
       DEF Step, Call, Progress, Cas

\* Whoever goes to sleep saw the lock taken; whoever makes it available to a sleeper
\* goes on to read waiters_, which counts the sleeper, and wakes everybody.
LEMMA WakeupStep ==
  ASSUME TypeOK, RWExclusion, Local, WaitersExact, NoLostWakeup, RWLockAssumption,
         NEW t \in Threads, Step(t)
  PROVE  NoLostWakeup'
  <1> USE DEF TypeOK, NoLostWakeup, Local, SleepInv
  <1>1. CASE ReadLock(t)
    BY <1>1 DEF ReadLock, Enter, Goto
  <1>2. CASE WriteLock(t)
    BY <1>2 DEF WriteLock, Enter, Goto
  <1>3. CASE TryReadLock(t)
    BY <1>3 DEF TryReadLock, Enter, Goto
  <1>4. CASE TryWriteLock(t)
    BY <1>4 DEF TryWriteLock, Enter, Goto
  <1>5. CASE Unlock(t)
    BY <1>5 DEF Unlock, Goto
  <1>6. CASE LockLoad(t)
    BY <1>6 DEF LockLoad, Goto
  <1>7. CASE LockCasFail(t)
    BY <1>7 DEF LockCasFail, Goto
  <1>8. CASE LockWaitBriefly(t)
    BY <1>8 DEF LockWaitBriefly, Goto
  <1>9. CASE IncrementWaiters(t)
    BY <1>9 DEF IncrementWaiters, Goto
  <1>10. CASE LockFutexWait(t)
    BY <1>10 DEF LockFutexWait, Goto, CopyInv
  <1>11. CASE LockWoken(t)
    BY <1>11 DEF LockWoken, Goto
  <1>12. CASE LockReload(t)
    BY <1>12 DEF LockReload, Goto
  <1>13. CASE DecrementWaiters(t)
    BY <1>13 DEF DecrementWaiters, Goto
  <1>14. CASE WriteOwn(t)
    BY <1>14 DEF WriteOwn, Goto
  <1>15. CASE TryFetch(t)
    BY <1>15 DEF TryFetch
  <1>16. CASE UnlockLoad(t)
    BY <1>16 DEF UnlockLoad, Goto
  <1>17. CASE WriteUnlockClearOwner(t)
    BY <1>17 DEF WriteUnlockClearOwner, Goto
  <1>18. CASE UnlockCasFail(t)
    BY <1>18 DEF UnlockCasFail
  <1>19. CASE UnlockCheckWaiters(t)
    <2>1. CASE waiters_ = 0
      <3>1. Waiting = {}
        BY <2>1, WaitingFinite, FS_EmptySet DEF WaitersExact
      <3>2. rwQ = {}
        BY <3>1 DEF Waiting
      <3> QED BY <1>19, <3>2 DEF UnlockCheckWaiters
    <2>2. CASE waiters_ > 0
      BY <1>19, <2>2 DEF UnlockCheckWaiters, Goto
    <2> QED BY <2>1, <2>2
  <1>20. CASE UnlockWakeAll(t)
    BY <1>20 DEF UnlockWakeAll, Goto
  <1>21. CASE LockCas(t)
    BY <1>21 DEF LockCas, Goto, CopyInv
  <1>22. CASE TryCas(t)
    BY <1>22 DEF TryCas, Goto, CopyInv
  <1>23. CASE WriteUnlockCas(t)
    BY <1>23 DEF WriteUnlockCas, Goto
  <1>24. CASE ReadUnlockCas(t)
    BY <1>24 DEF ReadUnlockCas, Goto, CodeAssertions
  <1>25. CASE FutexInterrupt(t)
    BY <1>25 DEF FutexInterrupt
  <1> QED
    BY <1>1, <1>2, <1>3, <1>4, <1>5, <1>6, <1>7, <1>8, <1>9, <1>10, <1>11, <1>12, <1>13, <1>14, <1>15, <1>16, <1>17, <1>18, <1>19, <1>20, <1>21, <1>22, <1>23, <1>24, <1>25
       DEF Step, Call, Progress, Cas

-----------------------------------------------------------------------------
(* The theorems. *)

\* The conjunction is an invariant: it holds initially, and each of its parts is
\* preserved by every step of every thread.
THEOREM Invariance == Spec => []Inv
  <1>1. Init => Inv
    <2> SUFFICES ASSUME Init PROVE Inv
      OBVIOUS
    <2>1. TypeOK /\ Local /\ NoLostWakeup
      BY RWLockAssumption DEF Init, TypeOK, Local, CodeAssertions, CopyInv, OwnerInv,
         SleepInv, NoLostWakeup, RWLockAssumption, Readers, Writers
    <2>2. Waiting = {} /\ Readers = {} /\ Writers = {}
      BY DEF Init, Waiting, Readers, Writers
    <2> QED BY <2>1, <2>2, FS_EmptySet DEF Init, Inv, WaitersExact, RWExclusion
  <1>2. Inv /\ [Next]_vars => Inv'
    <2> SUFFICES ASSUME Inv, [Next]_vars PROVE Inv'
      OBVIOUS
    <2>1. CASE Next
      <3>1. PICK t \in Threads : Step(t)
        BY <2>1 DEF Next, Step
      <3> QED
        BY <3>1, TypeStep, ExclusionStep, LocalStep, WaitersStep, WakeupStep,
           RWLockAssumption DEF Inv
    <2>2. CASE UNCHANGED vars
      BY <2>2 DEF vars, Inv, TypeOK, RWExclusion, Local, CodeAssertions, CopyInv, OwnerInv,
         SleepInv, WaitersExact, NoLostWakeup, Readers, Writers, Waiting
    <2> QED BY <2>1, <2>2
  <1> QED BY <1>1, <1>2, PTL DEF Spec

\* A writer is alone between its acquiring and its releasing exchange, and state_
\* counts the readers exactly, for any number of threads.
THEOREM Exclusion == Spec => [](TypeOK /\ RWExclusion)
  <1>1. Inv => TypeOK /\ RWExclusion
    BY DEF Inv
  <1> QED BY <1>1, Invariance, PTL

\* None of the ASSERTs and aborts of the lock is reached; in particular Unlock never
\* takes a reader for a writer or the other way round, although exclusive_owner_
\* and state_ change in separate steps.
THEOREM AssertionsHold == Spec => []CodeAssertions
  <1>1. Inv => CodeAssertions
    BY DEF Inv, Local
  <1> QED BY <1>1, Invariance, PTL

\* Nobody sleeps beside a lock it could take unless an unlocker is about to look at
\* waiters_ or to wake everybody, although state_ and waiters_ are two words.
THEOREM NoWakeupLost == Spec => []NoLostWakeup
  <1>1. Inv => NoLostWakeup
    BY DEF Inv
  <1> QED BY <1>1, Invariance, PTL

-----------------------------------------------------------------------------
(* The lock implements AbstractRWLock. *)

AbstractWriter == IF Writers = {} THEN NoThread ELSE CHOOSE t \in Threads : t \in Writers

\* The mapping without its CHOOSE.
LEMMA WriterMap ==
  ASSUME RWLockAssumption
  PROVE  /\ Writers = {} => AbstractWriter = NoThread
         /\ \A t : Writers = {t} => AbstractWriter = t
  BY DEF AbstractWriter, Writers

LEMMA WriterMapPrime ==
  ASSUME RWLockAssumption
  PROVE  /\ Writers' = {} => AbstractWriter' = NoThread
         /\ \A t : Writers' = {t} => AbstractWriter' = t
  BY DEF AbstractWriter, Writers

\* Every step is a step of the abstract lock or leaves it alone.
LEMMA AbstractStep ==
  ASSUME TypeOK, RWExclusion, Local, RWLockAssumption, NEW t \in Threads, Step(t)
  PROVE  [Abstract!Next]_<<Readers, AbstractWriter>>
  <1>1. CASE ReadTaken(t)
    <2>1. Abstract!ReadLock(t)
      BY <1>1, WriterMap, WriterMapPrime DEF ReadTaken, Abstract!ReadLock, AbstractWriter
    <2> QED BY <2>1 DEF Abstract!Next
  <1>2. CASE WriteTaken(t)
    <2>1. Readers = {}
      BY <1>2, ReadersFinite, FS_EmptySet DEF WriteTaken, RWExclusion
    <2>2. Abstract!WriteLock(t)
      BY <1>2, <2>1, WriterMap, WriterMapPrime DEF WriteTaken, Abstract!WriteLock, AbstractWriter
    <2> QED BY <2>2 DEF Abstract!Next
  <1>3. CASE ReadReleased(t)
    <2>1. Writers = {}
      BY <1>3 DEF ReadReleased, RWExclusion
    <2>2. Abstract!Unlock(t)
      BY <1>3, <2>1, WriterMap, WriterMapPrime DEF ReadReleased, Abstract!Unlock, AbstractWriter
    <2> QED BY <2>2 DEF Abstract!Next
  <1>4. CASE WriteReleased(t)
    <2>1. Abstract!Unlock(t)
      BY <1>4, WriterMap, WriterMapPrime DEF WriteReleased, Abstract!Unlock, AbstractWriter
    <2> QED BY <2>1 DEF Abstract!Next
  <1>5. CASE UNCHANGED <<state_, Readers, Writers>>
    BY <1>5 DEF AbstractWriter
  <1> QED BY <1>1, <1>2, <1>3, <1>4, <1>5, HoldersStep

\* The futex RWLock implements the readers-writer lock that the suspension protocol
\* relies on: readers and a writer exclude each other, and the lock changes hands
\* only at the exchanges of state_.
THEOREM Refinement == Spec => RefinesRWLock
  <1>1. Init => Abstract!Init
    BY DEF Init, Abstract!Init, Readers, Writers
  <1>2. Inv /\ [Next]_vars => [Abstract!Next]_<<Readers, AbstractWriter>>
    <2> SUFFICES ASSUME Inv, [Next]_vars
                 PROVE  [Abstract!Next]_<<Readers, AbstractWriter>>
      OBVIOUS
    <2>1. CASE Next
      <3>1. PICK t \in Threads : Step(t)
        BY <2>1 DEF Next, Step
      <3> QED BY <3>1, AbstractStep, RWLockAssumption DEF Inv
    <2>2. CASE UNCHANGED vars
      BY <2>2 DEF vars, Readers, Writers, AbstractWriter
    <2> QED BY <2>1, <2>2
  <1> QED
    BY <1>1, <1>2, Invariance, PTL
       DEF Spec, RefinesRWLock, Abstract!Spec, Abstract!rwVars, AbstractWriter
=============================================================================
