------------------------------- MODULE FutexMutex -------------------------------
(***************************************************************************)
(* panda::os::unix::memory::futex::Mutex and RecursiveMutex                *)
(* (libpandabase/os/unix/futex/mutex.{h,cpp}).                             *)
(*                                                                         *)
(* The word state_and_waiters_ packs the held bit and the number of        *)
(* waiters; it is a record here, and is loaded, compared and exchanged     *)
(* whole, as in the code.  Every access to the word, to exclusive_owner_   *)
(* and to the kernel is a step of its own.  The futex system call is the   *)
(* kernel's: FUTEX_WAIT compares the word and puts the caller to sleep in  *)
(* one step, FUTEX_WAKE wakes any one sleeper, and a sleeper may return at *)
(* any time (EINTR).                                                       *)
(***************************************************************************)
EXTENDS Naturals, FiniteSets

CONSTANTS
  Threads,           \* the threads that use the mutex
  NoThread,          \* the value 0 of exclusive_owner_
  recursive_mutex_,  \* TRUE for a RecursiveMutex
  MaxRecursion,      \* bound: deepest recursion a client reaches
  SpinTries          \* MAX_ITER of TryLockWithSpinning

ASSUME MutexAssumption ==
  /\ IsFiniteSet(Threads)
  /\ NoThread \notin Threads
  /\ recursive_mutex_ \in BOOLEAN
  /\ MaxRecursion \in Nat \ {0}
  /\ SpinTries \in Nat \ {0}

VARIABLES
  state_and_waiters_,  \* [held, waiters]
  exclusive_owner_,    \* owner's thread id, NoThread when 0
  recursive_count_,
  futexQ,              \* kernel: threads asleep on the address of state_and_waiters_
  pc,                  \* where each thread is in the mutex's code
  cur_state,           \* each thread's local copy of the word
  tries                \* each thread's attempts left in TryLockWithSpinning

mutexVars == <<state_and_waiters_, exclusive_owner_, recursive_count_, futexQ,
               pc, cur_state, tries>>

(***************************************************************************)
(* "out": not in the mutex and not holding it; "in": back in the client    *)
(* with the mutex held.  The other values name the next access.            *)
(***************************************************************************)
WaitingPcs == {"wait", "sleep", "reload", "dec"}
LockPcs    == {"load", "cas", "brief", "inc"} \cup WaitingPcs
TryPcs     == {"tryLoad", "tryCas", "spin"}
UnlockPcs  == {"unlockLoad", "unlockClear", "unlockCas"}
HolderPcs  == {"own", "in"} \cup UnlockPcs
Pcs        == {"out", "wake"} \cup LockPcs \cup TryPcs \cup HolderPcs

Words == [held : BOOLEAN, waiters : Nat]
Unlocked == [held |-> FALSE, waiters |-> 0]

IsHeld(t) == exclusive_owner_ = t

Goto(t, from, to) ==
  /\ pc[t] = from
  /\ pc' = [pc EXCEPT ![t] = to]

\* A local that is not read again goes back to its initial value.
Forget(t) == cur_state' = [cur_state EXCEPT ![t] = Unlocked]

IncrementWaiters == [state_and_waiters_ EXCEPT !.waiters = @ + 1]

DecrementWaiters == [state_and_waiters_ EXCEPT !.waiters = @ - 1]

Init ==
  /\ state_and_waiters_ = Unlocked
  /\ exclusive_owner_ = NoThread
  /\ recursive_count_ = 0
  /\ futexQ = {}
  /\ pc = [t \in Threads |-> "out"]
  /\ cur_state = [t \in Threads |-> Unlocked]
  /\ tries = [t \in Threads |-> 0]

-----------------------------------------------------------------------------
(* The kernel's side of the futex call on the word. *)

\* FUTEX_WAIT with expected value cur: sleep if the word still has it, else EAGAIN.
FutexWait(t, cur) ==
  futexQ' = IF state_and_waiters_ = cur THEN futexQ \cup {t} ELSE futexQ

\* FUTEX_WAKE of one thread.
FutexWakeOne ==
  IF futexQ = {} THEN UNCHANGED futexQ
                 ELSE \E t \in futexQ : futexQ' = futexQ \ {t}

\* EINTR: the sleeper leaves the queue without a wake.
FutexInterrupt(t) ==
  /\ pc[t] = "sleep"
  /\ t \in futexQ
  /\ futexQ' = futexQ \ {t}
  /\ UNCHANGED <<state_and_waiters_, exclusive_owner_, recursive_count_, pc,
                 cur_state, tries>>

-----------------------------------------------------------------------------
(* Mutex::Lock *)

\* Entry: a recursive mutex held by the caller is only counted.
Lock(t) ==
  \/ /\ ~IsHeld(t)
     /\ Goto(t, "out", "load")
     /\ UNCHANGED <<state_and_waiters_, exclusive_owner_, recursive_count_,
                    futexQ, cur_state, tries>>
  \/ /\ recursive_mutex_
     /\ IsHeld(t)
     /\ pc[t] = "in"
     /\ recursive_count_ < MaxRecursion
     /\ recursive_count_' = recursive_count_ + 1
     /\ UNCHANGED <<state_and_waiters_, exclusive_owner_, futexQ, pc,
                    cur_state, tries>>

LockLoad(t) ==
  /\ Goto(t, "load", IF state_and_waiters_.held THEN "brief" ELSE "cas")
  /\ cur_state' = [cur_state EXCEPT ![t] = state_and_waiters_]
  /\ UNCHANGED <<state_and_waiters_, exclusive_owner_, recursive_count_,
                 futexQ, tries>>

\* Mutant: the held bit is stored without comparing the word.
LockCasBlind(t) ==
  /\ Goto(t, "cas", "own")
  /\ state_and_waiters_' = [state_and_waiters_ EXCEPT !.held = TRUE]
  /\ Forget(t)
  /\ UNCHANGED <<exclusive_owner_, recursive_count_, futexQ, tries>>

LockCas(t) ==
  /\ Goto(t, "cas", "own")
  /\ state_and_waiters_ = cur_state[t]
  /\ state_and_waiters_' = [cur_state[t] EXCEPT !.held = TRUE]
  /\ Forget(t)
  /\ UNCHANGED <<exclusive_owner_, recursive_count_, futexQ, tries>>

\* compare_exchange_weak fails, spuriously or because the word changed.
LockCasFail(t) ==
  /\ Goto(t, "cas", "load")
  /\ Forget(t)
  /\ UNCHANGED <<state_and_waiters_, exclusive_owner_, recursive_count_,
                 futexQ, tries>>

\* WaitBrieflyFor: the last load decides; held at that load is a failure.
LockWaitBriefly(t) ==
  /\ Goto(t, "brief", IF state_and_waiters_.held THEN "inc" ELSE "load")
  /\ IF state_and_waiters_.held THEN UNCHANGED cur_state ELSE Forget(t)
  /\ UNCHANGED <<state_and_waiters_, exclusive_owner_, recursive_count_,
                 futexQ, tries>>

\* cur_state keeps the value of the first load, adjusted by this increment.
LockIncrementWaiters(t) ==
  /\ Goto(t, "inc", "wait")
  /\ state_and_waiters_' = IncrementWaiters
  /\ cur_state' = [cur_state EXCEPT ![t].waiters = @ + 1]
  /\ UNCHANGED <<exclusive_owner_, recursive_count_, futexQ, tries>>

LockFutexWait(t) ==
  /\ Goto(t, "wait", IF state_and_waiters_ = cur_state[t] THEN "sleep" ELSE "reload")
  /\ FutexWait(t, cur_state[t])
  /\ UNCHANGED <<state_and_waiters_, exclusive_owner_, recursive_count_,
                 cur_state, tries>>

LockWoken(t) ==
  /\ t \notin futexQ
  /\ Goto(t, "sleep", "reload")
  /\ UNCHANGED <<state_and_waiters_, exclusive_owner_, recursive_count_,
                 futexQ, cur_state, tries>>

LockReload(t) ==
  /\ Goto(t, "reload", IF state_and_waiters_.held THEN "wait" ELSE "dec")
  /\ cur_state' = [cur_state EXCEPT ![t] = state_and_waiters_]
  /\ UNCHANGED <<state_and_waiters_, exclusive_owner_, recursive_count_,
                 futexQ, tries>>

\* Mutant: a waiter leaves the slow path without taking itself off the count.
LockForgetWaiter(t) ==
  /\ Goto(t, "dec", "load")
  /\ Forget(t)
  /\ UNCHANGED <<state_and_waiters_, exclusive_owner_, recursive_count_, futexQ, tries>>

LockDecrementWaiters(t) ==
  /\ Goto(t, "dec", "load")
  /\ state_and_waiters_' = DecrementWaiters
  /\ Forget(t)
  /\ UNCHANGED <<exclusive_owner_, recursive_count_, futexQ, tries>>

\* The common end of Lock and TryLock: the owner and the count are stored.
LockOwn(t) ==
  /\ Goto(t, "own", "in")
  /\ exclusive_owner_' = t
  /\ recursive_count_' = recursive_count_ + 1
  /\ UNCHANGED <<state_and_waiters_, futexQ, cur_state, tries>>

-----------------------------------------------------------------------------
(* Mutex::TryLock and Mutex::TryLockWithSpinning *)

\* Entry of TryLock (n = 0) and of TryLockWithSpinning (n attempts left).
TryLockEntry(t, n) ==
  \/ /\ ~IsHeld(t)
     /\ Goto(t, "out", "tryLoad")
     /\ tries' = [tries EXCEPT ![t] = n]
     /\ UNCHANGED <<state_and_waiters_, exclusive_owner_, recursive_count_,
                    futexQ, cur_state>>
  \/ /\ recursive_mutex_
     /\ IsHeld(t)
     /\ pc[t] = "in"
     /\ recursive_count_ < MaxRecursion
     /\ recursive_count_' = recursive_count_ + 1
     /\ UNCHANGED <<state_and_waiters_, exclusive_owner_, futexQ, pc,
                    cur_state, tries>>

TryLock(t) == TryLockEntry(t, 0)

TryLockWithSpinning(t) == TryLockEntry(t, SpinTries)

\* The load, or the value fetched by a failed exchange: if the mutex is held
\* TryLock returns false, which sends the spinning variant to WaitBrieflyFor.
TryLockFetch(t) ==
  /\ pc[t] \in {"tryLoad", "tryCas"}
  /\ IF state_and_waiters_.held
       THEN Forget(t) ELSE cur_state' = [cur_state EXCEPT ![t] = state_and_waiters_]
  /\ pc' = [pc EXCEPT ![t] = IF ~state_and_waiters_.held THEN "tryCas"
                             ELSE IF tries[t] > 0 THEN "spin" ELSE "out"]
  /\ UNCHANGED <<state_and_waiters_, exclusive_owner_, recursive_count_,
                 futexQ, tries>>

TryLockCas(t) ==
  /\ Goto(t, "tryCas", "own")
  /\ state_and_waiters_ = cur_state[t]
  /\ state_and_waiters_' = [cur_state[t] EXCEPT !.held = TRUE]
  /\ Forget(t)
  /\ UNCHANGED <<exclusive_owner_, recursive_count_, futexQ, tries>>

\* The wait between two attempts; still held, or no attempt left: give up.
TryLockSpin(t) ==
  /\ Goto(t, "spin", IF state_and_waiters_.held \/ tries[t] = 1
                     THEN "out" ELSE "tryLoad")
  /\ tries' = [tries EXCEPT ![t] = @ - 1]
  /\ UNCHANGED <<state_and_waiters_, exclusive_owner_, recursive_count_,
                 futexQ, cur_state>>

-----------------------------------------------------------------------------
(* Mutex::Unlock *)

\* Mutant: a nested Unlock drops every level, though the mutex stays held.
UnlockForgetsLevels(t) ==
  /\ pc[t] = "in"
  /\ IsHeld(t)
  /\ recursive_count_' = 0
  /\ pc' = [pc EXCEPT ![t] = IF recursive_mutex_ /\ recursive_count_ > 1
                             THEN "in" ELSE "unlockLoad"]
  /\ UNCHANGED <<state_and_waiters_, exclusive_owner_, futexQ, cur_state, tries>>

\* Only the holder may call it (the code aborts otherwise).
Unlock(t) ==
  /\ pc[t] = "in"
  /\ IsHeld(t)
  /\ recursive_count_' = recursive_count_ - 1
  /\ pc' = [pc EXCEPT ![t] = IF recursive_mutex_ /\ recursive_count_ > 1
                             THEN "in" ELSE "unlockLoad"]
  /\ UNCHANGED <<state_and_waiters_, exclusive_owner_, futexQ, cur_state, tries>>

UnlockLoad(t) ==
  /\ Goto(t, "unlockLoad", "unlockClear")
  /\ cur_state' = [cur_state EXCEPT ![t] = state_and_waiters_]
  /\ UNCHANGED <<state_and_waiters_, exclusive_owner_, recursive_count_,
                 futexQ, tries>>

\* Mutant: the owner is not reset before the word is released.
UnlockKeepOwner(t) ==
  /\ Goto(t, "unlockClear", "unlockCas")
  /\ UNCHANGED <<state_and_waiters_, exclusive_owner_, recursive_count_, futexQ,
                 cur_state, tries>>

UnlockClearOwner(t) ==
  /\ Goto(t, "unlockClear", "unlockCas")
  /\ exclusive_owner_' = NoThread
  /\ UNCHANGED <<state_and_waiters_, recursive_count_, futexQ, cur_state, tries>>

\* Mutant: off by one in the test for waiters.
UnlockCasMissesOne(t) ==
  /\ state_and_waiters_ = cur_state[t]
  /\ Goto(t, "unlockCas", IF cur_state[t].waiters > 1 THEN "wake" ELSE "out")
  /\ state_and_waiters_' = [cur_state[t] EXCEPT !.held = FALSE]
  /\ Forget(t)
  /\ UNCHANGED <<exclusive_owner_, recursive_count_, futexQ, tries>>

UnlockCas(t) ==
  /\ state_and_waiters_ = cur_state[t]
  /\ Goto(t, "unlockCas", IF cur_state[t].waiters # 0 THEN "wake" ELSE "out")
  /\ state_and_waiters_' = [cur_state[t] EXCEPT !.held = FALSE]
  /\ Forget(t)
  /\ UNCHANGED <<exclusive_owner_, recursive_count_, futexQ, tries>>

\* The exchange fails: cur_state gets the fetched value and the loop is redone.
UnlockCasFail(t) ==
  /\ Goto(t, "unlockCas", "unlockClear")
  /\ cur_state' = [cur_state EXCEPT ![t] = state_and_waiters_]
  /\ UNCHANGED <<state_and_waiters_, exclusive_owner_, recursive_count_,
                 futexQ, tries>>

UnlockWake(t) ==
  /\ Goto(t, "wake", "out")
  /\ FutexWakeOne
  /\ UNCHANGED <<state_and_waiters_, exclusive_owner_, recursive_count_,
                 cur_state, tries>>

-----------------------------------------------------------------------------
\* What a client may call.
Call(t) == Lock(t) \/ TryLock(t) \/ TryLockWithSpinning(t) \/ Unlock(t)

\* Steps of a call in progress that its thread takes by itself.
Progress(t) ==
  \/ LockLoad(t) \/ LockWaitBriefly(t) \/ LockIncrementWaiters(t)
  \/ LockFutexWait(t) \/ LockWoken(t) \/ LockReload(t)
  \/ LockDecrementWaiters(t) \/ LockOwn(t)
  \/ TryLockFetch(t) \/ TryLockSpin(t)
  \/ UnlockLoad(t) \/ UnlockClearOwner(t) \/ UnlockWake(t)

\* The three exchanges that change the word, and their failures.
Cas(t) == LockCas(t) \/ TryLockCas(t) \/ UnlockCas(t)
CasFail(t) == LockCasFail(t) \/ UnlockCasFail(t)

\* Every step of a call in progress, the kernel's interruptions included.
MutexStep(t) == Progress(t) \/ Cas(t) \/ CasFail(t) \/ FutexInterrupt(t)

Next == \E t \in Threads : Call(t) \/ MutexStep(t)

Spec == Init /\ [][Next]_mutexVars

\* A thread inside a call keeps running; clients need not call nor unlock.  An
\* exchange that can succeed again and again does: compare_exchange_weak may
\* fail spuriously, but not for ever.
Fairness ==
  \A t \in Threads : /\ WF_mutexVars(Progress(t) \/ Cas(t) \/ CasFail(t))
                     /\ SF_mutexVars(Cas(t))

FairSpec == Spec /\ Fairness
-----------------------------------------------------------------------------
(* Properties *)

TypeOK ==
  /\ state_and_waiters_ \in Words
  /\ exclusive_owner_ \in Threads \cup {NoThread}
  /\ recursive_count_ \in Nat
  /\ futexQ \subseteq Threads
  /\ pc \in [Threads -> Pcs]
  /\ cur_state \in [Threads -> Words]
  /\ tries \in [Threads -> 0..SpinTries]

Holders == {t \in Threads : pc[t] \in HolderPcs}

Waiting == {t \in Threads : pc[t] \in WaitingPcs}

\* Mutual exclusion: the held bit is set exactly while one thread is between its
\* successful exchange in Lock or TryLock and its successful exchange in Unlock.
MutualExclusion ==
  /\ \A t, u \in Holders : t = u
  /\ state_and_waiters_.held <=> Holders # {}

\* The conditions the code asserts or aborts on: no owner and no recursion count
\* when a thread has just acquired (Lock, TryLock), the caller owns the mutex
\* while it is inside, and Unlock never finds the held bit clear.
CodeAssertions ==
  \A t \in Threads :
    /\ pc[t] = "own" => exclusive_owner_ = NoThread /\ recursive_count_ = 0
    /\ pc[t] = "in" => IsHeld(t) /\ recursive_count_ > 0
    /\ IsHeld(t) => pc[t] \in {"in", "unlockLoad", "unlockClear"}
    /\ pc[t] \in {"unlockClear", "unlockCas"} => cur_state[t].held

\* The waiter count of the word is exact, so that Unlock's test new_state != 0
\* neither misses a sleeper nor, once all are gone, leaves the word non-zero for
\* the destructor to abort on.
WaitersExact == state_and_waiters_.waiters = Cardinality(Waiting)

\* No lost wake-up: whenever the mutex is free and a thread sleeps on it, either
\* an Unlock is about to call FUTEX_WAKE or some other thread is awake in Lock,
\* will take the mutex, and will find the sleeper counted when it unlocks.
NoLostWakeup ==
  ~state_and_waiters_.held /\ futexQ # {} =>
    \E t \in Threads : pc[t] = "wake" \/ (pc[t] \in LockPcs /\ t \notin futexQ)

\* A thread is stuck in Lock for ever only if the mutex is held again and again:
\* Lock may starve (a newcomer may take the mutex before the thread Unlock woke),
\* but it never sleeps beside a mutex that everybody has left.
NoStuckLock ==
  \A t \in Threads : <>[](pc[t] \in LockPcs) => []<>(Holders # {})

\* Refinement of AbstractLock: the lock changes hands at the exchanges of the
\* word; the recursion count lags behind them, by LockOwn and by Unlock's entry.
AbstractOwner ==
  IF Holders = {} THEN NoThread ELSE CHOOSE t \in Threads : pc[t] \in HolderPcs

AbstractDepth ==
  IF Holders = {} THEN 0
  ELSE IF pc[AbstractOwner] = "in" THEN recursive_count_ ELSE 1

Abstract == INSTANCE AbstractLock WITH owner <- AbstractOwner, depth <- AbstractDepth

\* The mutex implements the abstract lock: ownership passes only through an
\* unlocked state, and only the owner changes the recursion depth.
RefinesLock == Abstract!Spec
=============================================================================
