------------------------------- MODULE FutexRWLock -------------------------------
(***************************************************************************)
(* panda::os::unix::memory::futex::RWLock                                  *)
(* (libpandabase/os/unix/futex/mutex.{h,cpp}), the type of the runtime's   *)
(* mutator_lock.                                                           *)
(*                                                                         *)
(* Unlike Mutex, the waiter count is a word of its own, so an unlocker     *)
(* first releases state_ and then reads waiters_, while a waiter first     *)
(* counts itself and then sleeps only if state_ is unchanged.  The reading *)
(* and the writing path are the same loop with different conditions;       *)
(* mode[t] tells them apart.                                               *)
(***************************************************************************)
EXTENDS Integers, FiniteSets

CONSTANTS
  Threads,   \* the threads that use the lock
  NoThread   \* the value 0 of exclusive_owner_

ASSUME RWLockAssumption ==
  /\ IsFiniteSet(Threads)
  /\ NoThread \notin Threads

VARIABLES
  state_,            \* -1 write locked, 0 unlocked, n > 0 read locked n times
  exclusive_owner_,
  waiters_,          \* number of threads in the slow path of ReadLock and WriteLock
  rwQ,               \* kernel: threads asleep on the address of state_
  pc,                \* where each thread is in the lock's code
  mode,              \* "read" or "write": the operation in progress
  cur_state          \* each thread's local copy of state_

vars == <<state_, exclusive_owner_, waiters_, rwQ, pc, mode, cur_state>>

WRITE_LOCKED == -1
UNLOCKED == 0
READ_INCREMENT == 1

Modes == {"read", "write"}

\* "out": not in the lock and not holding it; "held": in the client with the lock.
WaitingPcs == {"wait", "sleep", "reload", "dec"}
LockPcs == {"load", "cas", "brief", "inc"} \cup WaitingPcs
TryPcs == {"tryLoad", "tryCas"}
WriteUnlockPcs == {"wuLoad", "wuClear", "wuCas"}
ReadUnlockPcs == {"ruLoad", "ruCas"}
Pcs == {"out", "own", "held", "check", "wake"}
         \cup LockPcs \cup TryPcs \cup WriteUnlockPcs \cup ReadUnlockPcs

HasExclusiveHolder == exclusive_owner_ # NoThread

\* The condition under which the lock can be taken in mode m.
Available(m, s) == IF m = "read" THEN s >= UNLOCKED ELSE s = UNLOCKED

\* The state after taking it.
Taken(m, s) == IF m = "read" THEN s + READ_INCREMENT ELSE WRITE_LOCKED

\* A reader holds the lock after its exchange; a writer still has to store exclusive_owner_.
AfterCas(m) == IF m = "read" THEN "held" ELSE "own"

Goto(t, from, to) ==
  /\ pc[t] = from
  /\ pc' = [pc EXCEPT ![t] = to]

SetCur(t, v) == cur_state' = [cur_state EXCEPT ![t] = v]

\* A local that is not read again goes back to its initial value.
Forget(t) == SetCur(t, UNLOCKED)

Init ==
  /\ state_ = UNLOCKED
  /\ exclusive_owner_ = NoThread
  /\ waiters_ = 0
  /\ rwQ = {}
  /\ pc = [t \in Threads |-> "out"]
  /\ mode = [t \in Threads |-> "read"]
  /\ cur_state = [t \in Threads |-> UNLOCKED]

-----------------------------------------------------------------------------
(* ReadLock with HandleReadLockWait, and WriteLock *)

Enter(t, m, to) ==
  /\ Goto(t, "out", to)
  /\ mode' = [mode EXCEPT ![t] = m]
  /\ UNCHANGED <<state_, exclusive_owner_, waiters_, rwQ, cur_state>>

ReadLock(t) == Enter(t, "read", "load")

WriteLock(t) == Enter(t, "write", "load")

LockLoad(t) ==
  /\ Goto(t, "load", IF Available(mode[t], state_) THEN "cas" ELSE "brief")
  /\ SetCur(t, state_)
  /\ UNCHANGED <<state_, exclusive_owner_, waiters_, rwQ, mode>>

LockCas(t) ==
  /\ Goto(t, "cas", AfterCas(mode[t]))
  /\ state_ = cur_state[t]
  /\ state_' = Taken(mode[t], state_)
  /\ Forget(t)
  /\ UNCHANGED <<exclusive_owner_, waiters_, rwQ, mode>>

\* compare_exchange_weak fails, spuriously or because state_ changed.
LockCasFail(t) ==
  /\ Goto(t, "cas", "load")
  /\ Forget(t)
  /\ UNCHANGED <<state_, exclusive_owner_, waiters_, rwQ, mode>>

\* WaitBrieflyFor: the last load decides.
LockWaitBriefly(t) ==
  /\ Goto(t, "brief", IF Available(mode[t], state_) THEN "load" ELSE "inc")
  /\ UNCHANGED <<state_, exclusive_owner_, waiters_, rwQ, mode, cur_state>>

IncrementWaiters(t) ==
  /\ Goto(t, "inc", "wait")
  /\ waiters_' = waiters_ + 1
  /\ UNCHANGED <<state_, exclusive_owner_, rwQ, mode, cur_state>>

\* FUTEX_WAIT: sleep if state_ still has the value loaded last, else EAGAIN.
LockFutexWait(t) ==
  /\ Goto(t, "wait", IF state_ = cur_state[t] THEN "sleep" ELSE "reload")
  /\ rwQ' = IF state_ = cur_state[t] THEN rwQ \cup {t} ELSE rwQ
  /\ UNCHANGED <<state_, exclusive_owner_, waiters_, mode, cur_state>>

LockWoken(t) ==
  /\ t \notin rwQ
  /\ Goto(t, "sleep", "reload")
  /\ UNCHANGED <<state_, exclusive_owner_, waiters_, rwQ, mode, cur_state>>

\* EINTR: the sleeper leaves the queue without a wake.
FutexInterrupt(t) ==
  /\ pc[t] = "sleep"
  /\ t \in rwQ
  /\ rwQ' = rwQ \ {t}
  /\ UNCHANGED <<state_, exclusive_owner_, waiters_, pc, mode, cur_state>>

LockReload(t) ==
  /\ Goto(t, "reload", IF Available(mode[t], state_) THEN "dec" ELSE "wait")
  /\ SetCur(t, state_)
  /\ UNCHANGED <<state_, exclusive_owner_, waiters_, rwQ, mode>>

DecrementWaiters(t) ==
  /\ Goto(t, "dec", "load")
  /\ waiters_' = waiters_ - 1
  /\ Forget(t)
  /\ UNCHANGED <<state_, exclusive_owner_, rwQ, mode>>

\* The end of WriteLock and TryWriteLock.
WriteOwn(t) ==
  /\ Goto(t, "own", "held")
  /\ exclusive_owner_' = t
  /\ UNCHANGED <<state_, waiters_, rwQ, mode, cur_state>>

-----------------------------------------------------------------------------
(* TryReadLock and TryWriteLock *)

TryReadLock(t) == Enter(t, "read", "tryLoad")

TryWriteLock(t) == Enter(t, "write", "tryLoad")

\* The load, or the value fetched by a failed exchange: give up if it is taken.
TryFetch(t) ==
  /\ pc[t] \in {"tryLoad", "tryCas"}
  /\ IF Available(mode[t], state_)
       THEN pc' = [pc EXCEPT ![t] = "tryCas"] /\ SetCur(t, state_)
       ELSE pc' = [pc EXCEPT ![t] = "out"] /\ Forget(t)
  /\ UNCHANGED <<state_, exclusive_owner_, waiters_, rwQ, mode>>

\* Mutant: state_ is stored without comparing it.
TryCasBlind(t) ==
  /\ Goto(t, "tryCas", AfterCas(mode[t]))
  /\ state_' = Taken(mode[t], cur_state[t])
  /\ Forget(t)
  /\ UNCHANGED <<exclusive_owner_, waiters_, rwQ, mode>>

TryCas(t) ==
  /\ Goto(t, "tryCas", AfterCas(mode[t]))
  /\ state_ = cur_state[t]
  /\ state_' = Taken(mode[t], state_)
  /\ Forget(t)
  /\ UNCHANGED <<exclusive_owner_, waiters_, rwQ, mode>>

-----------------------------------------------------------------------------
(* Unlock: WriteUnlock if there is an exclusive holder, else ReadUnlock *)

Unlock(t) ==
  /\ Goto(t, "held", IF HasExclusiveHolder THEN "wuLoad" ELSE "ruLoad")
  /\ UNCHANGED <<state_, exclusive_owner_, waiters_, rwQ, mode, cur_state>>

UnlockLoad(t) ==
  /\ \/ Goto(t, "wuLoad", "wuClear")
     \/ Goto(t, "ruLoad", "ruCas")
  /\ SetCur(t, state_)
  /\ UNCHANGED <<state_, exclusive_owner_, waiters_, rwQ, mode>>

WriteUnlockClearOwner(t) ==
  /\ Goto(t, "wuClear", "wuCas")
  /\ exclusive_owner_' = NoThread
  /\ UNCHANGED <<state_, waiters_, rwQ, mode, cur_state>>

WriteUnlockCas(t) ==
  /\ Goto(t, "wuCas", "check")
  /\ state_ = cur_state[t]
  /\ state_' = UNLOCKED
  /\ Forget(t)
  /\ UNCHANGED <<exclusive_owner_, waiters_, rwQ, mode>>

\* Mutant: the old state, not the new one, is compared with UNLOCKED.
ReadUnlockCasNoCheck(t) ==
  /\ Goto(t, "ruCas", IF cur_state[t] = UNLOCKED THEN "check" ELSE "out")
  /\ state_ = cur_state[t]
  /\ state_' = cur_state[t] - READ_INCREMENT
  /\ Forget(t)
  /\ UNCHANGED <<exclusive_owner_, waiters_, rwQ, mode>>

\* Only the last reader looks for waiters.
ReadUnlockCas(t) ==
  /\ Goto(t, "ruCas", IF cur_state[t] - READ_INCREMENT = UNLOCKED THEN "check" ELSE "out")
  /\ state_ = cur_state[t]
  /\ state_' = cur_state[t] - READ_INCREMENT
  /\ Forget(t)
  /\ UNCHANGED <<exclusive_owner_, waiters_, rwQ, mode>>

\* A failed exchange fetches state_ and the loop is redone.
UnlockCasFail(t) ==
  /\ pc[t] \in {"wuCas", "ruCas"}
  /\ pc' = [pc EXCEPT ![t] = IF @ = "wuCas" THEN "wuClear" ELSE "ruCas"]
  /\ SetCur(t, state_)
  /\ UNCHANGED <<state_, exclusive_owner_, waiters_, rwQ, mode>>

\* Mutant: off by one in the test for waiters.
UnlockCheckMissesOne(t) ==
  /\ Goto(t, "check", IF waiters_ > 1 THEN "wake" ELSE "out")
  /\ UNCHANGED <<state_, exclusive_owner_, waiters_, rwQ, mode, cur_state>>

UnlockCheckWaiters(t) ==
  /\ Goto(t, "check", IF waiters_ > 0 THEN "wake" ELSE "out")
  /\ UNCHANGED <<state_, exclusive_owner_, waiters_, rwQ, mode, cur_state>>

\* FUTEX_WAKE of all sleepers.
UnlockWakeAll(t) ==
  /\ Goto(t, "wake", "out")
  /\ rwQ' = {}
  /\ UNCHANGED <<state_, exclusive_owner_, waiters_, mode, cur_state>>

-----------------------------------------------------------------------------
Call(t) ==
  \/ ReadLock(t) \/ WriteLock(t) \/ TryReadLock(t) \/ TryWriteLock(t) \/ Unlock(t)

\* Steps of a call in progress that its thread takes by itself.
Progress(t) ==
  \/ LockLoad(t) \/ LockCasFail(t) \/ LockWaitBriefly(t) \/ IncrementWaiters(t)
  \/ LockFutexWait(t) \/ LockWoken(t) \/ LockReload(t) \/ DecrementWaiters(t)
  \/ WriteOwn(t) \/ TryFetch(t)
  \/ UnlockLoad(t) \/ WriteUnlockClearOwner(t) \/ UnlockCasFail(t)
  \/ UnlockCheckWaiters(t) \/ UnlockWakeAll(t)

\* The exchanges that change state_.
Cas(t) == LockCas(t) \/ TryCas(t) \/ WriteUnlockCas(t) \/ ReadUnlockCas(t)

Next == \E t \in Threads : Call(t) \/ Progress(t) \/ Cas(t) \/ FutexInterrupt(t)

Spec == Init /\ [][Next]_vars

\* A thread inside a call keeps running, and an exchange that can succeed again
\* and again does.  Clients need not call nor unlock; nobody relies on EINTR.
Fairness ==
  \A t \in Threads : /\ WF_vars(Progress(t) \/ Cas(t))
                     /\ SF_vars(Cas(t))

FairSpec == Spec /\ Fairness

-----------------------------------------------------------------------------
(* Properties *)

TypeOK ==
  /\ state_ \in Int
  /\ exclusive_owner_ \in Threads \cup {NoThread}
  /\ waiters_ \in Nat
  /\ rwQ \subseteq Threads
  /\ pc \in [Threads -> Pcs]
  /\ mode \in [Threads -> Modes]
  /\ cur_state \in [Threads -> Int]

Readers == {t \in Threads : \/ pc[t] = "held" /\ mode[t] = "read"
                            \/ pc[t] \in ReadUnlockPcs}

Writers == {t \in Threads : \/ pc[t] = "held" /\ mode[t] = "write"
                            \/ pc[t] \in {"own"} \cup WriteUnlockPcs}

Waiting == {t \in Threads : pc[t] \in WaitingPcs}

\* A writer is alone, and state_ counts the readers exactly.
RWExclusion ==
  /\ \A t, u \in Writers : t = u
  /\ Writers # {} => Readers = {}
  /\ state_ = IF Writers # {} THEN WRITE_LOCKED ELSE Cardinality(Readers)

\* The conditions the code asserts or aborts on: no exclusive holder while a reader
\* is inside or a writer has just come in; Unlock sends a writer to WriteUnlock and a
\* reader to ReadUnlock; neither ever finds state_ without its own hold.
CodeAssertions ==
  \A t \in Threads :
    /\ t \in Readers => ~HasExclusiveHolder
    /\ pc[t] = "own" => ~HasExclusiveHolder
    /\ pc[t] = "held" /\ mode[t] = "write" => exclusive_owner_ = t
    /\ pc[t] \in WriteUnlockPcs => mode[t] = "write"
    /\ pc[t] \in ReadUnlockPcs => mode[t] = "read"
    /\ pc[t] \in {"wuClear", "wuCas"} => cur_state[t] = WRITE_LOCKED
    /\ pc[t] = "ruCas" => cur_state[t] > UNLOCKED

\* waiters_ counts exactly the threads in the slow path.
WaitersExact == waiters_ = Cardinality(Waiting)

\* No lost wake-up across the two words: if a thread sleeps although the lock is
\* available to it, an unlocker has yet to read waiters_ or to wake everybody.
NoLostWakeup ==
  \A t \in rwQ : Available(mode[t], state_) =>
                   \E u \in Threads : pc[u] \in {"check", "wake"}

\* A reader is stuck only if writers keep coming, a writer only if somebody does:
\* readers may starve a writer, but nobody sleeps beside a lock everybody has left.
NoStuckLock ==
  \A t \in Threads :
    /\ <>[](pc[t] \in LockPcs /\ mode[t] = "read") => []<>(Writers # {})
    /\ <>[](pc[t] \in LockPcs /\ mode[t] = "write") => []<>(state_ # UNLOCKED)

Abstract == INSTANCE AbstractRWLock WITH
  readers <- Readers,
  writer <- IF Writers = {} THEN NoThread ELSE CHOOSE t \in Threads : t \in Writers

\* The lock implements the abstract readers-writer lock.
RefinesRWLock == Abstract!Spec
=============================================================================
