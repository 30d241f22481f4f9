------------------------------ MODULE FutexCondVar ------------------------------
(***************************************************************************)
(* panda::os::unix::memory::futex::ConditionVariable together with the     *)
(* Mutex its waiters use (libpandabase/os/unix/futex/mutex.{h,cpp}).       *)
(*                                                                         *)
(* Wait and TimedWait run Mutex::Unlock and Mutex::Lock step by step, as   *)
(* FutexMutex specifies them; a signaller that holds the mutex moves       *)
(* sleepers from the queue of cond_ to the queue of the mutex's word       *)
(* (FUTEX_REQUEUE) instead of waking them.  Clients use Lock and Unlock;   *)
(* TryLock does not interact with the condition variable and is left to    *)
(* FutexMutex.                                                             *)
(***************************************************************************)
EXTENDS FutexMutex

CONSTANT MaxSignals   \* bound: how often cond_ is incremented (an int32_t in the code)

ASSUME CondVarAssumption == MaxSignals \in Nat

VARIABLES
  mutex_ptr_,  \* TRUE once the first waiter has stored its mutex
  waiters_,    \* number of threads inside Wait or TimedWait
  cond_,       \* the futex word, incremented by every signal
  condQ,       \* kernel: threads asleep on the address of cond_
  cvpc,        \* where each thread is in Wait or TimedWait
  cur_cond,    \* each waiter's local copy of cond_
  old_count,   \* each waiter's recursion count on entry
  sigpc,       \* where each thread is in SignalCount
  to_wake,     \* "one" (Signal) or "all" (SignalAll)
  seen,        \* history: threads that were dormant when the signal was called
  left         \* history: one of them has since started another wait

waitVars   == <<mutex_ptr_, waiters_, cond_, condQ, cvpc, cur_cond, old_count>>
signalVars == <<sigpc, to_wake, seen, left>>
cvVars     == <<mutexVars, waitVars, signalVars>>

WaitPcs == {"none", "register", "count", "cond", "unlock", "futex", "sleep",
            "relock", "locking", "deregister"}

\* From IncrementWaiters to DecrementWaiters on the mutex, and on the condvar.
CountedInMutex == {t \in Threads : cvpc[t] \in WaitPcs \ {"none", "register", "count", "deregister"}}
CountedInCond  == {t \in Threads : cvpc[t] \in WaitPcs \ {"none", "register"}}

\* The wait of t goes on: it sleeps on cond_, or has yet to call FUTEX_WAIT with
\* a value of cond_ that is still current.
Dormant(t) ==
  \/ t \in condQ
  \/ cvpc[t] \in {"unlock", "futex"} /\ cur_cond[t] = cond_

CvInit ==
  /\ Init
  /\ mutex_ptr_ = FALSE
  /\ waiters_ = 0
  /\ cond_ = 0
  /\ condQ = {}
  /\ cvpc = [t \in Threads |-> "none"]
  /\ cur_cond = [t \in Threads |-> 0]
  /\ old_count = [t \in Threads |-> 0]
  /\ sigpc = [t \in Threads |-> "none"]
  /\ to_wake = [t \in Threads |-> "one"]
  /\ seen = [t \in Threads |-> {}]
  /\ left = [t \in Threads |-> FALSE]

CvGoto(t, from, to) ==
  /\ cvpc[t] = from
  /\ cvpc' = [cvpc EXCEPT ![t] = to]

-----------------------------------------------------------------------------
(* ConditionVariable::Wait and TimedWait, which differ in the futex call's timeout *)

\* Entry: the caller holds the mutex; mutex_ptr_ is set to it.
Wait(t) ==
  /\ pc[t] = "in"
  /\ IsHeld(t)
  /\ sigpc[t] = "none"
  /\ CvGoto(t, "none", "register")
  /\ mutex_ptr_' = TRUE
  /\ UNCHANGED <<mutexVars, waiters_, cond_, condQ, cur_cond, old_count, signalVars>>

WaitRegister(t) ==
  /\ CvGoto(t, "register", "count")
  /\ waiters_' = waiters_ + 1
  /\ UNCHANGED <<mutexVars, mutex_ptr_, cond_, condQ, cur_cond, old_count, signalVars>>

\* Mutant: the waiter is not counted in the mutex's word.
WaitUncountedInMutex(t) ==
  /\ CvGoto(t, "count", "cond")
  /\ UNCHANGED <<mutexVars, mutex_ptr_, waiters_, cond_, condQ, cur_cond, old_count, signalVars>>

WaitIncrementWaiters(t) ==
  /\ CvGoto(t, "count", "cond")
  /\ state_and_waiters_' = IncrementWaiters
  /\ UNCHANGED <<exclusive_owner_, recursive_count_, futexQ, pc, cur_state, tries,
                 mutex_ptr_, waiters_, cond_, condQ, cur_cond, old_count, signalVars>>

\* Mutant: the recursion count is not set to 1, so that Unlock may return early.
WaitKeepsRecursion(t) ==
  /\ CvGoto(t, "cond", "unlock")
  /\ old_count' = [old_count EXCEPT ![t] = recursive_count_]
  /\ cur_cond' = [cur_cond EXCEPT ![t] = cond_]
  /\ seen' = [u \in Threads |-> seen[u] \ {t}]
  /\ left' = [u \in Threads |-> left[u] \/ t \in seen[u]]
  /\ UNCHANGED <<mutexVars, mutex_ptr_, waiters_, cond_, condQ, sigpc, to_wake>>

\* A signal that saw this thread in an earlier wait has seen it leave.
WaitLoadCond(t) ==
  /\ CvGoto(t, "cond", "unlock")
  /\ old_count' = [old_count EXCEPT ![t] = recursive_count_]
  /\ recursive_count_' = 1
  /\ cur_cond' = [cur_cond EXCEPT ![t] = cond_]
  /\ seen' = [u \in Threads |-> seen[u] \ {t}]
  /\ left' = [u \in Threads |-> left[u] \/ t \in seen[u]]
  /\ UNCHANGED <<state_and_waiters_, exclusive_owner_, futexQ, pc, cur_state, tries,
                 mutex_ptr_, waiters_, cond_, condQ, sigpc, to_wake>>

WaitUnlock(t) ==
  /\ CvGoto(t, "unlock", "futex")
  /\ Unlock(t)
  /\ UNCHANGED <<mutex_ptr_, waiters_, cond_, condQ, cur_cond, old_count, signalVars>>

\* Unlock has returned (a nested one would with the mutex held); FUTEX_WAIT on
\* cond_: sleep if it is unchanged, else EAGAIN.
WaitFutex(t) ==
  /\ pc[t] \in {"in", "out"}
  /\ CvGoto(t, "futex", IF cond_ = cur_cond[t] THEN "sleep" ELSE "relock")
  /\ condQ' = IF cond_ = cur_cond[t] THEN condQ \cup {t} ELSE condQ
  /\ UNCHANGED <<mutexVars, mutex_ptr_, waiters_, cond_, cur_cond, old_count, signalVars>>

WaitWoken(t) ==
  /\ t \notin condQ \cup futexQ
  /\ CvGoto(t, "sleep", "relock")
  /\ UNCHANGED <<mutexVars, mutex_ptr_, waiters_, cond_, condQ, cur_cond, old_count, signalVars>>

\* EINTR, or ETIMEDOUT in TimedWait, in whichever queue the thread sleeps.  Both
\* continue alike; they differ in the value TimedWait returns.
WaitInterrupted(t) ==
  /\ cvpc[t] = "sleep"
  /\ t \in condQ \cup futexQ
  /\ condQ' = condQ \ {t}
  /\ futexQ' = futexQ \ {t}
  /\ UNCHANGED <<state_and_waiters_, exclusive_owner_, recursive_count_, pc, cur_state, tries,
                 mutex_ptr_, waiters_, cond_, cvpc, cur_cond, old_count, signalVars>>

WaitLock(t) ==
  /\ CvGoto(t, "relock", "locking")
  /\ Lock(t)
  /\ UNCHANGED <<mutex_ptr_, waiters_, cond_, condQ, cur_cond, old_count, signalVars>>

\* Lock has returned: the recursion count is restored and the mutex's waiter removed.
WaitDecrementWaiters(t) ==
  /\ pc[t] = "in"
  /\ CvGoto(t, "locking", "deregister")
  /\ recursive_count_' = old_count[t]
  /\ state_and_waiters_' = DecrementWaiters
  /\ UNCHANGED <<exclusive_owner_, futexQ, pc, cur_state, tries,
                 mutex_ptr_, waiters_, cond_, condQ, cur_cond, old_count, signalVars>>

WaitDeregister(t) ==
  /\ CvGoto(t, "deregister", "none")
  /\ waiters_' = waiters_ - 1
  /\ cur_cond' = [cur_cond EXCEPT ![t] = 0]
  /\ old_count' = [old_count EXCEPT ![t] = 0]
  /\ UNCHANGED <<mutexVars, mutex_ptr_, cond_, condQ, signalVars>>

-----------------------------------------------------------------------------
(* ConditionVariable::SignalCount, called by Signal and SignalAll *)

\* Without waiters the call returns at once, and is not a step here.
SignalCount(t, n) ==
  /\ pc[t] \in {"in", "out"}
  /\ cvpc[t] = "none"
  /\ sigpc[t] = "none"
  /\ cond_ + Cardinality({u \in Threads : sigpc[u] = "add"}) < MaxSignals
  /\ waiters_ # 0
  /\ sigpc' = [sigpc EXCEPT ![t] = "add"]
  /\ to_wake' = [to_wake EXCEPT ![t] = n]
  /\ seen' = [seen EXCEPT ![t] = {u \in Threads : Dormant(u)}]
  /\ left' = [left EXCEPT ![t] = FALSE]
  /\ UNCHANGED <<mutexVars, waitVars>>

Signal(t) == SignalCount(t, "one")

SignalAll(t) == SignalCount(t, "all")

\* Mutant: cond_ is not incremented, so a waiter on its way to FUTEX_WAIT sleeps.
SignalKeepCond(t) ==
  /\ sigpc[t] = "add"
  /\ sigpc' = [sigpc EXCEPT ![t] = "op"]
  /\ UNCHANGED <<mutexVars, waitVars, to_wake, seen, left>>

SignalAddCond(t) ==
  /\ sigpc[t] = "add"
  /\ cond_' = cond_ + 1
  /\ sigpc' = [sigpc EXCEPT ![t] = "op"]
  /\ UNCHANGED <<mutexVars, mutex_ptr_, waiters_, condQ, cvpc, cur_cond, old_count,
                 to_wake, seen, left>>

\* The sleepers the kernel picks: one if there is one, or all of them.
Picked(n, moved) ==
  /\ moved \subseteq condQ
  /\ IF n = "one" /\ condQ # {} THEN Cardinality(moved) = 1 ELSE moved = condQ

\* Mutant: sleepers are requeued even when the signaller does not hold the mutex.
SignalAlwaysRequeue(t) ==
  /\ sigpc[t] = "op"
  /\ sigpc' = [sigpc EXCEPT ![t] = "none"]
  /\ \E moved \in SUBSET condQ :
       /\ Picked(to_wake[t], moved)
       /\ condQ' = condQ \ moved
       /\ futexQ' = futexQ \cup moved
  /\ seen' = [seen EXCEPT ![t] = {}]
  /\ left' = [left EXCEPT ![t] = FALSE]
  /\ UNCHANGED <<state_and_waiters_, exclusive_owner_, recursive_count_, pc, cur_state, tries,
                 mutex_ptr_, waiters_, cond_, cvpc, cur_cond, old_count, to_wake>>

\* FUTEX_REQUEUE to the mutex's queue when the signaller holds the mutex, else FUTEX_WAKE.
SignalFutex(t) ==
  /\ sigpc[t] = "op"
  /\ sigpc' = [sigpc EXCEPT ![t] = "none"]
  /\ \E moved \in SUBSET condQ :
       /\ Picked(to_wake[t], moved)
       /\ condQ' = condQ \ moved
       /\ futexQ' = IF IsHeld(t) THEN futexQ \cup moved ELSE futexQ
  /\ seen' = [seen EXCEPT ![t] = {}]
  /\ left' = [left EXCEPT ![t] = FALSE]
  /\ UNCHANGED <<state_and_waiters_, exclusive_owner_, recursive_count_, pc, cur_state, tries,
                 mutex_ptr_, waiters_, cond_, cvpc, cur_cond, old_count, to_wake>>

-----------------------------------------------------------------------------
\* Client calls, made by a thread that is in no other call.
ClientCall(t) ==
  /\ cvpc[t] = "none"
  /\ sigpc[t] = "none"
  /\ \/ (Lock(t) \/ Unlock(t)) /\ UNCHANGED <<waitVars, signalVars>>
     \/ Wait(t)
     \/ Signal(t)
     \/ SignalAll(t)

\* Steps of a call in progress, exchanges of the mutex's word and the kernel's
\* interruptions and timeouts excepted.
CvProgress(t) ==
  \/ Progress(t) /\ UNCHANGED <<waitVars, signalVars>>
  \/ WaitRegister(t) \/ WaitIncrementWaiters(t) \/ WaitLoadCond(t) \/ WaitUnlock(t)
  \/ WaitFutex(t) \/ WaitWoken(t) \/ WaitLock(t)
  \/ WaitDecrementWaiters(t) \/ WaitDeregister(t)
  \/ SignalAddCond(t) \/ SignalFutex(t)

CvCas(t) == Cas(t) /\ UNCHANGED <<waitVars, signalVars>>
CvCasFail(t) == CasFail(t) /\ UNCHANGED <<waitVars, signalVars>>

CvNext ==
  \E t \in Threads :
    \/ ClientCall(t) \/ CvProgress(t) \/ CvCas(t) \/ CvCasFail(t)
    \/ FutexInterrupt(t) /\ UNCHANGED <<waitVars, signalVars>>
    \/ WaitInterrupted(t)

CvSpec == CvInit /\ [][CvNext]_cvVars

\* As for the mutex: calls in progress go on.  A wait that nobody signals is not
\* obliged to end, and neither interruptions nor timeouts are relied upon.
CvFairness ==
  \A t \in Threads : /\ WF_cvVars(CvProgress(t) \/ CvCas(t) \/ CvCasFail(t))
                     /\ SF_cvVars(CvCas(t))

CvFairSpec == CvSpec /\ CvFairness
-----------------------------------------------------------------------------
(* Properties *)

CvTypeOK ==
  /\ TypeOK
  /\ mutex_ptr_ \in BOOLEAN
  /\ waiters_ \in Nat
  /\ cond_ \in 0..MaxSignals
  /\ condQ \subseteq Threads
  /\ cvpc \in [Threads -> WaitPcs]
  /\ cur_cond \in [Threads -> 0..MaxSignals]
  /\ old_count \in [Threads -> Nat]
  /\ sigpc \in [Threads -> {"none", "add", "op"}]
  /\ to_wake \in [Threads -> {"one", "all"}]
  /\ seen \in [Threads -> SUBSET Threads]
  /\ left \in [Threads -> BOOLEAN]

\* Both waiter counts are exact: the mutex's word counts the threads waiting in
\* Lock and those inside Wait, so that an Unlock wakes requeued sleepers too; the
\* condvar's waiters_ counts the latter, so that SignalCount's early return misses
\* nobody; and mutex_ptr_ is set whenever SignalCount needs it.
CvWaitersExact ==
  /\ state_and_waiters_.waiters = Cardinality(Waiting) + Cardinality(CountedInMutex)
  /\ waiters_ = Cardinality(CountedInCond)
  /\ waiters_ # 0 => mutex_ptr_

\* Wait releases the mutex whatever its recursion depth, and a waiter that has
\* slept runs again only with the mutex held: the holder is unique, a thread
\* between its Unlock and its Lock inside Wait is not the holder, and a thread that
\* leaves Wait holds the mutex as deeply as when it entered, whoever had it meanwhile.
CvMutualExclusion ==
  /\ MutualExclusion
  /\ \A t \in Threads : cvpc[t] \in {"sleep", "relock"} => t \notin Holders
  /\ \A t \in Threads : cvpc[t] = "deregister" => t \in Holders /\ recursive_count_ = old_count[t]

\* No lost wake-up on the mutex in the presence of requeued waiters: if the mutex
\* is free and a thread sleeps on its word, an Unlock is about to wake one, or a
\* thread is awake on its way to take the mutex.
CvNoLostWakeup ==
  ~state_and_waiters_.held /\ futexQ # {} =>
    \E t \in Threads :
      \/ pc[t] = "wake"
      \/ t \notin futexQ /\ (pc[t] \in LockPcs \/ (cvpc[t] \in {"sleep", "relock"} /\ t \notin condQ))

\* A signal is not lost: when Signal returns, one of the threads that were waiting
\* when it was called no longer is (or it woke a later one), and when SignalAll
\* returns none of them is, even those that had released the mutex but were not
\* asleep yet.
SignalsDelivered ==
  [][\A u \in Threads : sigpc[u] = "op" /\ sigpc'[u] = "none" =>
       \/ seen[u] = {}
       \/ /\ to_wake[u] = "one"
          /\ left[u] \/ condQ' # condQ \/ \E t \in seen[u] : ~Dormant(t)'
       \/ \A t \in seen[u] : ~Dormant(t)']_cvVars

\* A waiter that a signal has taken off cond_'s queue returns from Wait, unless the
\* mutex it must re-acquire is held again and again.
SignalledReturns ==
  \A t \in Threads :
    <>[](cvpc[t] # "none" /\ t \notin condQ) => []<>(Holders # {})
=============================================================================
