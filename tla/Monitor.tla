--------------------------------- MODULE Monitor ---------------------------------
(***************************************************************************)
(* The monitor of one object: its mark word, the light lock kept in it,    *)
(* the Monitor it is inflated to, the MonitorPool, Wait and Notify, and    *)
(* GetHashCode, which shares the mark word (runtime/monitor.{h,cpp},       *)
(* runtime/monitor_pool.cpp, runtime/object_header.cpp).                   *)
(*                                                                         *)
(* Every access to the mark word is a step of its own.  A Monitor's lock_  *)
(* is used as AbstractLock promises; what a thread does to a Monitor whose *)
(* lock_ it holds, or which nobody else can reach yet, is one step.        *)
(* Suspension of a thread by another one is what Suspension promises: from *)
(* the return of SuspendAndWaitThreadByInternalThreadId to ResumeImpl the  *)
(* suspended thread is not RUNNING.  Monitors are deflated when the world  *)
(* is stopped, that is when no thread is RUNNING; managed code (pc "idle") *)
(* can be stopped anywhere.                                                *)
(***************************************************************************)
EXTENDS Naturals, FiniteSets, Sequences

CONSTANTS
  Threads,
  NoThread,
  Waiters,        \* threads that call Wait
  Hashers,        \* threads that call GetHashCode
  Interruptible,  \* threads that are interrupted
  Hashes,         \* the values of GenerateHashCode
  NoHash,         \* the value 0 of hash_code_
  LightLockMax,   \* LIGHT_LOCK_LOCK_MAX_COUNT
  MaxMonitorId,   \* MAX_MONITOR_ID
  MaxDepth        \* bound: deepest recursion of managed code

ASSUME MonitorAssumption ==
  /\ IsFiniteSet(Threads)
  /\ NoThread \notin Threads
  /\ Waiters \subseteq Threads
  /\ Hashers \subseteq Threads
  /\ Interruptible \subseteq Threads
  /\ NoHash \notin Hashes
  /\ LightLockMax \in Nat \ {0, 1}
  /\ MaxMonitorId \in Nat
  /\ MaxMonitorId > Cardinality(Threads)
  /\ MaxDepth \in Nat \ {0}

VARIABLES
  markWord_,
  monitors_,         \* MonitorPool: ids in use
  last_id_,          \* MonitorPool: the id given last
  monitor,           \* the Monitor of each id
  local,             \* where each thread is and its local variables
  depth,             \* local_objects_locked_: levels each thread has entered
  waiting_monitor_,  \* id of the Monitor each thread waits for, or NoId
  cond_lock_,        \* threads that hold their own cond_lock_
  signalled,         \* threads whose cond_var_ was signalled while they slept on it
  is_interrupted_,   \* threads whose flag is set
  suspendedBy,       \* the threads that suspend each thread
  hashes             \* what calls of GetHashCode have returned

vars == <<markWord_, monitors_, last_id_, monitor, local, depth, waiting_monitor_,
          cond_lock_, signalled, is_interrupted_, suspendedBy, hashes>>

pool  == <<monitors_, last_id_>>
waits == <<waiting_monitor_, cond_lock_, signalled, is_interrupted_>>

Ids  == 0 .. MaxMonitorId - 1
NoId == MaxMonitorId

Unlocked    == [state |-> "UNLOCKED"]
Hashed(h)   == [state |-> "HASHED", hash |-> h]
Light(t, n) == [state |-> "LIGHT_LOCKED", thread |-> t, count |-> n]
Heavy(i)    == [state |-> "HEAVY_LOCKED", id |-> i]

Marks == {Unlocked} \cup {Hashed(h) : h \in Hashes} \cup
         {Light(t, n) : t \in Threads, n \in 1 .. LightLockMax - 1} \cup
         {Heavy(i) : i \in Ids}

IsLightOf(mark, t) == mark.state = "LIGHT_LOCKED" /\ mark.thread = t

NewMonitor ==
  [owner_ |-> NoThread, recursive_counter_ |-> 0, lock_ |-> NoThread, waiters_ |-> <<>>,
   to_wakeup_ |-> <<>>, waiters_counter_ |-> 0, hash_code_ |-> NoHash]

\* Labels of a thread that has left RUNNING; it passes them only to go on inside the
\* same call, and back to RUNNING only when nobody suspends it.
NotRunningPcs == {"stopped", "suspendOwner", "waitOwner", "blocked", "owning",
                  "waiting", "sleep"}
Pcs == NotRunningPcs \cup
       {"idle", "enter", "cas", "inflate", "inflateCas", "inflateOther",
        "inflateOtherCas", "resume", "acquire", "exit", "exitCas", "release", "signal",
        "unlock", "wait", "condWait", "waitEnd", "hash", "hashCas", "hashMonitor",
        "hashSet", "hashReturn"}
Ops == {"none", "enter", "tryEnter", "exit", "wait", "hash", "hashEnter", "hashExit"}

IdleLocal ==
  [pc |-> "idle", op |-> "none", after |-> "none", old_mark |-> Unlocked, id |-> NoId,
   other |-> NoThread, counter |-> 0, monitor_p |-> NoId]

Init ==
  /\ markWord_ = Unlocked
  /\ monitors_ = {}
  /\ last_id_ = 0
  /\ monitor = [i \in Ids |-> NewMonitor]
  /\ local = [t \in Threads |-> IdleLocal]
  /\ depth = [t \in Threads |-> 0]
  /\ waiting_monitor_ = [t \in Threads |-> NoId]
  /\ cond_lock_ = {}
  /\ signalled = {}
  /\ is_interrupted_ = {}
  /\ suspendedBy = [t \in Threads |-> {}]
  /\ hashes = {}

At(t, pc) == local[t].pc = pc
Running(t) == local[t].pc \notin NotRunningPcs
Suspended(t) == suspendedBy[t] # {}
Mon(t) == monitor[local[t].id]

Goto(t, pc) == local' = [local EXCEPT ![t].pc = pc]
Return(t) == local' = [local EXCEPT ![t] = IdleLocal]

\* MonitorEnter returns OK.
Entered(t) ==
  /\ depth' = [depth EXCEPT ![t] = @ + 1]
  /\ IF local[t].op = "hashEnter"
     THEN local' = [local EXCEPT ![t].pc = "hashSet", ![t].op = "hash"]
     ELSE Return(t)

\* The head of a loop of the same call: the locals of its last turn are dead.
Loop(t, pc) ==
  local' = [local EXCEPT ![t] = [IdleLocal EXCEPT !.pc = pc, !.op = local[t].op,
                                                  !.monitor_p = local[t].monitor_p]]

\* MonitorEnter did not change the mark: again, or ILLEGAL for a try.
EnterAgain(t) == IF local[t].op = "tryEnter" THEN Return(t) ELSE Loop(t, "enter")

-----------------------------------------------------------------------------
(* MonitorPool *)

\* CreateMonitor: the first free id after last_id_.
NextId ==
  LET at(k) == (last_id_ + k) % MaxMonitorId
  IN  at(CHOOSE k \in 1 .. MaxMonitorId :
           at(k) \notin monitors_ /\ \A j \in 1 .. k - 1 : at(j) \in monitors_)

\* CreateMonitor and InitWithOwner for t of a Monitor nobody else knows yet.
CreateMonitor(t, count, hash) ==
  /\ monitors_ # Ids
  /\ monitors_' = monitors_ \cup {NextId}
  /\ last_id_' = NextId
  /\ monitor' = [monitor EXCEPT ![NextId] =
       [NewMonitor EXCEPT !.owner_ = t, !.lock_ = t, !.recursive_counter_ = count,
                          !.hash_code_ = hash]]

FreeMonitor(i) ==
  /\ monitors_' = monitors_ \ {i}
  /\ monitor' = [monitor EXCEPT ![i] = NewMonitor]
  /\ UNCHANGED last_id_

-----------------------------------------------------------------------------
(* Monitor::MonitorEnter *)

MonitorEnter(t, trylock) ==
  /\ At(t, "idle")
  /\ depth[t] < MaxDepth
  /\ local' = [local EXCEPT ![t].pc = "enter", ![t].op = IF trylock THEN "tryEnter" ELSE "enter"]
  /\ UNCHANGED <<markWord_, pool, monitor, depth, waits, suspendedBy, hashes>>

\* The load of the mark.  A light lock of another thread is looked at again many
\* times before its owner is suspended (leaving RUNNING); only the last look is a step.
EnterLoad(t) ==
  /\ At(t, "enter")
  /\ LET mark == markWord_ IN
     \/ /\ mark.state = "HEAVY_LOCKED"
        /\ local' = [local EXCEPT ![t].pc = "acquire", ![t].id = mark.id]
     \/ /\ mark.state = "UNLOCKED"
        /\ local' = [local EXCEPT ![t].pc = "cas", ![t].old_mark = mark]
     \/ /\ mark.state = "HASHED"
        /\ local' = [local EXCEPT ![t].pc = "inflate", ![t].after = "entered"]
     \/ /\ IsLightOf(mark, t)
        /\ IF mark.count + 1 < LightLockMax
           THEN local' = [local EXCEPT ![t].pc = "cas", ![t].old_mark = mark]
           ELSE local' = [local EXCEPT ![t].pc = "inflate", ![t].after = "enter"]
     \/ /\ mark.state = "LIGHT_LOCKED"
        /\ mark.thread # t
        /\ IF local[t].op = "tryEnter"
           THEN Return(t)
           ELSE local' = [local EXCEPT ![t].pc = "suspendOwner", ![t].other = mark.thread]
  /\ UNCHANGED <<markWord_, pool, monitor, depth, waits, suspendedBy, hashes>>

\* The exchange that takes the light lock, or counts one more level of it.
EnterCas(t) ==
  /\ At(t, "cas")
  /\ LET old == local[t].old_mark IN
     /\ markWord_ = old
     /\ markWord_' = Light(t, IF old.state = "UNLOCKED" THEN 1 ELSE old.count + 1)
  /\ Entered(t)
  /\ UNCHANGED <<pool, monitor, waits, suspendedBy, hashes>>

\* AtomicSetMark is weak: it may fail although the mark is unchanged.
EnterCasFail(t) ==
  /\ At(t, "cas")
  /\ EnterAgain(t)
  /\ UNCHANGED <<markWord_, pool, monitor, depth, waits, suspendedBy, hashes>>

\* SuspendAndWaitThreadByInternalThreadId: a thread that is itself to be suspended
\* waits for its resumption first.
SuspendOwner(t) ==
  /\ At(t, "suspendOwner")
  /\ ~Suspended(t)
  /\ suspendedBy' = [suspendedBy EXCEPT ![local[t].other] = @ \cup {t}]
  /\ Goto(t, "waitOwner")
  /\ UNCHANGED <<markWord_, pool, monitor, depth, waits, hashes>>

\* The owner is not RUNNING, and the caller is RUNNING again.
OwnerSuspended(t) ==
  /\ At(t, "waitOwner")
  /\ ~Running(local[t].other)
  /\ ~Suspended(t)
  /\ Goto(t, "inflateOther")
  /\ UNCHANGED <<markWord_, pool, monitor, depth, waits, suspendedBy, hashes>>

\* Mutant: a light lock is inflated for the suspended thread whoever holds it.
AnyOwner(t) == markWord_.state = "LIGHT_LOCKED"

\* The suspended thread still has the light lock.
StillOwner(t) == IsLightOf(markWord_, local[t].other)

\* Inflate<true>: nothing is done unless the suspended thread still has the light lock.
InflateOtherLoad(t) ==
  /\ At(t, "inflateOther")
  /\ \/ /\ ~StillOwner(t)
        /\ Goto(t, "resume")
        /\ UNCHANGED <<pool, monitor>>
     \/ /\ StillOwner(t)
        /\ CreateMonitor(local[t].other, markWord_.count, NoHash)
        /\ local' = [local EXCEPT ![t].pc = "inflateOtherCas", ![t].id = NextId,
                                  ![t].old_mark = markWord_]
  /\ UNCHANGED <<markWord_, depth, waits, suspendedBy, hashes>>

InflateOtherCas(t) ==
  /\ At(t, "inflateOtherCas")
  /\ markWord_ = local[t].old_mark
  /\ markWord_' = Heavy(local[t].id)
  /\ Goto(t, "resume")
  /\ UNCHANGED <<pool, monitor, depth, waits, suspendedBy, hashes>>

InflateOtherCasFail(t) ==
  /\ At(t, "inflateOtherCas")
  /\ FreeMonitor(local[t].id)
  /\ Goto(t, "resume")
  /\ UNCHANGED <<markWord_, depth, waits, suspendedBy, hashes>>

ResumeOwner(t) ==
  /\ At(t, "resume")
  /\ suspendedBy' = [suspendedBy EXCEPT ![local[t].other] = @ \ {t}]
  /\ Loop(t, "enter")
  /\ UNCHANGED <<markWord_, pool, monitor, depth, waits, hashes>>

-----------------------------------------------------------------------------
(* Monitor::Inflate by a thread for itself, from MonitorEnter, Wait or GetHashCode *)

\* Inflate returns false.  An interrupted thread does not Sleep, and stays RUNNING.
InflateFailed(t) ==
  \/ local[t].op \in {"enter", "tryEnter", "hashEnter"} /\ EnterAgain(t)
  \/ local[t].op = "wait" /\ Loop(t, "wait")
  \/ local[t].op = "hash" /\ Loop(t, IF t \in is_interrupted_ THEN "hash" ELSE "sleep")

\* Inflate returns true: the thread owns the new Monitor.
Inflated(t) ==
  \/ local[t].after = "entered" /\ Entered(t)
  \/ local[t].after = "enter" /\ EnterAgain(t) /\ UNCHANGED depth
  \/ local[t].after \in {"wait", "hash"} /\ Loop(t, local[t].after) /\ UNCHANGED depth

\* Nobody inflates a heavy lock; a light lock of another thread is noticed after the
\* Monitor was created, which is then freed.
InflateLoad(t) ==
  /\ At(t, "inflate")
  /\ LET mark == markWord_ IN
     \/ /\ mark.state = "HEAVY_LOCKED"
        /\ InflateFailed(t)
        /\ UNCHANGED <<pool, monitor>>
     \/ /\ mark.state = "LIGHT_LOCKED"
        /\ mark.thread # t
        /\ last_id_' = NextId
        /\ InflateFailed(t)
        /\ UNCHANGED <<monitors_, monitor>>
     \/ /\ mark.state \in {"UNLOCKED", "HASHED"} \/ IsLightOf(mark, t)
        /\ CreateMonitor(t, IF mark.state = "LIGHT_LOCKED" THEN mark.count ELSE 1,
                         IF mark.state = "HASHED" THEN mark.hash ELSE NoHash)
        /\ local' = [local EXCEPT ![t].pc = "inflateCas", ![t].id = NextId,
                                  ![t].old_mark = mark]
  /\ UNCHANGED <<markWord_, depth, waits, suspendedBy, hashes>>

InflateCas(t) ==
  /\ At(t, "inflateCas")
  /\ markWord_ = local[t].old_mark
  /\ markWord_' = Heavy(local[t].id)
  /\ Inflated(t)
  /\ UNCHANGED <<pool, monitor, waits, suspendedBy, hashes>>

InflateCasFail(t) ==
  /\ At(t, "inflateCas")
  /\ FreeMonitor(local[t].id)
  /\ InflateFailed(t)
  /\ UNCHANGED <<markWord_, depth, waits, suspendedBy, hashes>>

-----------------------------------------------------------------------------
(* Monitor::Acquire, from MonitorEnter and from the end of Wait *)

Acquired(t) ==
  IF local[t].op = "wait" THEN Goto(t, "waitEnd") /\ UNCHANGED depth ELSE Entered(t)

\* lock_ is t's: SetOwner, and the first level is counted.
TakeLock(t) ==
  monitor' = [monitor EXCEPT ![local[t].id].lock_ = t, ![local[t].id].owner_ = t,
                             ![local[t].id].recursive_counter_ = @ + 1]

\* The test of the owner and TryLock (TryLockWithSpinning).
Acquire(t) ==
  /\ At(t, "acquire")
  /\ \/ /\ Mon(t).owner_ = t
        /\ monitor' = [monitor EXCEPT ![local[t].id].recursive_counter_ = @ + 1]
        /\ Acquired(t)
     \/ /\ Mon(t).owner_ # t
        /\ Mon(t).lock_ = NoThread
        /\ TakeLock(t)
        /\ Acquired(t)
     \/ /\ Mon(t).owner_ # t
        /\ Mon(t).lock_ # NoThread
        /\ IF local[t].op = "tryEnter"
           THEN Return(t) /\ UNCHANGED monitor
           ELSE /\ monitor' = [monitor EXCEPT ![local[t].id].waiters_counter_ = @ + 1]
                /\ Goto(t, "blocked")
        /\ UNCHANGED depth
  /\ UNCHANGED <<markWord_, pool, waits, suspendedBy, hashes>>

\* lock_.Lock() in status IS_BLOCKED.
AcquireBlocked(t) ==
  /\ At(t, "blocked")
  /\ Mon(t).lock_ = NoThread
  /\ TakeLock(t)
  /\ Goto(t, "owning")
  /\ UNCHANGED <<markWord_, pool, depth, waits, suspendedBy, hashes>>

\* Back in RUNNING.
AcquireReturn(t) ==
  /\ At(t, "owning")
  /\ ~Suspended(t)
  /\ monitor' = [monitor EXCEPT ![local[t].id].waiters_counter_ = @ - 1]
  /\ Acquired(t)
  /\ UNCHANGED <<markWord_, pool, waits, suspendedBy, hashes>>

-----------------------------------------------------------------------------
(* Monitor::MonitorExit and Monitor::Release *)

\* Called by a thread that entered.
MonitorExit(t) ==
  /\ At(t, "idle")
  /\ depth[t] > 0
  /\ local' = [local EXCEPT ![t].pc = "exit", ![t].op = "exit"]
  /\ UNCHANGED <<markWord_, pool, monitor, depth, waits, suspendedBy, hashes>>

\* The load of the mark; a thread that is not the owner gets ILLEGAL.
ExitLoad(t) ==
  /\ At(t, "exit")
  /\ LET mark == markWord_ IN
     \/ /\ mark.state = "HEAVY_LOCKED"
        /\ local' = [local EXCEPT ![t].pc = "release", ![t].id = mark.id]
     \/ /\ IsLightOf(mark, t)
        /\ local' = [local EXCEPT ![t].pc = "exitCas", ![t].old_mark = mark]
     \/ /\ mark.state # "HEAVY_LOCKED"
        /\ ~IsLightOf(mark, t)
        /\ Return(t)
  /\ UNCHANGED <<markWord_, pool, monitor, depth, waits, suspendedBy, hashes>>

\* Mutant: one exit releases all the levels of a light lock.
AllLevelsLess(mark) == Unlocked

OneLevelLess(mark) ==
  IF mark.count = 1 THEN Unlocked ELSE Light(mark.thread, mark.count - 1)

ExitCas(t) ==
  /\ At(t, "exitCas")
  /\ markWord_ = local[t].old_mark
  /\ markWord_' = OneLevelLess(markWord_)
  /\ depth' = [depth EXCEPT ![t] = @ - 1]
  /\ Return(t)
  /\ UNCHANGED <<pool, monitor, waits, suspendedBy, hashes>>

ExitCasFail(t) ==
  /\ At(t, "exitCas")
  /\ Loop(t, "exit")
  /\ UNCHANGED <<markWord_, pool, monitor, depth, waits, suspendedBy, hashes>>

\* Release is over: MonitorExit returns OK, or Wait goes on.
Released(t) ==
  \/ local[t].op = "exit" /\ Return(t)
  \/ local[t].op = "hashExit" /\ local' = [local EXCEPT ![t].pc = "hashReturn", ![t].op = "hash"]
  \/ local[t].op = "wait" /\ Goto(t, "condWait")

\* Mutant: a thread that releases the monitor in order to wait signals nobody.
FrontUnlessWaiting(t) ==
  IF local[t].op = "wait" \/ Mon(t).to_wakeup_ = <<>> THEN NoThread ELSE Head(Mon(t).to_wakeup_)

\* The one notified thread that this Release signals.
FrontToWakeup(t) ==
  IF Mon(t).to_wakeup_ = <<>> THEN NoThread ELSE Head(Mon(t).to_wakeup_)

\* Release of one level; at the last one the owner is reset and the front of
\* to_wakeup_ is taken off to be signalled.  PopLocalObjectLocked is local to t.
Release(t) ==
  /\ At(t, "release")
  /\ Mon(t).owner_ = t
  /\ depth' = IF local[t].op = "wait" THEN depth ELSE [depth EXCEPT ![t] = @ - 1]
  /\ LET id == local[t].id
         waiter == FrontToWakeup(t)
     IN
     \/ /\ Mon(t).recursive_counter_ > 1
        /\ monitor' = [monitor EXCEPT ![id].recursive_counter_ = @ - 1]
        /\ Released(t)
     \/ /\ Mon(t).recursive_counter_ = 1
        /\ monitor' = [monitor EXCEPT
             ![id].recursive_counter_ = 0, ![id].owner_ = NoThread,
             ![id].to_wakeup_ = IF waiter = NoThread THEN @ ELSE Tail(@)]
        /\ IF waiter # NoThread /\ waiting_monitor_[waiter] = id
           THEN local' = [local EXCEPT ![t].pc = "signal", ![t].other = waiter]
           ELSE Goto(t, "unlock")
  /\ UNCHANGED <<markWord_, pool, waits, suspendedBy, hashes>>

\* cond_var_.Signal of t, under its cond_lock_.
Wakes(t) == signalled' = IF At(t, "waiting") THEN signalled \cup {t} ELSE signalled

ReleaseSignal(t) ==
  /\ At(t, "signal")
  /\ local[t].other \notin cond_lock_
  /\ Wakes(local[t].other)
  /\ Goto(t, "unlock")
  /\ UNCHANGED <<markWord_, pool, monitor, depth, waiting_monitor_, cond_lock_,
                 is_interrupted_, suspendedBy, hashes>>

ReleaseUnlock(t) ==
  /\ At(t, "unlock")
  /\ monitor' = [monitor EXCEPT ![local[t].id].lock_ = NoThread]
  /\ Released(t)
  /\ UNCHANGED <<markWord_, pool, depth, waits, suspendedBy, hashes>>

-----------------------------------------------------------------------------
(* Monitor::Wait *)

\* Called by a thread that entered (the callers abort on ILLEGAL).
Wait(t) ==
  /\ At(t, "idle")
  /\ t \in Waiters
  /\ depth[t] > 0
  /\ local' = [local EXCEPT ![t].pc = "wait", ![t].op = "wait"]
  /\ UNCHANGED <<markWord_, pool, monitor, depth, waits, suspendedBy, hashes>>

\* The owner of a light lock inflates it first.
WaitInflate(t) ==
  /\ At(t, "wait")
  /\ IsLightOf(markWord_, t)
  /\ local' = [local EXCEPT ![t].pc = "inflate", ![t].after = "wait"]
  /\ UNCHANGED <<markWord_, pool, monitor, depth, waits, suspendedBy, hashes>>

\* An interrupted thread does not wait.
WaitInterrupted(t) ==
  /\ At(t, "wait")
  /\ markWord_.state = "HEAVY_LOCKED"
  /\ t \in is_interrupted_
  /\ Return(t)
  /\ UNCHANGED <<markWord_, pool, monitor, depth, waits, suspendedBy, hashes>>

\* Mutant: cond_lock_ is not held between here and the wait on cond_var_.
LockCondTooLate(t) == UNCHANGED cond_lock_

\* GetWaitingMutex()->Lock()
LockCond(t) == cond_lock_' = cond_lock_ \cup {t}

\* Under its own cond_lock_ (interrupted or not: the caller may ignore interruption)
\* the thread joins the waiters and gives up all its levels.
WaitEnlist(t) ==
  /\ At(t, "wait")
  /\ markWord_.state = "HEAVY_LOCKED"
  /\ LET id == markWord_.id IN
     /\ monitor[id].owner_ = t
     /\ local' = [local EXCEPT ![t].pc = "release", ![t].id = id,
                               ![t].counter = monitor[id].recursive_counter_]
     /\ monitor' = [monitor EXCEPT ![id].waiters_ = <<t>> \o @,
                                   ![id].recursive_counter_ = 1,
                                   ![id].waiters_counter_ = @ + 1]
     /\ waiting_monitor_' = [waiting_monitor_ EXCEPT ![t] = id]
  /\ LockCond(t)
  /\ UNCHANGED <<markWord_, pool, depth, signalled, is_interrupted_, suspendedBy, hashes>>

\* UpdateStatus and cond_var_.Wait, which releases cond_lock_.
CondWait(t) ==
  /\ At(t, "condWait")
  /\ cond_lock_' = cond_lock_ \ {t}
  /\ Goto(t, "waiting")
  /\ UNCHANGED <<markWord_, pool, monitor, depth, waiting_monitor_, signalled,
                 is_interrupted_, suspendedBy, hashes>>

\* The wait on cond_var_ is over, cond_lock_ released and the thread RUNNING again.
Awake(t) ==
  /\ At(t, "waiting")
  /\ ~Suspended(t)
  /\ signalled' = signalled \ {t}
  /\ Goto(t, "acquire")
  /\ UNCHANGED <<markWord_, pool, monitor, depth, waiting_monitor_, cond_lock_,
                 is_interrupted_, suspendedBy, hashes>>

WaitSignalled(t) == t \in signalled /\ Awake(t)

\* A timeout, or a spurious end of the wait.
WaitTimeout(t) == t \notin signalled /\ Awake(t)

\* ThreadList::RemoveIf: a thread has one link, so it is in a list once at most.
Remove(list, t) ==
  IF \E k \in DOMAIN list : list[k] = t
  THEN LET k == CHOOSE k \in DOMAIN list : list[k] = t
       IN  [j \in 1 .. Len(list) - 1 |-> IF j < k THEN list[j] ELSE list[j + 1]]
  ELSE list

\* Reacquired: the levels are restored, and the thread leaves the list it is in.
WaitEnd(t) ==
  /\ At(t, "waitEnd")
  /\ monitor' = [monitor EXCEPT ![local[t].id].waiters_counter_ = @ - 1,
                                ![local[t].id].recursive_counter_ = local[t].counter,
                                ![local[t].id].waiters_ = Remove(@, t),
                                ![local[t].id].to_wakeup_ = Remove(@, t)]
  /\ waiting_monitor_' = [waiting_monitor_ EXCEPT ![t] = NoId]
  /\ Return(t)
  /\ UNCHANGED <<markWord_, pool, depth, cond_lock_, signalled, is_interrupted_,
                 suspendedBy, hashes>>

-----------------------------------------------------------------------------
(* Monitor::Notify, Monitor::NotifyAll, MTManagedThread::Interrupt *)

MoveOne(m) == [m EXCEPT !.to_wakeup_ = <<Head(m.waiters_)>> \o @, !.waiters_ = Tail(@)]
MoveAll(m) == [m EXCEPT !.to_wakeup_ = @ \o m.waiters_, !.waiters_ = <<>>]

\* By the owner of a heavy lock (a light lock has no waiters).
NotifyBy(t, all) ==
  /\ At(t, "idle")
  /\ markWord_.state = "HEAVY_LOCKED"
  /\ LET m == monitor[markWord_.id] IN
     /\ m.owner_ = t
     /\ m.waiters_ # <<>>
     /\ monitor' = [monitor EXCEPT ![markWord_.id] = IF all THEN MoveAll(m) ELSE MoveOne(m)]
  /\ UNCHANGED <<markWord_, pool, local, depth, waits, suspendedBy, hashes>>

Notify(t) == NotifyBy(t, FALSE)
NotifyAll(t) == NotifyBy(t, TRUE)

Interrupt(t) ==
  /\ t \in Interruptible
  /\ t \notin cond_lock_
  /\ t \notin is_interrupted_
  /\ is_interrupted_' = is_interrupted_ \cup {t}
  /\ Wakes(t)
  /\ UNCHANGED <<markWord_, pool, monitor, local, depth, waiting_monitor_, cond_lock_,
                 suspendedBy, hashes>>

\* The thread takes note of its interruption and clears the flag.
Interrupted(t) ==
  /\ At(t, "idle")
  /\ t \in is_interrupted_
  /\ is_interrupted_' = is_interrupted_ \ {t}
  /\ UNCHANGED <<markWord_, pool, monitor, local, depth, waiting_monitor_, cond_lock_,
                 signalled, suspendedBy, hashes>>

-----------------------------------------------------------------------------
(* ObjectHeader::GetHashCode *)

GetHashCode(t) ==
  /\ At(t, "idle")
  /\ t \in Hashers
  /\ local' = [local EXCEPT ![t].pc = "hash", ![t].op = "hash"]
  /\ UNCHANGED <<markWord_, pool, monitor, depth, waits, suspendedBy, hashes>>

HashLoad(t) ==
  /\ At(t, "hash")
  /\ LET mark == markWord_ IN
     \/ /\ mark.state = "UNLOCKED"
        /\ Goto(t, "hashCas")
        /\ UNCHANGED hashes
     \/ /\ mark.state = "LIGHT_LOCKED"
        /\ local' = [local EXCEPT ![t].pc = "inflate", ![t].after = "hash"]
        /\ UNCHANGED hashes
     \/ /\ mark.state = "HEAVY_LOCKED"
        /\ local' = [local EXCEPT ![t].pc = "hashMonitor", ![t].monitor_p = mark.id]
        /\ UNCHANGED hashes
     \/ /\ mark.state = "HASHED"
        /\ hashes' = hashes \cup {mark.hash}
        /\ Return(t)
  /\ UNCHANGED <<markWord_, pool, monitor, depth, waits, suspendedBy>>

HashCas(t) ==
  /\ At(t, "hashCas")
  /\ markWord_ = Unlocked
  /\ \E h \in Hashes : markWord_' = Hashed(h)
  /\ Loop(t, "hash")
  /\ UNCHANGED <<pool, monitor, depth, waits, suspendedBy, hashes>>

HashCasFail(t) ==
  /\ At(t, "hashCas")
  /\ Loop(t, "hash")
  /\ UNCHANGED <<markWord_, pool, monitor, depth, waits, suspendedBy, hashes>>

\* Sleep after a failed Inflate, in status IS_SLEEPING.
HashSleep(t) ==
  /\ At(t, "sleep")
  /\ ~Suspended(t)
  /\ Loop(t, "hash")
  /\ UNCHANGED <<markWord_, pool, monitor, depth, waits, suspendedBy, hashes>>

\* GetHashCodeFromMonitor: enter the monitor unless it has a hash.
HashFromMonitor(t) ==
  /\ At(t, "hashMonitor")
  /\ LET h == monitor[local[t].monitor_p].hash_code_ IN
     \/ /\ h # NoHash
        /\ hashes' = hashes \cup {h}
        /\ Return(t)
     \/ /\ h = NoHash
        /\ local' = [local EXCEPT ![t].pc = "enter", ![t].op = "hashEnter"]
        /\ UNCHANGED hashes
  /\ UNCHANGED <<markWord_, pool, monitor, depth, waits, suspendedBy>>

\* Inside the monitor: look again, set the hash, exit.
HashSet(t) ==
  /\ At(t, "hashSet")
  /\ \E h \in Hashes :
       monitor' = [monitor EXCEPT ![local[t].monitor_p].hash_code_ = IF @ = NoHash THEN h ELSE @]
  /\ local' = [local EXCEPT ![t].pc = "exit", ![t].op = "hashExit"]
  /\ UNCHANGED <<markWord_, pool, depth, waits, suspendedBy, hashes>>

HashReturn(t) ==
  /\ At(t, "hashReturn")
  /\ hashes' = hashes \cup {monitor[local[t].monitor_p].hash_code_}
  /\ Return(t)
  /\ UNCHANGED <<markWord_, pool, monitor, depth, waits, suspendedBy>>

-----------------------------------------------------------------------------
(* Safepoints *)

\* Managed code polls and stops while somebody suspends its thread.
Poll(t) ==
  /\ \/ At(t, "idle") /\ Suspended(t) /\ Goto(t, "stopped")
     \/ At(t, "stopped") /\ ~Suspended(t) /\ Goto(t, "idle")
  /\ UNCHANGED <<markWord_, pool, monitor, depth, waits, suspendedBy, hashes>>

WorldStopped == \A t \in Threads : At(t, "idle") \/ ~Running(t)

\* Mutant: threads that are about to acquire do not keep a monitor inflated.
DeflatableUncounted(m) == m.owner_ = NoThread /\ m.lock_ = NoThread

Deflatable(m) == m.owner_ = NoThread /\ m.waiters_counter_ = 0 /\ m.lock_ = NoThread

\* Mutant: the hash is dropped.
DeflatedUnhashed(m) == Unlocked

DeflatedMark(m) == IF m.hash_code_ = NoHash THEN Unlocked ELSE Hashed(m.hash_code_)

\* DeflateInternal of a Monitor of the pool, in a stopped world.
Deflate(i) ==
  /\ WorldStopped
  /\ i \in monitors_
  /\ Deflatable(monitor[i])
  /\ markWord_' = DeflatedMark(monitor[i])
  /\ FreeMonitor(i)
  /\ UNCHANGED <<local, depth, waits, suspendedBy, hashes>>

-----------------------------------------------------------------------------
Cas(t) == EnterCas(t) \/ ExitCas(t) \/ InflateCas(t) \/ InflateOtherCas(t) \/ HashCas(t)

CasFail(t) ==
  \/ EnterCasFail(t) \/ ExitCasFail(t) \/ InflateCasFail(t) \/ InflateOtherCasFail(t)
  \/ HashCasFail(t)

EnterStep(t) ==
  \/ EnterLoad(t) \/ SuspendOwner(t) \/ OwnerSuspended(t) \/ InflateOtherLoad(t)
  \/ ResumeOwner(t) \/ InflateLoad(t) \/ Acquire(t) \/ AcquireBlocked(t) \/ AcquireReturn(t)

ExitStep(t) == ExitLoad(t) \/ Release(t) \/ ReleaseSignal(t) \/ ReleaseUnlock(t)

WaitStep(t) ==
  \/ WaitInflate(t) \/ WaitInterrupted(t) \/ WaitEnlist(t) \/ CondWait(t)
  \/ WaitSignalled(t) \/ WaitEnd(t)

HashStep(t) ==
  HashLoad(t) \/ HashSleep(t) \/ HashFromMonitor(t) \/ HashSet(t) \/ HashReturn(t)

\* The steps of a call that its thread takes by itself.
Step(t) ==
  Cas(t) \/ CasFail(t) \/ EnterStep(t) \/ ExitStep(t) \/ WaitStep(t) \/ HashStep(t) \/ Poll(t)

\* What managed code may call.
Call(t) ==
  \/ \E trylock \in BOOLEAN : MonitorEnter(t, trylock)
  \/ MonitorExit(t) \/ Wait(t) \/ Notify(t) \/ NotifyAll(t) \/ Interrupted(t) \/ GetHashCode(t)

Next ==
  \/ \E t \in Threads : Call(t) \/ Step(t) \/ WaitTimeout(t) \/ Interrupt(t)
  \/ \E i \in Ids : Deflate(i)

Spec == Init /\ [][Next]_vars

\* Threads inside a call keep running, managed code polls between its calls however
\* many it makes, and an exchange that can succeed again and again does.  Nobody need
\* call anything, nor exit; waits need not time out.
FairSpec ==
  /\ Spec
  /\ \A t \in Threads : WF_vars(Step(t)) /\ SF_vars(Cas(t)) /\ SF_vars(Poll(t))

-----------------------------------------------------------------------------
(* Properties *)

Locals ==
  [pc : Pcs, op : Ops, after : {"none", "entered", "enter", "wait", "hash"},
   old_mark : Marks, id : Ids \cup {NoId}, other : Threads \cup {NoThread},
   counter : Nat, monitor_p : Ids \cup {NoId}]

MonitorRecords ==
  [owner_ : Threads \cup {NoThread}, recursive_counter_ : Nat,
   lock_ : Threads \cup {NoThread}, waiters_ : Seq(Threads), to_wakeup_ : Seq(Threads),
   waiters_counter_ : Nat, hash_code_ : Hashes \cup {NoHash}]

TypeOK ==
  /\ markWord_ \in Marks
  /\ monitors_ \subseteq Ids
  /\ last_id_ \in Ids
  /\ monitor \in [Ids -> MonitorRecords]
  /\ local \in [Threads -> Locals]
  /\ depth \in [Threads -> Nat]
  /\ waiting_monitor_ \in [Threads -> Ids \cup {NoId}]
  /\ cond_lock_ \subseteq Threads
  /\ signalled \subseteq Threads
  /\ is_interrupted_ \subseteq Threads
  /\ suspendedBy \in [Threads -> SUBSET Threads]
  /\ hashes \subseteq Hashes

\* Monitor::HoldsLock called by t, with the levels it holds.
Levels(t) ==
  IF IsLightOf(markWord_, t) THEN markWord_.count
  ELSE IF markWord_.state = "HEAVY_LOCKED" /\ monitor[markWord_.id].owner_ = t
       THEN monitor[markWord_.id].recursive_counter_ ELSE 0

\* The mark word and the Monitor agree with what the thread did: in managed code it
\* holds exactly the levels it entered and did not exit, whatever inflations, by itself
\* or by a thread that suspended it, and deflations came in between.
LevelsKept == \A t \in Threads : local[t].pc \in {"idle", "stopped"} => Levels(t) = depth[t]

\* A thread never looks at a Monitor that was freed or belongs to somebody else: while
\* its call refers to an id, that id is in the pool, and once published it is the
\* object's Monitor.
NoStaleMonitor ==
  \A t \in Threads :
    /\ local[t].pc \in {"acquire", "blocked", "owning", "release", "signal", "unlock",
                        "condWait", "waiting", "waitEnd"} => markWord_ = Heavy(local[t].id)
    /\ local[t].pc \in {"inflateCas", "inflateOtherCas"} =>
         local[t].id \in monitors_ /\ markWord_ # Heavy(local[t].id)
    /\ local[t].monitor_p # NoId => markWord_ = Heavy(local[t].monitor_p)

InLists(i) == monitor[i].waiters_ \o monitor[i].to_wakeup_

\* The two lists are threaded through one link of each thread: a thread is in at most
\* one place, only while it waits for this Monitor; and a thread that is asleep, or
\* about to be, is in a list or has been signalled, or else nobody would wake it.
ListsExact ==
  \A t \in Threads, i \in Ids :
    LET places == {k \in DOMAIN InLists(i) : InLists(i)[k] = t} IN
    /\ Cardinality(places) <= 1
    /\ places # {} => waiting_monitor_[t] = i
    /\ waiting_monitor_[t] = i /\ local[t].pc \in {"release", "condWait", "waiting"} =>
         \/ places # {}
         \/ t \in signalled
         \/ \E u \in Threads : At(u, "signal") /\ local[u].other = t

\* waiters_counter_ counts every thread that will come back to this Monitor although
\* it is not RUNNING, which is all that keeps it from being deflated under them.
WaitersCounted ==
  \A i \in monitors_ :
    monitor[i].waiters_counter_ =
        Cardinality({t \in Threads : waiting_monitor_[t] = i})
      + Cardinality({t \in Threads : local[t].pc \in {"blocked", "owning"} /\ local[t].id = i})

\* Only one of the notified threads is signalled by each Release: as long as some
\* are left and the Monitor is free, a waiter is on its way to acquire it, whose own
\* Release signals the next one.
WakeupChain ==
  \A i \in Ids :
    monitor[i].to_wakeup_ # <<>> /\ monitor[i].lock_ = NoThread =>
      \E t \in Threads :
        /\ waiting_monitor_[t] = i
        /\ t \in signalled \/ local[t].pc \in {"acquire", "blocked"}

\* All the calls of GetHashCode return the same value, across inflation, deflation and
\* the race to set it first.
HashStable == Cardinality(hashes) <= 1

\* "ASSERT_TRUE(header->GetHashCode() == hash); ASSERT_FALSE(Monitor::HoldsLock(header));"
\* (tests/monitor_test.cpp:228-229): a thread that exited as often as it entered does
\* not hold the monitor after a call of GetHashCode.
HashTakesNoLock == \A t \in Threads : At(t, "idle") /\ depth[t] = 0 => Levels(t) = 0

Notified(t) ==
  \E i \in Ids : \E k \in DOMAIN monitor[i].to_wakeup_ : monitor[i].to_wakeup_[k] = t

\* A call that never ends, or a wait that does not although it was notified, is stuck
\* only because managed code holds the lock again and again.
NoStuckCall ==
  \A t \in Threads :
    <>[](local[t].pc \notin {"idle", "stopped", "waiting"} \/ t \in signalled \/ Notified(t)) =>
      []<>(\E u \in Threads : At(u, "idle") /\ Levels(u) > 0)

\* The abstract monitor: inflation and deflation are invisible.
Holder == {t \in Threads : Levels(t) > 0}
AbstractOwner == IF Holder = {} THEN NoThread ELSE CHOOSE t \in Threads : t \in Holder
AbstractDepth ==
  IF Holder = {} THEN 0
  ELSE IF waiting_monitor_[AbstractOwner] # NoId THEN local[AbstractOwner].counter
  ELSE Levels(AbstractOwner)
AbstractWaiting ==
  [t \in Threads |->
     IF waiting_monitor_[t] # NoId /\ Levels(t) = 0 THEN local[t].counter ELSE 0]

Abstract == INSTANCE AbstractMonitor
  WITH owner <- AbstractOwner, depth <- AbstractDepth, waiting <- AbstractWaiting

\* Every behaviour of light and heavy locks is one of a reentrant lock with Wait.
RefinesMonitor == Abstract!Spec
=============================================================================
