------------------------------- MODULE Suspension -------------------------------
(***************************************************************************)
(* Suspension of managed threads: MTManagedThread's status, flags and      *)
(* suspend counter (runtime/include/mtmanaged_thread.h, runtime/           *)
(* thread.cpp), the ThreadManager that suspends, registers and deletes     *)
(* threads (runtime/thread_manager.{h,cpp}), the Rendezvous that stops the *)
(* world (runtime/mem/rendezvous.cpp), and the contended MonitorEnter that *)
(* suspends the owner of a light lock (runtime/monitor.cpp).               *)
(*                                                                         *)
(* What an actor still has to execute is its continuation work[a], a       *)
(* sequence of instructions; a step executes the first one.  The calls     *)
(* nest (UpdateStatus polls the safepoint, the safepoint updates the       *)
(* status), and so do the continuations.  An empty continuation is an      *)
(* actor in its own code: managed code when its status is RUNNING, native  *)
(* code when it is NATIVE.  One atomic access to a word, or one critical   *)
(* section of thread_lock_ or suspend_lock_ no other actor can look into,  *)
(* is one step.                                                            *)
(***************************************************************************)
EXTENDS Naturals, FiniteSets, Sequences

CONSTANTS
  Threads,     \* the MTManagedThreads
  MainThread,  \* ThreadManager::main_thread_
  GCThread,    \* a thread that is not managed and calls the Rendezvous
  StwThreads,  \* managed threads that use ScopedSuspendAllThreadsRunning
  ExitThreads, \* managed threads that exit
  Nobody,      \* no owner of a lock
  MaxRounds    \* bound: safepoints and owner suspensions that ever start

ASSUME SuspensionAssumption ==
  /\ IsFiniteSet(Threads)
  /\ MainThread \in Threads
  /\ GCThread \notin Threads
  /\ StwThreads \subseteq Threads
  /\ ExitThreads \subseteq Threads
  /\ Nobody \notin Threads \cup {GCThread}
  /\ MaxRounds \in Nat

Actors == Threads \cup {GCThread}

VARIABLES
  status,              \* fts_.status of each thread
  suspend_request,     \* fts_.flags: whether SUSPEND_REQUEST is set
  suspend_count_,
  suspend_lock_,       \* owner of each thread's suspend_lock_
  mutator_readers,     \* Locks::mutator_lock: threads that hold it shared
  mutator_writer,      \* Locks::mutator_lock: the actor that holds it, or Nobody
  thread_lock_,        \* owner of ThreadManager::thread_lock_
  threads_,            \* registered threads
  deleted,             \* threads whose MTManagedThread has been deleted
  suspend_new_count_,
  work,                \* continuation of each actor
  rounds               \* safepoints and owner suspensions started

vars == <<status, suspend_request, suspend_count_, suspend_lock_, mutator_readers,
          mutator_writer, thread_lock_, threads_, deleted, suspend_new_count_,
          work, rounds>>

fts      == <<status, suspend_request>>
counters == <<suspend_count_, suspend_new_count_>>
mutator  == <<mutator_readers, mutator_writer>>
registry == <<threads_, deleted>>

Statuses == {"CREATED", "RUNNING", "IS_SUSPENDED", "IS_WAITING_INFLATION",
             "NATIVE", "TERMINATING", "FINISHED"}

-----------------------------------------------------------------------------
(* Instructions. *)

UpdateStatus(s)             == [op |-> "update", status |-> s]
StoreStatus(s)              == [op |-> "store", status |-> s]
StoreStatusWithSafepoint(s) == [op |-> "storeWithSafepoint", status |-> s]
ReadLock                    == [op |-> "readLock"]
SafepointPoll               == [op |-> "poll"]
AwaitResume                 == [op |-> "awaitResume"]
SuspendThread(t)            == [op |-> "suspendThread", thread |-> t]
WaitNotRunning(t)           == [op |-> "waitNotRunning", thread |-> t]
ResumeImpl(t)               == [op |-> "resume", thread |-> t]
ResumeImplEnd(t)            == [op |-> "resumeEnd", thread |-> t]
SuspendAllLock              == [op |-> "suspendAllLock"]
SuspendAll(todo)            == [op |-> "suspendAll", todo |-> todo]
WriteLock                   == [op |-> "writeLock"]
WriteUnlock                 == [op |-> "writeUnlock"]
ResumeAllLock               == [op |-> "resumeAllLock"]
ResumeAll(todo)             == [op |-> "resumeAll", todo |-> todo]
UnregisterLock              == [op |-> "unregisterLock"]
UnregisterCheck             == [op |-> "unregisterCheck"]

Instructions ==
  [op : {"update", "store", "storeWithSafepoint"}, status : Statuses] \cup
  [op : {"suspendThread", "waitNotRunning", "resume", "resumeEnd"}, thread : Threads] \cup
  [op : {"suspendAll", "resumeAll"}, todo : SUBSET Threads] \cup
  [op : {"readLock", "poll", "awaitResume", "suspendAllLock", "writeLock",
         "writeUnlock", "resumeAllLock", "unregisterLock", "unregisterCheck"}]

\* WaitSuspension of a thread whose status is old.
WaitSuspension(old) == <<UpdateStatus("IS_SUSPENDED"), AwaitResume, UpdateStatus(old)>>

\* SuspendAndWaitThreadByInternalThreadId up to SuspendImpl: ScopedManagedCodeThread,
\* then the critical section of thread_lock_.
TrySuspend(t) == <<UpdateStatus("RUNNING"), SuspendThread(t)>>

\* Rendezvous::SafepointBegin, the work done in the safepoint, Rendezvous::SafepointEnd.
Safepoint == <<SuspendAllLock, WriteLock, WriteUnlock, ResumeAllLock>>

\* Destroy: TERMINATING, ScopedManagedCodeThread around PtThreadInfo's Destroy,
\* NativeCodeEnd, and UnregisterExitedThread, which holds thread_lock_ from its start.
DestroyBody ==
  <<UpdateStatus("TERMINATING"), UpdateStatus("RUNNING"), UpdateStatus("NATIVE"),
    UpdateStatus("RUNNING"), UnregisterLock, UpdateStatus("FINISHED"), UnregisterCheck>>

Idle(a) == work[a] = <<>>
Begin(a, prog) == work' = [work EXCEPT ![a] = prog]
At(a, op) == work[a] # <<>> /\ Head(work[a]).op = op
Arg(a) == Head(work[a])
\* The first instruction of a is replaced by prog.
Do(a, prog) == work' = [work EXCEPT ![a] = prog \o Tail(@)]
Return(a) == Do(a, <<>>)
StartRound == rounds < MaxRounds /\ rounds' = rounds + 1

Init ==
  /\ status = [t \in Threads |-> IF t = MainThread THEN "NATIVE" ELSE "CREATED"]
  /\ suspend_request = [t \in Threads |-> FALSE]
  /\ suspend_count_ = [t \in Threads |-> 0]
  /\ suspend_lock_ = [t \in Threads |-> Nobody]
  /\ mutator_readers = {}
  /\ mutator_writer = Nobody
  /\ thread_lock_ = Nobody
  /\ threads_ = {MainThread}
  /\ deleted = {}
  /\ suspend_new_count_ = 0
  /\ work = [a \in Actors |-> <<>>]
  /\ rounds = 0

-----------------------------------------------------------------------------
(* IncSuspended and DecSuspended, under the thread's suspend_lock_. *)

IncSuspended(t) ==
  /\ suspend_count_' = [suspend_count_ EXCEPT ![t] = @ + 1]
  /\ suspend_request' = [suspend_request EXCEPT ![t] = TRUE]

DecSuspended(t) ==
  /\ suspend_count_' = [suspend_count_ EXCEPT ![t] = IF @ > 0 THEN @ - 1 ELSE @]
  /\ suspend_request' = [suspend_request EXCEPT ![t] = @ /\ suspend_count_[t] # 1]

-----------------------------------------------------------------------------
(* The status of a thread. *)

\* UpdateStatus.  Leaving RUNNING releases the mutator lock before the status is
\* stored; entering it stores the status, when no flag is set, before the lock is taken.
Update(t) ==
  /\ At(t, "update")
  /\ LET s == Arg(t).status IN
     \/ /\ status[t] = "RUNNING" /\ s # "RUNNING"
        /\ mutator_readers' = mutator_readers \ {t}
        /\ Do(t, <<StoreStatus(s)>>)
        /\ UNCHANGED status
     \/ /\ status[t] # "RUNNING" /\ s = "RUNNING"
        /\ Do(t, <<StoreStatusWithSafepoint(s), ReadLock>>)
        /\ UNCHANGED <<status, mutator_readers>>
     \/ /\ status[t] # "RUNNING" /\ s = "TERMINATING"
        /\ Do(t, <<StoreStatusWithSafepoint(s)>>)
        /\ UNCHANGED <<status, mutator_readers>>
     \/ /\ status[t] # "RUNNING" /\ s \notin {"RUNNING", "TERMINATING"}
        /\ status' = [status EXCEPT ![t] = s]
        /\ Return(t)
        /\ UNCHANGED mutator_readers
  /\ UNCHANGED <<suspend_request, counters, suspend_lock_, mutator_writer,
                 thread_lock_, registry, rounds>>

Store(t) ==
  /\ At(t, "store")
  /\ status' = [status EXCEPT ![t] = Arg(t).status]
  /\ Return(t)
  /\ UNCHANGED <<suspend_request, counters, suspend_lock_, mutator, thread_lock_,
                 registry, rounds>>

\* Mutant: the status is stored whatever the flags are.
StoreWhateverFlags(t) ==
  /\ At(t, "storeWithSafepoint")
  /\ status' = [status EXCEPT ![t] = Arg(t).status]
  /\ Return(t)
  /\ UNCHANGED <<suspend_request, counters, suspend_lock_, mutator, thread_lock_,
                 registry, rounds>>

\* One turn of the loop of StoreStatusWithSafepoint: the compare-and-swap of status
\* and flags succeeds only if no flag is set.
StoreIfNoFlags(t) ==
  /\ At(t, "storeWithSafepoint")
  /\ IF suspend_request[t]
     THEN /\ Do(t, WaitSuspension(status[t]) \o <<Arg(t)>>)
          /\ UNCHANGED status
     ELSE /\ status' = [status EXCEPT ![t] = Arg(t).status]
          /\ Return(t)
  /\ UNCHANGED <<suspend_request, counters, suspend_lock_, mutator, thread_lock_,
                 registry, rounds>>

MutatorReadLock(t) ==
  /\ At(t, "readLock")
  /\ mutator_writer = Nobody
  /\ mutator_readers' = mutator_readers \cup {t}
  /\ Return(t)
  /\ UNCHANGED <<fts, counters, suspend_lock_, mutator_writer, thread_lock_,
                 registry, rounds>>

Poll(t) ==
  /\ At(t, "poll")
  /\ Do(t, IF suspend_request[t] THEN WaitSuspension(status[t]) ELSE <<>>)
  /\ UNCHANGED <<fts, counters, suspend_lock_, mutator, thread_lock_, registry, rounds>>

\* The wait of WaitSuspension ends under suspend_lock_ when the counter is zero; the
\* timed wait looks again every 100 ms, signalled or not.
Resumed(t) ==
  /\ At(t, "awaitResume")
  /\ suspend_lock_[t] = Nobody
  /\ suspend_count_[t] = 0
  /\ Return(t)
  /\ UNCHANGED <<fts, counters, suspend_lock_, mutator, thread_lock_, registry, rounds>>

-----------------------------------------------------------------------------
(* What a thread does from its own code. *)

\* ProcessCreatedThread: RegisterThread applies the suspensions of the safepoints in
\* progress, then NativeCodeBegin.
RegisterThread(t) ==
  /\ Idle(t)
  /\ status[t] = "CREATED"
  /\ thread_lock_ = Nobody
  /\ threads_' = threads_ \cup {t}
  /\ suspend_count_' = [suspend_count_ EXCEPT ![t] = @ + suspend_new_count_]
  /\ suspend_request' = [suspend_request EXCEPT ![t] = suspend_new_count_ > 0]
  /\ Begin(t, <<UpdateStatus("NATIVE")>>)
  /\ UNCHANGED <<status, suspend_new_count_, suspend_lock_, mutator, thread_lock_,
                 deleted, rounds>>

\* A poll of managed code (only one that finds a flag does anything).
ManagedCodePolls(t) ==
  /\ Idle(t)
  /\ status[t] = "RUNNING"
  /\ suspend_request[t]
  /\ Begin(t, <<SafepointPoll>>)
  /\ UNCHANGED <<fts, counters, suspend_lock_, mutator, thread_lock_, registry, rounds>>

\* NativeCodeBegin and ManagedCodeEnd; NativeCodeEnd and ManagedCodeBegin.
SwitchCode(t) ==
  /\ Idle(t)
  /\ \/ status[t] = "RUNNING" /\ Begin(t, <<UpdateStatus("NATIVE")>>)
     \/ status[t] = "NATIVE" /\ Begin(t, <<UpdateStatus("RUNNING")>>)
  /\ UNCHANGED <<fts, counters, suspend_lock_, mutator, thread_lock_, registry, rounds>>

Destroy(t) ==
  /\ Idle(t)
  /\ t \in ExitThreads
  /\ status[t] = "NATIVE"
  /\ Begin(t, DestroyBody)
  /\ UNCHANGED <<fts, counters, suspend_lock_, mutator, thread_lock_, registry, rounds>>

\* Monitor::MonitorEnter, retries on a light lock exhausted: inside
\* ScopedNativeCodeThread and ScopedChangeThreadStatus, suspend the owner whose
\* internal id the mark word held (it may have exited since).
SuspendOwner(t, owner) ==
  /\ Idle(t)
  /\ status[t] = "RUNNING"
  /\ owner # t
  /\ status[owner] # "CREATED"
  /\ StartRound
  /\ Begin(t, <<UpdateStatus("NATIVE"), UpdateStatus("IS_WAITING_INFLATION")>>
              \o TrySuspend(owner))
  /\ UNCHANGED <<fts, counters, suspend_lock_, mutator, thread_lock_, registry>>

\* A safepoint of the GC thread, or of a managed thread that runs: the latter gives
\* the mutator lock up with its status still RUNNING, and takes it back at the end.
StartSafepoint(a) ==
  /\ Idle(a)
  /\ \/ /\ a = GCThread
        /\ Begin(a, Safepoint)
        /\ UNCHANGED mutator_readers
     \/ /\ a \in StwThreads
        /\ status[a] = "RUNNING"
        /\ mutator_readers' = mutator_readers \ {a}
        /\ Begin(a, Safepoint \o <<ReadLock>>)
  /\ StartRound
  /\ UNCHANGED <<fts, counters, suspend_lock_, mutator_writer, thread_lock_, registry>>

-----------------------------------------------------------------------------
(* SuspendAndWaitThreadByInternalThreadId and the resume by its caller. *)

\* Mutant: a thread that is to be suspended itself goes on to suspend the owner.
SuspendThreadAnyway(t) ==
  /\ At(t, "suspendThread")
  /\ thread_lock_ = Nobody
  /\ LET owner == Arg(t).thread IN
     \/ /\ owner \notin threads_
        /\ Do(t, <<UpdateStatus("NATIVE"), UpdateStatus("NATIVE"), UpdateStatus("RUNNING")>>)
        /\ UNCHANGED <<suspend_count_, suspend_request>>
     \/ /\ owner \in threads_
        /\ suspend_lock_[owner] = Nobody
        /\ IncSuspended(owner)
        /\ Do(t, <<UpdateStatus("NATIVE"), WaitNotRunning(owner), UpdateStatus("NATIVE"),
                   UpdateStatus("RUNNING"), ResumeImpl(owner)>>)
  /\ UNCHANGED <<status, suspend_new_count_, suspend_lock_, mutator, thread_lock_,
                 registry, rounds>>

\* The critical section of thread_lock_, and what follows it: the owner is gone; or
\* the caller is itself to be suspended and tries again; or the owner is suspended,
\* waited for, used (the caller running again) and resumed.
SuspendThreadById(t) ==
  /\ At(t, "suspendThread")
  /\ thread_lock_ = Nobody
  /\ LET owner == Arg(t).thread IN
     \/ /\ owner \notin threads_
        /\ Do(t, <<UpdateStatus("NATIVE"), UpdateStatus("NATIVE"), UpdateStatus("RUNNING")>>)
        /\ UNCHANGED <<suspend_count_, suspend_request>>
     \/ /\ owner \in threads_
        /\ suspend_request[t]
        /\ Do(t, <<UpdateStatus("NATIVE")>> \o TrySuspend(owner))
        /\ UNCHANGED <<suspend_count_, suspend_request>>
     \/ /\ owner \in threads_
        /\ ~suspend_request[t]
        /\ suspend_lock_[owner] = Nobody
        /\ IncSuspended(owner)
        /\ Do(t, <<UpdateStatus("NATIVE"), WaitNotRunning(owner), UpdateStatus("NATIVE"),
                   UpdateStatus("RUNNING"), ResumeImpl(owner)>>)
  /\ UNCHANGED <<status, suspend_new_count_, suspend_lock_, mutator, thread_lock_,
                 registry, rounds>>

ThreadIsSuspended(t) ==
  /\ At(t, "waitNotRunning")
  /\ status[Arg(t).thread] # "RUNNING"
  /\ Return(t)
  /\ UNCHANGED <<fts, counters, suspend_lock_, mutator, thread_lock_, registry, rounds>>

\* ResumeImpl, called without thread_lock_: DecSuspended under the owner's
\* suspend_lock_; StopSuspension and the unlock come after the flag is clear.
ResumeOwner(t) ==
  /\ At(t, "resume")
  /\ LET owner == Arg(t).thread IN
     /\ suspend_lock_[owner] = Nobody
     /\ suspend_lock_' = [suspend_lock_ EXCEPT ![owner] = t]
     /\ DecSuspended(owner)
     /\ Do(t, <<ResumeImplEnd(owner)>>)
  /\ UNCHANGED <<status, suspend_new_count_, mutator, thread_lock_, registry, rounds>>

ResumeOwnerEnd(t) ==
  /\ At(t, "resumeEnd")
  /\ suspend_lock_' = [suspend_lock_ EXCEPT ![Arg(t).thread] = Nobody]
  /\ Return(t)
  /\ UNCHANGED <<fts, counters, mutator, thread_lock_, registry, rounds>>

-----------------------------------------------------------------------------
(* Rendezvous over SuspendAllThreads and ResumeAllThreads. *)

SuspendAllThreads(a) ==
  /\ At(a, "suspendAllLock")
  /\ thread_lock_ = Nobody
  /\ thread_lock_' = a
  /\ Do(a, <<SuspendAll(threads_ \ {a})>>)
  /\ UNCHANGED <<fts, counters, suspend_lock_, mutator, registry, rounds>>

\* SuspendImpl of the next thread; after the last, suspend_new_count_ is incremented
\* and thread_lock_ released.
SuspendNext(a) ==
  /\ At(a, "suspendAll")
  /\ LET todo == Arg(a).todo IN
     \/ /\ todo = {}
        /\ suspend_new_count_' = suspend_new_count_ + 1
        /\ thread_lock_' = Nobody
        /\ Return(a)
        /\ UNCHANGED <<suspend_count_, suspend_request>>
     \/ \E t \in todo :
        /\ suspend_lock_[t] = Nobody
        /\ IncSuspended(t)
        /\ Do(a, <<SuspendAll(todo \ {t})>>)
        /\ UNCHANGED <<suspend_new_count_, thread_lock_>>
  /\ UNCHANGED <<status, suspend_lock_, mutator, registry, rounds>>

\* Mutant: the writer does not wait for the readers.
MutatorWriteLockAtOnce(a) ==
  /\ At(a, "writeLock")
  /\ mutator_writer = Nobody
  /\ mutator_writer' = a
  /\ Return(a)
  /\ UNCHANGED <<fts, counters, suspend_lock_, mutator_readers, thread_lock_,
                 registry, rounds>>

MutatorWriteLock(a) ==
  /\ At(a, "writeLock")
  /\ mutator_writer = Nobody
  /\ mutator_readers = {}
  /\ mutator_writer' = a
  /\ Return(a)
  /\ UNCHANGED <<fts, counters, suspend_lock_, mutator_readers, thread_lock_,
                 registry, rounds>>

\* The safepoint's work is done: SafepointEnd.
MutatorWriteUnlock(a) ==
  /\ At(a, "writeUnlock")
  /\ mutator_writer' = Nobody
  /\ Return(a)
  /\ UNCHANGED <<fts, counters, suspend_lock_, mutator_readers, thread_lock_,
                 registry, rounds>>

\* Mutant: suspend_new_count_ is not decremented.
ResumeAllKeepsNewCount(a) ==
  /\ At(a, "resumeAllLock")
  /\ thread_lock_ = Nobody
  /\ thread_lock_' = a
  /\ Do(a, <<ResumeAll(threads_ \ {a})>>)
  /\ UNCHANGED <<fts, counters, suspend_lock_, mutator, registry, rounds>>

ResumeAllThreads(a) ==
  /\ At(a, "resumeAllLock")
  /\ thread_lock_ = Nobody
  /\ thread_lock_' = a
  /\ suspend_new_count_' = IF suspend_new_count_ > 0 THEN suspend_new_count_ - 1
                                                    ELSE suspend_new_count_
  /\ Do(a, <<ResumeAll(threads_ \ {a})>>)
  /\ UNCHANGED <<fts, suspend_count_, suspend_lock_, mutator, registry, rounds>>

ResumeNext(a) ==
  /\ At(a, "resumeAll")
  /\ LET todo == Arg(a).todo IN
     \/ /\ todo = {}
        /\ thread_lock_' = Nobody
        /\ Return(a)
        /\ UNCHANGED <<suspend_count_, suspend_request>>
     \/ \E t \in todo :
        /\ suspend_lock_[t] = Nobody
        /\ DecSuspended(t)
        /\ Do(a, <<ResumeAll(todo \ {t})>>)
        /\ UNCHANGED thread_lock_
  /\ UNCHANGED <<status, suspend_new_count_, suspend_lock_, mutator, registry, rounds>>

-----------------------------------------------------------------------------
(* ThreadManager::UnregisterExitedThread *)

UnregisterEnter(t) ==
  /\ At(t, "unregisterLock")
  /\ thread_lock_ = Nobody
  /\ thread_lock_' = t
  /\ Return(t)
  /\ UNCHANGED <<fts, counters, suspend_lock_, mutator, registry, rounds>>

\* Mutant: the thread is deleted without a look at its flags.
UnregisterAtOnce(t) ==
  /\ At(t, "unregisterCheck")
  /\ thread_lock_' = Nobody
  /\ threads_' = threads_ \ {t}
  /\ deleted' = deleted \cup {t}
  /\ Return(t)
  /\ UNCHANGED <<fts, counters, suspend_lock_, mutator, rounds>>

\* After UpdateStatus(FINISHED), with thread_lock_ held: the main thread stays; a
\* thread with a flag set polls without the lock and looks again; any other is
\* removed and deleted.
UnregisterExitedThread(t) ==
  /\ At(t, "unregisterCheck")
  /\ thread_lock_' = Nobody
  /\ \/ /\ t = MainThread
        /\ Return(t)
        /\ UNCHANGED registry
     \/ /\ t # MainThread
        /\ suspend_request[t]
        /\ Do(t, <<SafepointPoll, UnregisterLock, UnregisterCheck>>)
        /\ UNCHANGED registry
     \/ /\ t # MainThread
        /\ ~suspend_request[t]
        /\ threads_' = threads_ \ {t}
        /\ deleted' = deleted \cup {t}
        /\ Return(t)
  /\ UNCHANGED <<fts, counters, suspend_lock_, mutator, rounds>>

-----------------------------------------------------------------------------
StatusStep(t) ==
  Update(t) \/ Store(t) \/ StoreIfNoFlags(t) \/ MutatorReadLock(t) \/ Poll(t) \/ Resumed(t)

SuspendThreadStep(t) ==
  SuspendThreadById(t) \/ ThreadIsSuspended(t) \/ ResumeOwner(t) \/ ResumeOwnerEnd(t)

RendezvousStep(a) ==
  \/ SuspendAllThreads(a) \/ SuspendNext(a) \/ MutatorWriteLock(a)
  \/ MutatorWriteUnlock(a) \/ ResumeAllThreads(a) \/ ResumeNext(a)

UnregisterStep(t) == UnregisterEnter(t) \/ UnregisterExitedThread(t)

\* The next instruction of an actor.
Step(a) ==
  \/ RendezvousStep(a)
  \/ a \in Threads /\ (StatusStep(a) \/ SuspendThreadStep(a) \/ UnregisterStep(a))

\* An operation begun from an actor's own code.
Call(a) ==
  \/ StartSafepoint(a)
  \/ /\ a \in Threads
     /\ \/ RegisterThread(a) \/ ManagedCodePolls(a) \/ SwitchCode(a) \/ Destroy(a)
        \/ \E owner \in Threads : SuspendOwner(a, owner)

Next == \E a \in Actors : Step(a) \/ Call(a)

Spec == Init /\ [][Next]_vars

\* Every actor executes its instructions, and managed code polls for safepoints.
\* Nothing obliges a thread to begin any operation.
FairSpec ==
  /\ Spec
  /\ \A a \in Actors : WF_vars(Step(a))
  /\ \A t \in Threads : WF_vars(ManagedCodePolls(t))

-----------------------------------------------------------------------------
(* Properties. *)

Pending(a, op) == \E i \in DOMAIN work[a] : work[a][i].op = op

\* a has suspended t by its id and has not resumed it yet.
Holds(a, t) ==
  \E i \in DOMAIN work[a] : work[a][i].op = "resume" /\ work[a][i].thread = t

\* a is in a safepoint whose SuspendAllThreads has counted t and whose
\* ResumeAllThreads has not.
Covers(a, t) ==
  /\ t # a
  /\ t \in threads_
  /\ \/ At(a, "suspendAll") /\ t \notin Arg(a).todo
     \/ Pending(a, "resumeAllLock") /\ ~At(a, "suspendAllLock") /\ ~At(a, "suspendAll")
     \/ At(a, "resumeAll") /\ t \in Arg(a).todo

\* Safepoints whose SuspendAllThreads is over and whose ResumeAllThreads is not begun.
InSafepoint(a) == Pending(a, "resumeAllLock") /\ ~At(a, "suspendAllLock") /\ ~At(a, "suspendAll")

TypeOK ==
  /\ status \in [Threads -> Statuses]
  /\ suspend_request \in [Threads -> BOOLEAN]
  /\ suspend_count_ \in [Threads -> Nat]
  /\ suspend_lock_ \in [Threads -> Threads \cup {Nobody}]
  /\ mutator_readers \subseteq Threads
  /\ mutator_writer \in Actors \cup {Nobody}
  /\ thread_lock_ \in Actors \cup {Nobody}
  /\ threads_ \subseteq Threads
  /\ deleted \subseteq Threads \ threads_
  /\ suspend_new_count_ \in Nat
  /\ work \in [Actors -> Seq(Instructions)]
  /\ rounds \in 0 .. MaxRounds

\* A thread holds the mutator lock shared only in status RUNNING: whoever sees another
\* status may count on the thread not touching managed objects.
ReadersRun == \A t \in mutator_readers : status[t] = "RUNNING"

\* suspend_count_ of a live thread is the number of suspensions in force: one for each
\* safepoint that covers it and one for each actor that suspended it by id; its
\* SUSPEND_REQUEST flag is set exactly when that number is not zero; and
\* suspend_new_count_ is the number of safepoints a new thread must be suspended for.
SuspensionsCounted ==
  /\ \A t \in Threads \ deleted :
       /\ suspend_count_[t] = Cardinality({a \in Actors : Covers(a, t)})
                            + Cardinality({a \in Actors : Holds(a, t)})
       /\ suspend_request[t] = (suspend_count_[t] > 0)
  /\ suspend_new_count_ = Cardinality({a \in Actors : InSafepoint(a)})

\* While the Rendezvous holds the world stopped, every other registered thread, also
\* one that registered meanwhile, has been asked to suspend and is outside the mutator
\* lock, so it blocks before it runs managed code.
WorldStopped ==
  mutator_writer # Nobody =>
    \A t \in threads_ \ {mutator_writer} : suspend_request[t] /\ t \notin mutator_readers

\* Between the return of SuspendAndWaitThreadByInternalThreadId and the ResumeImpl of
\* its caller, the suspended thread stays out of status RUNNING: the caller inflates
\* the thread's light lock on its behalf.
OwnerStaysSuspended ==
  \A a \in Actors, t \in Threads :
    Holds(a, t) /\ ~Pending(a, "waitNotRunning") => status[t] # "RUNNING"

\* A thread that somebody has suspended by id, or that a safepoint counts on resuming,
\* is not deleted before it is resumed.
SuspendedNotDeleted ==
  \A a \in Actors, t \in Threads :
    Holds(a, t) \/ (At(a, "resumeAll") /\ t \in Arg(a).todo) => t \notin deleted

\* "While this thread is suspended, do not delete it as other thread can be accessing
\* it" (thread_manager.cpp:253): no actor is inside ResumeImpl of a deleted thread.
NotDeletedWhileAccessed ==
  \A a \in Actors : At(a, "resumeEnd") => Arg(a).thread \notin deleted

\* A safepoint that was begun is reached: the Rendezvous gets the mutator lock although
\* other threads keep moving between native and managed code.
SafepointReached ==
  \A a \in Actors : Pending(a, "writeLock") ~> mutator_writer = a

\* Every operation that was begun ends: threads that suspend each other, or are
\* suspended while they suspend another, enter a safepoint or exit, do not wait for
\* each other for ever.
OperationsComplete == \A a \in Actors : ~Idle(a) ~> Idle(a)
=============================================================================
