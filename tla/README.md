# TLA+ models of the Ark runtime core

This directory holds TLA+ specifications of the concurrent core of the runtime
under `src/`, TLC configurations that check them on small instances, and proofs
checked by TLAPS. `PROJECT.json` is the machine-readable index: components,
runs, mutants, the map from definitions to source lines, findings, hazards and
theorems.

## 1. The system and its parts

The repository is the core of a managed-language runtime: a base library
(`libpandabase`), file and archive libraries, an assembler and disassembler, a
bytecode verifier, and the runtime proper (interpreter, class linker, threads,
monitors, memory manager and garbage collectors). Most of it is sequential
transformation of data. The behaviour that is hard to get right, and hard to
test, is where threads meet; the inventory below is ordered by that.

| part | state it keeps | operations | meets | what makes it correct |
|---|---|---|---|---|
| futex `Mutex`, `RecursiveMutex` (`libpandabase/os/unix/futex`) | `state_and_waiters_` (held bit and waiter count in one word), `exclusive_owner_`, `recursive_count_`, the kernel's queue | `Lock`, `TryLock`, `TryLockWithSpinning`, `Unlock`, `LockForOther`, `UnlockForOther` | everything else; the kernel through `futex` | one owner; the count is exact; no sleeper beside a free mutex that nobody will wake |
| futex `ConditionVariable` | `mutex_ptr_`, `cond_`, `waiters_`, the kernel's queue | `Wait`, `TimedWait`, `Signal`, `SignalAll` (requeue to the mutex) | the mutex's word: it adds to its waiter count | a signal reaches a waiter that was there; requeued waiters are counted by the mutex; recursion depth is restored |
| futex `RWLock` | `state_`, `exclusive_owner_`, `waiters_` | `ReadLock`, `WriteLock`, their try variants, `Unlock` | used as `Locks::mutator_lock` | readers exclude the writer; no lost wake-up between two separate words |
| `MTManagedThread` status and suspension | status and flags in one word, `suspend_count_`, `suspend_lock_`, `suspend_var_` | `UpdateStatus`, `SafepointPoll`, `WaitSuspension`, `SuspendImpl`, `ResumeImpl`, switches between native and managed code | mutator lock, thread manager, monitors, debugger | a thread asked to suspend does not run managed code; each resume undoes its own suspension |
| `ThreadManager`, `Rendezvous` | `threads_`, `thread_lock_`, `suspend_new_count_`, `pending_threads_`, internal ids | register, unregister, suspend/resume all, suspend by id, stop daemons, wait for deregistration | every managed thread, the GC thread | the world is really stopped; new threads start suspended; an exiting thread is not deleted under another's feet; all of it ends |
| object monitors, `MonitorPool` | the object's mark word (unlocked, hash, light lock, monitor id); `owner_`, `recursive_counter_`, `waiters_`, `to_wakeup_`, `lock_` of a monitor; the table of ids | enter, exit, wait, notify, inflate, deflate | thread suspension, condition variables, safepoints | one owner across light and heavy locks; waiters are neither lost nor left in lists; a stale id is noticed |
| class initialization | the class's state and its init thread, under the class object's monitor | `ClassInitializer::Initialize` | monitors, managed code of `<clinit>` | the initializer runs once; waiters see its outcome |
| class linker | class tables of contexts, locks per context | load, link, create contexts | class initialization | racing loads give one class |
| GC driver | task queue, phase, `gc_counter_`, running flag, worker thread | add/get task, wait for GC, start/stop, triggers | rendezvous, allocators | a task is not lost and not run after stop; one collection at a time |
| collectors and barriers | mark stacks, mark bits, card table, barrier buffers | mark, sweep/compact, pre- and post-barriers | mutators during concurrent marking | no reachable object is collected |
| reference storage and processor | blocks of references, frames; queues of weak, soft and phantom references | add, get, remove, push/pop frame | GC | references stay valid until removed |
| string table | two hash tables with separate locks | intern, sweep | GC | equal strings intern to one object |
| thread pool and its queue | bounded queue, worker list, active flag | put, take, finish, scale, shut down | condition variable | a task is executed or refused |
| allocators, TLABs, pools, card table, bitmaps, crossing map | memory ranges and free lists | allocate, free, iterate | GC | ranges are disjoint |
| interpreter, entrypoints | frames, registers | instructions | safepoints | instruction semantics |
| verifier | job queue, results cache, abstract states | verify method | class linker | sound typing |
| debugger, notifications | breakpoints, listeners | suspend, resume, step | thread suspension | user suspension nests with internal suspension |
| runtime start and shutdown | singletons | create, destroy | thread manager, GC | no thread outlives what it uses |
| file formats, zip, assembler, disassembler, profiler, utilities | files and buffers | parse, emit | - | format round trips |

How they build on each other:

```
   Monitor ---- ClassInitializer          GC worker / GC queue
     |   \                                   |
     |    \__ suspend owner by id            | safepoint
     |             \                         v
     |              v                   Rendezvous
     |        ThreadManager  <-------------- |
     |              |                        |
     |        MTManagedThread (status, flags, suspend count)
     |              |                        |
     v              v                        v
   Mutex + ConditionVariable              RWLock (mutator lock)
     \______________|________________________/
                    futex words and queues
```

The hard behaviours are therefore interleavings of single atomic accesses (the
futex words; status and flags; the mark word), threads that suspend, resume,
register and exit while others do the same to them, waits with timeouts and
interruption, and liveness of all of it. Nothing is persisted, so there is no
crash recovery. `PROJECT.json` lists each hazard at its line with the
properties that would catch it.

## 2. Plan

1. `FutexMutex`, `FutexCondVar`, `FutexRWLock` with the abstract locks they
   implement. Done; all three are proved.
2. `Suspension`: thread status, thread manager, rendezvous, suspension of the
   owner of a light lock. Done for internal suspension; proved.
3. `Monitor` with `AbstractMonitor`: light and heavy locks, inflation,
   deflation, `Wait`/`Notify`, hash codes of one object. Done for one object and
   proved; several objects that share the pool of ids are left.
4. `ClassInitializer`: class state, init thread, superclasses and interfaces,
   class initializers that throw or use other classes. Done; proved.
5. `GCDriver`: the task queue, the worker, requests of mutators, safepoints and
   concurrent scopes, fork and stop. Done; proved.
6. `GenGC`: the generational collector beside running threads, with the card
   table, the initialisation of object headers and the string table. Done for
   one reference field per object; proved.
7. Left for later: user suspension by the debugger and termination of daemon
   threads in `Suspension`; concurrent marking of G1 with its pre-barrier;
   reference storage frames, crossing map encoding, run-slots free lists.

## 3. Modules

All models are sequentially consistent: an atomic access takes effect at once
and in program order. The relaxed and acquire/release orders of the code are
not modelled; the note of a hazard that depends on them says so. A critical
section of a lock that nobody can look into from outside is one step; every
other shared access is a step of its own.

### FutexMutex, AbstractLock, FutexMutexProofs

`state_and_waiters_` is the record `[held, waiters]`, read and exchanged whole.
`pc[t]` names the next access of thread `t` in `Lock`, `TryLock`,
`TryLockWithSpinning` or `Unlock`; `cur_state[t]` is its local copy of the
word. The kernel is the set `futexQ` of threads asleep on the word:
`FUTEX_WAIT` compares and sleeps in one step, `FUTEX_WAKE` removes any one
sleeper, and `FutexInterrupt` removes one without a wake (EINTR). A weak
exchange may fail although the word is equal. `WaitBrieflyFor` is its last load,
since only that decides. The client is arbitrary: any thread may lock, try,
spin, recurse (up to `MaxRecursion`) or unlock what it holds.

`AbstractLock` is a reentrant lock with an owner and a depth. `FutexMutex`
implements it with the owner taken at the exchange that sets the held bit, not
where `exclusive_owner_` is written; that field lags behind on both sides.

### FutexCondVar, FutexCondVarProofs

Extends `FutexMutex` with `mutex_ptr_`, `cond_`, `waiters_` and a second kernel
queue. A waiter enters with the mutex held, reads `cond_`, unlocks through the
mutex's own steps, sleeps, wakes (signalled, requeued, timed out, interrupted or
because `cond_` changed) and locks again. `SignalCount` requeues to the mutex
when the signaller holds it and wakes directly otherwise.

### FutexRWLock, AbstractRWLock, FutexRWLockProofs

`state_` (unlocked, writer, or a number of readers) and `waiters_` are separate
words, so the model separates their accesses; `exclusive_owner_` is stored after
and cleared before the exchange, and `Unlock` uses it to tell a writer from a
reader.

### Suspension, SuspensionProofs

The calls of this component nest deeply: `UpdateStatus` polls, the poll waits,
the wait updates the status. What an actor still has to execute is therefore a
continuation `work[a]`, a sequence of instructions; a step executes the first
one and may put others in its place. An empty continuation is an actor in its
own code. `status` and `suspend_request` are the two halves of `fts_`,
compared together by `StoreStatusWithSafepoint`. The mutator lock is used as
`AbstractRWLock` promises (a set of readers and a writer). The thread manager's
critical sections are one step where nobody else can see into them;
`SuspendAllThreads` and `ResumeAllThreads` take one step per thread because
flags are read without `thread_lock_`. `DestroyBody` follows
`MTManagedThread::Destroy` and `UnregisterExitedThread` through every status
change. `ResumeImpl` called by `MonitorEnter` is two steps: the flag is cleared
in the first, `suspend_lock_` released in the second.

### Monitor, AbstractMonitor, MonitorProofs

One object: its mark word `markWord_` (unlocked, hashed, light lock with owner
and count, or the id of a Monitor), the pool (`monitors_`, `last_id_`) and the
Monitor of each id. One object is enough for the properties here, because ids
are what objects share and the pool hands them out round robin and reuses them.
`local[t]` is where thread `t` is in `MonitorEnter`, `MonitorExit`, `Wait` or
`GetHashCode`, with its copy of the mark and the id it looked up; every access
to the mark word is a step, and its weak exchange may fail for no reason.
What a thread does to a Monitor whose `lock_` it holds, or that it has just
created, is one step, except where another thread can see a difference:
`Release` resets the owner, signals and unlocks in three steps.

The layers below are used as their own modules show them to behave: `lock_` as
`AbstractLock`, a thread's `cond_lock_` and `cond_var_` as a lock and a set of
signalled threads, suspension of the owner as `OwnerStaysSuspended` promises.
A thread's position says whether it is RUNNING; monitors are deflated in any
state where no thread is (managed code can be stopped anywhere). `depth[t]`
is `local_objects_locked_`, what managed code believes it holds.

`AbstractMonitor` is a reentrant lock whose owner may give up all its levels in
`Wait` and gets them back before it returns. Inflation and deflation are
stuttering steps of it. `AbstractOwner` is read from the mark word and the
Monitor as `HoldsLock` does.

### ClassInitializer, ClassInitializerProofs

`state` and `initTid` are a class's `state_` and `init_tid_`. A thread's `stack`
holds its activations of `Initialize` and `InitializeInterface`, because both
recurse (base class, interfaces, and whatever the class initializer touches).
The two sections under `ObjectLock` are one step per way out of them; the
unlocked tests of `INITIALIZED` are steps of their own. The monitor of the class
object is a wait set: `Wait` joins it, `NotifyAll` empties it, and an
interruption removes one thread, which `Wait` does not report as an exception.
`SetState` keeps the code's check of the transition: an invalid one sets
`aborted`, which stands for `LOG(FATAL)`. What a class initializer does is
managed code, so it is left open: it uses some of the classes in `Uses`, catches
the failure of such a use or not, and ends with or without an exception.
`StaleThreads` may call with an exception already pending: `HeapManager` sets an
out-of-memory exception in a collection it runs on the caller's behalf and, for
non-movable objects, does not clear it when the second attempt succeeds.

### GCDriver, GCDriverProofs

`req[p]` is a call of `WaitForGC` by thread `p`: before its safepoint, asleep in
`WaitForIdleGC`, collecting in a pause or in a concurrent scope, or done. The
stopped world is one variable, `world`, as `Rendezvous` provides it; `phase` and
`counter` are `gc_phase_` and `gc_counter_`. A collection is its pauses and
concurrent scopes and nothing else. `queue`, `signalled` and `wpc` model
`GCQueueWithTime` and the worker's loop; its lock is held from the look at
`gc_running_` to the wait, which is what makes the signal of `JoinWorker`
arrive. Task times are reduced to late or due. `Main` is the thread that forks
the zygote (`PreZygoteFork`, `PostZygoteFork`), calls `PreStartup` and stops the
collector (`StopGC`). Both ways to collect are initial states: by a worker, or
in place by the thread that asks.

### GenGC, GenGCProofs

Memory is a row of slots: tenured ones, then young ones, `CardSize` slots to a
card. Each instance has one reference field, a string none; slot 1 is a loaded
class with a static field. A young collection is one action, since it happens
in one pause: it marks from registers and cards, moves survivors and redirects
references exactly where the code looks for them (marked and processed cards,
moved objects, registers, the weak string table), so a card the barrier missed
shows as a dangling reference. The tenured collection takes one step per shared
access while threads run: class roots, the mark stack, the visit of internal
strings with recording of new ones, each card and each object on it; then the
second pause (`ReMark`), the sweep slot by slot, with the cards of the pools that
it has emptied, and the clearing of marks. The mark stack is a set that is taken
from in any order, the code's last-in-first-out among them. Two things done
beside running threads are one step where the code takes many: the marks are
cleared before anyone looks at one again, and a card that covers no object is
cleared where no thread looks at it, or marks it, until the memory has been
handed out anew. A thread's store and its card mark are two steps, and so are the steps by which a
tenured object gets its mark bit (`InitGCBits`, with its two looks at the phase)
and its class word. Lookups and insertions in the two string tables are one step
each, under that table's lock. Threads stop for a pause only between operations
or where they allocate. A string for which there is no memory ends the process
(`OutOfMemory`, `Faulted`, `Ended`; see the observations).

### MC modules

`MCFutexCondVar`, `MCSuspension`, `MCMonitor` and `MCGenGC` extend their modules
and TLC and define symmetry sets, used by runs without liveness properties only.
`MCClassInitializer` defines the class hierarchy. `mutex`, `rwlock` and
`gc_driver` run on the modules themselves.

## 4. Runs

Bounds are constants of the modules and appear as guards; nothing is cut off by
a state constraint.

| run | instance | checks |
|---|---|---|
| `mutex` | 3 threads, recursive mutex with 2 levels, 1 spin attempt | `MutualExclusion`, `CodeAssertions`, `WaitersExact`, `NoLostWakeup`, `RefinesLock`, `NoStuckLock` |
| `condvar_safety` | 3 threads, 2 signals | `CvWaitersExact`, `CvNoLostWakeup`, `SignalsDelivered` |
| `condvar_live` | 2 threads, recursive mutex, 3 signals, 2 spin attempts | `CvMutualExclusion`, `SignalledReturns` |
| `rwlock` | 3 threads | `NoLostWakeup`, `RefinesRWLock`, `NoStuckLock` |
| `suspension` | 2 managed threads that may exit, the GC thread, 3 rounds | `SuspensionsCounted`, `WorldStopped`, `OwnerStaysSuspended`, `SuspendedNotDeleted`, `SafepointReached`, `OperationsComplete` |
| `suspension_delete` | 2 managed threads, 1 round | `NotDeletedWhileAccessed`, violated |
| `monitor_safety` | 3 threads that wait and notify, two levels, light count overflows at 2 | `LevelsKept`, `NoStaleMonitor`, `ListsExact`, `WakeupChain` |
| `monitor_refine` | 2 threads that wait, two levels, overflow at 3; one is interrupted, the other hashes with 2 possible values | `HashStable`, `RefinesMonitor`, `NoStuckCall` |
| `monitor_hashlock` | 2 threads, one of which hashes | `HashTakesNoLock`, violated |
| `class_init` | 3 threads, one call each; a class, a subclass of it, an interface and its base interface | `CctorRunsOnce`, `DependenciesFirst`, `AbortsOnlyAfterSpoiling`, `FailureThrows`, `CallsReturn` |
| `gc_driver` | 2 mutators with a request each, the main thread, the worker; 1 fork, 1 concurrent scope | `OneCollector`, `RequestCovered`, `TriggersOffForATask`, `ServiceProgress`, `StartupEnds` |
| `gen_gc` | 4 tenured and 2 young slots, cards of 2 slots, 2 threads with 2 registers, 1 string, 4 operations | `NoDanglingReference`, `InternedOnce`, `GarbageCollected` |

The type invariants, and `RWExclusion`, `CodeAssertions` and `WaitersExact` of
`FutexRWLock`, `ReadersRun`, `WaitersCounted`, `InitializerOwnsClass` and
`TasksReleasedOnce`, are implied by or weaker than what the runs check, or are
steps towards it; no run lists them. They are stated because the inductive
invariants of the proofs are made of them, or follow from those; `ReadersRun` and
`WaitersCounted` are stated for the reader.

Why the bounds are enough. The locks need an owner, a sleeper and a third thread
that barges in; three threads give every combination of roles, and the proofs
remove the bound for the safety properties; the mutex that is not recursive is covered by
`condvar_safety` and by the proofs. `MaxRecursion` 2 has an outermost and an inner
level. Two signals let a second one arrive while the first is being delivered.
For `Suspension` a round is a safepoint or the suspension of an owner; two
managed threads and the GC thread with three rounds give overlapping safepoints,
safepoints against suspensions, two threads that suspend each other, and an
exiting thread that is suspended by a safepoint and by the other thread at once,
and again after it polled.
For `Monitor` three threads are an owner, a thread that inflates on the owner's
behalf or waits, and one that competes with both; three waiters make a list
with a head, a middle and an end. `LightLockMax` stands for 2^15: with 2 the
second level overflows the light count, with 3 it is counted in the mark word.
`MaxMonitorId` is one more than the threads, so that ids are reused soon but never run out (the code aborts then).
Hashing, waiting and interruption together are in `monitor_refine`, with one
thread that hashes: two would take the run past its time; `LevelsKept` is not checked
there, because the finding `monitor_hashlock` breaks it.
For `ClassInitializer` three threads are an initializer, a waiter and a thread
with an exception of its own. The hierarchy has every kind of edge: base class,
interface without default methods above one with them, and a class initializer
of the base that uses the subclass, so that threads recurse into classes they
are initializing and can wait for each other in a circle.
For `GCDriver` two mutators with a request each, beside the worker's tasks and
the collection before a fork, put up to three requests at one safepoint; one
concurrent scope is where the others get in. A second fork repeats the first.
For `GenGC` the sizes are the least where every reference the collector has to
find can exist: an old object on its own card, one that refers to a young one, a
young object that refers to another, and a slot to allocate while the sweep is
running. Of the two threads one works on the heap and both intern the string,
since a race needs two only in the string table. Four operations suffice to load
a reference, cut it from its object, and store it where the marking has passed.

The runs of `Suspension`, `ClassInitializer` and `GCDriver` do not check for
deadlock, because these systems may really stop: threads exit, calls and rounds
are used up, the collector is stopped. That nobody waits for ever is what
`OperationsComplete`, `CallsReturn` and `ServiceProgress` say. `gen_gc` does check it: there only the
process that a null dereference has ended stands still (`Ended`).

### Fairness

Weak fairness on the steps of a call in progress: the code runs on preemptively
scheduled operating-system threads, so a thread that can take its next step
takes it. No fairness is assumed of clients (nobody must call, unlock or leave
managed code), of EINTR or of timeouts. Two additions: in the mutex an exchange
that could succeed again and again eventually does (`SF` on `Cas`), since a weak
exchange that failed spuriously for ever would be a broken machine; in
`Suspension` managed code polls its flags (`WF` on `ManagedCodePolls`), which
the interpreter and compiled code do at loop back-edges and calls. `Monitor`
makes both assumptions: weak fairness of `Step`, strong fairness of the
exchanges of the mark word, and strong fairness of `Poll`, because managed code
polls however many calls it makes in between.

`ClassInitializer` has weak fairness of each thread's steps, which includes that
a class initializer ends; nothing is assumed of calls and interruptions.
`GCDriver` has weak fairness of each request, each insertion of a task, the
worker, the passing of time, and of `Main` once it has begun to fork or stop;
nobody has to ask for a collection. `GenGC` is checked for safety only.

`NoStuckLock` is deliberately weaker than freedom from starvation: the locks let
newcomers overtake a woken thread, so a thread may wait while the lock is taken
again and again. What is promised is that it is not stuck beside a lock that
everybody has left. `NoStuckCall` says the same of monitors: an enter, a wait
that was notified or any other call is stuck only while managed code holds the
lock again and again.

### Findings

- `suspension_delete`: `ResumeImpl` clears the flag before it signals
  `suspend_var_` and releases `suspend_lock_`, and `MonitorEnter` calls it
  without `thread_lock_`. The exiting thread tests only the flag before it
  deletes itself, so it may be deleted while the resumer is still inside. The
  comment in `UnregisterExitedThread` says that deletion waits for those who may
  access the thread.
- `monitor_hashlock`: `GetHashCode` reads the mark of an object that another
  thread holds by a light lock, and calls `Inflate`, which reads it again. If
  the lock was released in between, `Inflate` succeeds for the caller, who now
  owns the monitor; `GetHashCode` never releases it. The test of hash codes
  expects that the caller does not hold the lock afterwards.

### Observations

What the models showed and no line of the repository contradicts, or what only
costs time; no run is about these.

- `Monitor::Release` signals the waiter before it unlocks `lock_`; the comment
  (`monitor.cpp:661`) says after. The waiter may block on `lock_` once more.
- `ClassInitializer::Initialize`: a thread that waits for a class with an
  exception already pending marks the class erroneous under its initializer
  (`class_initializer.cpp:98-101`) and notifies nobody; the initializer's own
  transition then ends in the `FATAL` of `Class::SetState`.
  `AbortsOnlyAfterSpoiling` says that this is the only way there. The exception
  can come from `AllocateNonMovableObject` (`heap_manager.cpp:200`), which unlike
  `TryGCAndAlloc` (line 150) leaves it pending when the retry succeeds.
- An interface that is already initialized hides those of its base interfaces
  that are not (`DependenciesFirst` is stated accordingly). The failure branch
  of `InitializeFields` is dead: it always returns true.
- Threads that initialize classes needing each other wait for ever, as in Java;
  `CallsReturn` exempts exactly them.
- `RunPhases` (`gc.cpp:184`) gives up when the counter has moved, whatever the
  cause of the other collection was, so a request for a full collection may be
  answered by a young one. `RequestCovered` marks that way out (`inner`).
- A worker told to end releases the task it has just taken; if that was a
  threshold task, `can_add_gc_task_` stays false after a fork until some other
  task has run. `TriggersOffForATask` marks that way out (`dropped`).
- The two string tables have separate locks, so two threads may intern one
  string in both. `InternedOnce` is stated for each table.
- `StringTable`: when there is no memory for a new string, `CreateFromMUtf8` and
  `CreateFromUtf16` return null with an exception pending
  (`coretypes/string.cpp:77-79` and `129-131`);
  `GetOrInternString` passes the result on without looking at it
  (`string_table.cpp:150-153`, `167-169` and `269-271`), and `InternString`
  dereferences it (line 128). The handler that would turn the fault into an exception
  is not registered in this repository, so the process ends. The models' properties
  hold up to that point: no freed object is involved.
- The sweep deflates the monitors of dead objects beside running threads
  (`gen-gc.cpp:653`). No thread can name such an object, so the `Monitor` module,
  which is about one live object, loses nothing by it.

## 5. Proofs

Each proofs module extends the module it is about and proves its safety for
every value of the constants that satisfies that module's `ASSUME`: any finite
set of threads and any bounds. The invariants were checked with TLC on the
instances above before they were proved. In each module `Invariance` is the
theorem that the inductive invariant holds, and the others follow from it.

| module | theorems, beside `Invariance` and type correctness | properties of the runs they state |
|---|---|---|
| `FutexMutexProofs` | `Exclusion`, `AssertionsHold`, `WaitersCounted`, `NoWakeupLost`, `Refinement` | `MutualExclusion`, `CodeAssertions`, `WaitersExact`, `NoLostWakeup`, `RefinesLock` |
| `FutexCondVarProofs` | `CvExclusion`, `CvWaitersCounted`, `CvNoWakeupLost`, `SignalDelivery` | `CvMutualExclusion`, `CvWaitersExact`, `CvNoLostWakeup`, `SignalsDelivered` |
| `FutexRWLockProofs` | `Exclusion`, `AssertionsHold`, `NoWakeupLost`, `Refinement` | `NoLostWakeup`, `RefinesRWLock` |
| `SuspensionProofs` | `Counted`, `StoppedWorld`, `OwnerSuspended`, `NotDeletedWhileSuspended` | `SuspensionsCounted`, `WorldStopped`, `OwnerStaysSuspended`, `SuspendedNotDeleted` |
| `MonitorProofs` | `NoStale`, `Lists`, `Counted`, `Wakeups`, `OneHash`, `LevelsExact`, `Refinement` | `NoStaleMonitor`, `ListsExact`, `WakeupChain`, `HashStable`, `LevelsKept`, `RefinesMonitor` |
| `ClassInitializerProofs` | `AtMostOneRun`, `AbortNeedsSpoiling`, `FalseMeansThrown`, `Ownerships`, `BasesBeforeCctor` | `CctorRunsOnce`, `AbortsOnlyAfterSpoiling`, `FailureThrows`, `DependenciesFirst` |
| `GCDriverProofs` | `CollectorExclusion`, `RequestsAnswered`, `TasksReleased`, `TriggersComeBack` | `OneCollector`, `RequestCovered`, `TriggersOffForATask` |
| `GenGCProofs` | `NoDangling`, `Interning`, `Collected` | `NoDanglingReference`, `InternedOnce`, `GarbageCollected` |

None of these properties is inductive alone. What each invariant adds, and why:

**Mutex** (recursive or not). `CopyInv`: what a thread's stale copy of the word is
still good for (a copy in `cas` was free, a copy in `unlockCas` was held);
`CountInv`: the recursion count in each phase of the owner; `SleepInv`: only
threads in `sleep` are in the kernel's queue. The argument that matters is
`WakeupStep`: the thread that leaves the mutex free with a sleeper either goes
to `wake`, because the exact count tells it so, or the sleeper's compare in
`FUTEX_WAIT` fails. The refinement goes through `OwnerMap`, which replaces the
`CHOOSE` of the mapping by the unique holder, with one step per action.

**Condition variable.** Its module extends the mutex's proofs and cites their
lemmas for the mutex's own steps, so exclusion is not argued twice. It adds where
a thread in `Wait` is in the mutex's code (`PositionInv`), the recursion count
`Wait` has set aside (`RestoreInv`), which of the two kernel queues a sleeper is
in (`QueueInv`) and what the waiters' copies of `cond_` say (`SignalInv`: a waiter
that a signaller found awake, and that has not slept yet, has an old copy, so its
`FUTEX_WAIT` returns at once). The last is what `SignalDelivery`, an action property,
rests on.

**Readers-writer lock.** `CopyInv` as above; `OwnerInv`: `exclusive_owner_`, stored
after and cleared before the exchange, still tells a writer from a reader;
`NoWakeupLost` across two words: the unlocker reads `waiters_` after its
exchange, the waiter counts itself before its compare. `Refinement` maps every
step to a step of `AbstractRWLock` or a stutter, by what the step does to the
sets of readers and writers (`HoldersStep`).

**Suspension.** `CountInv` and `OwnerInv` are the properties `SuspensionsCounted` and
`OwnerStaysSuspended` written over the continuations. They need `ShapeInv`, the
forms a continuation can have (a suspension by id is resumed by its last
instruction; a safepoint's instructions come first and in order); `LockInv`,
whoever goes through the registry or removes itself holds `thread_lock_`, so
nobody registers or leaves meanwhile; `WriterInv` and `HeldInv`; and `CreatedInv`,
a new thread does nothing before it is registered. Each kind of step is shown to
change the suspensions in force of one thread by one, or of none
(`SafepointCounts`, `CalmKeepsCount`), and the counters with them. `RegisterStep`
is the case of a thread that arrives in the middle of a safepoint: with
`thread_lock_` free, the safepoints that cover it are exactly the ones
`suspend_new_count_` counts.

**Monitor**, for any pool with more ids than threads. The core is who can know
which Monitor: an id of the pool is the object's, or belongs to the one thread
that created it and has not published it yet (`PoolInv`), and whoever is inside
`Acquire`, `Release` or `Wait`, or remembers a Monitor for its hash, is inside the
object's (`PlaceInv`). Publishing keeps this because the exchange compares the
mark; deflation keeps it because by `CountOK` a Monitor with `waiters_counter_`
zero has no thread inside it that is not RUNNING, and in a stopped world no other
is. All that is said of owner, lists, counter and wakeups (`HeavyInv`) is then said of
one Monitor. `WakesOK` is the chain of wakeups: a `Release` that leaves notified
threads behind a free `lock_` has signalled one, or some waiter was on its way
already. `ShapeInv` says what a thread's locals can be at each step and `WaitInv`
when it holds its `cond_lock_` and can be signalled. Each step is reduced to what it
does to one thread and one Monitor (`Look`, `MonitorStep`, `HeavyParts`). `HashInv`:
all that was returned is the hash the object has now. `LevelsInv`, and with it
`LevelsExact`, is proved under `Hashers = {}`: the finding `monitor_hashlock` breaks it
otherwise. The refinement needs no such condition, because the level that
`GetHashCode` keeps is a level of the abstract lock as well; it goes through `Mapping`,
which replaces the `CHOOSE` of the mapping by the owner that the mark names.

**Class initialization**, for any hierarchy and any behaviour of the class
initializers (`MaxCalls` bounds the calls). `ActiveInv` and `UniqueInv`: an
activation past its first locked section owns its class and is the only one that
does. `FrameInv` says what an activation has settled when it has got as far as
its `pc` says; "settled" must be told so that it lasts: initialized, or being
initialized by an activation further out on the same stack, which cannot end
first. `LinkInv` and `ReturnInv` carry the result of an activation to its caller.

**GC driver.** `SinceInv`: the counter has moved since a request read it only if
that request has seen the last collection begin. `PlaceInv`: where the worker and
`Main` are when they collect, hold a task, or have been joined. `TasksReleased`
balances the tasks handed in against queue, worker and those being added.

**Generational collector**, for any number of slots, any card size that divides the
tenured space, any threads, registers and strings. The assumptions on the constants
are that a young collection asks for at least as much free tenured memory as the young
space has (`MoveReserve >= NumYoung`; `CollectYoungAndMove` asks for twice the size of
the young space, `gen-gc.cpp:262`) and that no string is named like another kind of
class word. The invariant is about
`Live` objects: initialised, not garbage when the marking began, and not about
to be freed by the sweep in progress. `HeapOK`: what live objects and registers
refer to is live, and interned if it is a string. `FieldsOK`: a reference into
the young space, or out of it, is on a card, or its store has not run the barrier
yet. `MarksOK` is the tri-colour invariant with cards: a marked object that is not on
the stack refers to an unmarked one only if its card is marked, or processed and
still to be visited, or its barrier is pending; nothing dead is ever marked;
class object and internal strings, which the second pause does not visit again, are
marked once their phase is over, except strings being recorded. `OpsOK` carries
a new tenured object through `InitGCBits`: while the sweep runs, its mark is set
before its class word. `YoungMarksOK`: the young space keeps stale marks
only while there is no room to move into, so they never hide a survivor.

Reachability is a closure that is computed in as many rounds as there are slots.
Three lemmas say what the argument needs of it: it contains its roots
(`ClosureBase`), it is closed (`ClosureClosed`: a chain of rounds that all grow
would have more elements than slots), and it is the least such set
(`ClosureLeast`). Where these need an induction over numbers, it is by a least
counterexample (`LeastNumber`, from the well-foundedness of `<` on `Nat`), since an
induction rule cannot be instantiated. `Placement` says that the survivors of a
young collection get distinct free slots. `ReMarkedFacts` is where the second pause
finds everything that is left, `MoveFacts` and `MoveInv` are the young collection.

Only model-checked:

- liveness (`NoStuckLock`, `SignalledReturns`, `SafepointReached`,
  `OperationsComplete`, `NoStuckCall`, `CallsReturn`, `ServiceProgress`,
  `StartupEnds`): fairness is out of the prover's reach;
- the two violations, which are behaviours TLC exhibits.

No module uses a `RECURSIVE` operator, so each can be proved about.

## 6. What is not modelled

- Memory orders weaker than sequential consistency.
- `ConvertTime`, the destructors of the locks, the non-futex (pthread) port.
- The 32-bit wrap of `cond_` inside one wait.
- In `Suspension`: user suspension, daemon termination, internal id reuse,
  interruption of a thread (see the plan).
- In `Monitor`: several objects, `ReleaseMonitors` of a terminating thread, the
  non-futex inflation policy, objects moved by the collector, exits of threads
  that own a light lock.
- In `ClassInitializer`: the values of static fields, the verifier's work, class
  loading, and the class object's monitor in detail (`Monitor` is about that).
- In `GCDriver`: the byte counters that decide when a trigger fires, listeners
  and heap dumps, and the retries of an allocation (`TryGCAndAlloc` starts over
  while any collection frees memory, so one thread may retry for long).
- In `GenGC`: objects with several fields, arrays, humongous objects, weak
  references and the reference processor, classes loaded while marking, the
  pygote space, `GetStringFast`, the deflation of dead objects' monitors, and the
  overloads of `GetOrInternString` that intern the caller's own `String`
  (`string_table.cpp:43-50` and `174-182`), which only tests call. The other collectors (STW, G1, epsilon).
- The thread pool (`thread_pool.h`): nothing but its test uses it. Its `PutTask`
  does not look at the active flag again after it waited for room (line 131).
- The parts of section 1 that the plan leaves out: file formats, assembler and
  tools (sequential text and bytes), the interpreter's instruction semantics,
  the verifier's abstract interpretation, address arithmetic of allocators and
  card tables, sockets of the profiler. `PROJECT.json` gives the reason for each.
