------------------------------- MODULE GCDriver -------------------------------
(***************************************************************************)
(* Who collects garbage and when (runtime/mem/gc/gc.cpp, gc_queue.cpp,     *)
(* generational-gc-base.cpp): the queue of GC tasks and its worker thread, *)
(* the requests of threads that collect themselves, the phase and the      *)
(* counter by which requests share collections, and the life of the worker *)
(* across a zygote fork and the stop of the runtime.                       *)
(*                                                                         *)
(* A safepoint is a lock here (world): that it stops every mutator is the  *)
(* subject of module Suspension. The last cause, the counter and the IDLE  *)
(* phase are only written by the owner of the world, so acquiring it and   *)
(* testing them is one step. The sections under the queue's lock are one   *)
(* step each, but for GetTask, which looks at gc_running_ first and waits  *)
(* afterwards: gc_running_ is written without the lock.                    *)
(***************************************************************************)
EXTENDS Naturals, Sequences, FiniteSets

CONSTANTS
  Mutators,     \* managed threads
  Main,         \* the thread that starts, forks and stops the runtime
  GCThread,     \* the worker
  Nobody,
  MaxRequests,  \* bound: requests and triggers per mutator
  MaxForks,     \* bound: zygote forks
  MaxScopes     \* concurrent scopes of a collection: marking and sweeping

ASSUME DriverAssumption ==
  /\ IsFiniteSet(Mutators)
  /\ Main \notin Mutators /\ GCThread \notin Mutators \cup {Main}
  /\ Nobody \notin Mutators \cup {Main, GCThread}
  /\ MaxRequests \in Nat /\ MaxForks \in Nat /\ MaxScopes \in Nat

Procs == Mutators \cup {Main, GCThread}

(* GCTaskCause, in its order *)
CauseNo == [INVALID |-> 0, YOUNG |-> 1, PYGOTE_FORK |-> 2, STARTUP_COMPLETE |-> 3,
            NATIVE_ALLOC |-> 4, HEAP_USAGE_THRESHOLD |-> 5, EXPLICIT |-> 6, OOM |-> 7]
Causes == DOMAIN CauseNo

(* GenGC::ShouldRunTenuredGC *)
RunsTenured(cause) ==
  cause \in {"PYGOTE_FORK", "OOM", "EXPLICIT", "HEAP_USAGE_THRESHOLD"}

VARIABLES
  inPlace,    \* gc_settings_.run_gc_in_place
  world,      \* the owner of the safepoint
  phase,      \* "IDLE" or "BUSY": GC_PHASE_IDLE or any other
  counter,    \* gc_counter_
  lastCause,  \* last_cause_
  req,        \* per thread, the activation of WaitForGC
  running,    \* gc_running_
  canAdd,     \* can_add_gc_task_
  queue,      \* GCQueueWithTime::queue_ in order of target time
  finalized,  \* GCQueueWithTime::finalized
  adding,     \* per thread, the cause of the task it is about to add
  wpc,        \* where the worker stands
  held,       \* the cause of the task the worker took, or INVALID
  signalled,  \* the worker's wait was signalled
  mpc,        \* where Main stands
  startup,    \* the footprint of GCTriggerHeap: "normal", "raised" or "restored"
  zygote,     \* Runtime::IsZygote
  forks,      \* zygote forks so far
  left,       \* requests each mutator has still to make
  live,       \* history: GC tasks allocated for the queue and not yet released
  dropped     \* history: the worker released a task it did not run

vars == <<inPlace, world, phase, counter, lastCause, req, running, canAdd, queue, finalized,
          adding, wpc, held, signalled, mpc, startup, zygote, forks, left, live, dropped>>
collectVars == <<world, phase, counter, lastCause>>
queueVars == <<running, canAdd, queue, finalized, adding, wpc, held, signalled, live, dropped>>
mainVars == <<inPlace, mpc, startup, zygote, forks>>

Idle == [pc |-> "idle", cause |-> "INVALID", old |-> 0, scopes |-> 0, since |-> {}, inner |-> FALSE]

Init ==
  /\ inPlace \in BOOLEAN
  /\ world = Nobody /\ phase = "IDLE" /\ counter = 0 /\ lastCause = "INVALID"
  /\ req = [p \in Procs |-> Idle]
  /\ running = TRUE /\ canAdd = TRUE
  /\ queue = <<>> /\ finalized = FALSE
  /\ adding = [p \in Procs |-> "INVALID"]
  /\ wpc = (IF inPlace THEN "none" ELSE "get")
  /\ held = "INVALID" /\ signalled = FALSE
  /\ mpc = "up" /\ startup = "normal" /\ zygote \in BOOLEAN /\ forks = 0
  /\ left = [m \in Mutators |-> MaxRequests]
  /\ live = 0 /\ dropped = FALSE

-------------------------------------------------------------------------------
(* WaitForGC and RunPhases, by any thread *)

(* WaitForGC: the counter is read before the safepoint is asked for *)
WaitForGC(p, cause) ==
  req' = [req EXCEPT ![p] = [Idle EXCEPT !.pc = "begin", !.cause = cause, !.old = counter]]

(* The cause is noted, the counter goes up, and every request that is under *)
(* way has seen a collection begin.                                         *)
StartCollection(p) ==
  /\ world' = p /\ phase' = "BUSY"
  /\ lastCause' = req[p].cause
  /\ counter' = counter + 1
  /\ req' = [q \in Procs |->
               IF req[q].pc = "idle" THEN req[q]
               ELSE [req[q] EXCEPT !.since = @ \cup {req[p].cause}, !.pc = IF q = p THEN "pause" ELSE @]]

(* Mutant: any collection will do, as in RunPhases *)
CoveredByAnyCause(p) == counter > req[p].old

Covered(p) == counter > req[p].old /\ CauseNo[lastCause] >= CauseNo[req[p].cause]

(* Mutant: the phase is set without waiting for it to be IDLE *)
AtSafepointNoWait(p) ==
  /\ req[p].pc = "begin" /\ world = Nobody
  /\ \/ Covered(p) /\ req' = [req EXCEPT ![p].pc = "done"] /\ UNCHANGED collectVars
     \/ ~Covered(p) /\ StartCollection(p)
  /\ UNCHANGED <<queueVars, mainVars, left>>

(* SafepointBegin, the test for a collection meanwhile, then RunPhases up   *)
(* to the first attempt of WaitForIdleGC                                    *)
AtSafepoint(p) ==
  /\ req[p].pc = "begin" /\ world = Nobody
  /\ \/ Covered(p) /\ req' = [req EXCEPT ![p].pc = "done"] /\ UNCHANGED collectVars
     \/ ~Covered(p) /\ phase = "IDLE" /\ StartCollection(p)
     \/ /\ ~Covered(p) /\ phase # "IDLE"
        /\ req' = [req EXCEPT ![p].pc = "sleep", ![p].old = counter]
        /\ UNCHANGED collectVars
  /\ UNCHANGED <<queueVars, mainVars, left>>

(* WaitForIdleGC has slept outside the safepoint and finds the phase IDLE:  *)
(* RunPhases gives up if the counter went up, whatever the cause            *)
AfterSleep(p) ==
  /\ req[p].pc = "sleep" /\ world = Nobody /\ phase = "IDLE"
  /\ \/ /\ counter > req[p].old
        /\ req' = [req EXCEPT ![p].pc = "done", ![p].inner = TRUE]
        /\ UNCHANGED collectVars
     \/ counter <= req[p].old /\ StartCollection(p)
  /\ UNCHANGED <<queueVars, mainVars, left>>

(* ConcurrentScope: the world runs while the collector marks or sweeps *)
StartConcurrent(p) ==
  /\ req[p].pc = "pause" /\ RunsTenured(req[p].cause) /\ req[p].scopes < MaxScopes
  /\ req' = [req EXCEPT ![p].pc = "concurrent", ![p].scopes = @ + 1]
  /\ world' = Nobody
  /\ UNCHANGED <<phase, counter, lastCause, queueVars, mainVars, left>>

EndConcurrent(p) ==
  /\ req[p].pc = "concurrent" /\ world = Nobody
  /\ req' = [req EXCEPT ![p].pc = "pause"]
  /\ world' = p
  /\ UNCHANGED <<phase, counter, lastCause, queueVars, mainVars, left>>

(* The end of RunPhases, and SafepointEnd. Without concurrency there are no *)
(* scopes, with it a tenured collection goes through all of them.           *)
FinishCollection(p) ==
  /\ req[p].pc = "pause" /\ req[p].scopes \in {0, MaxScopes}
  /\ phase' = "IDLE" /\ world' = Nobody
  /\ req' = [req EXCEPT ![p].pc = "done"]
  /\ UNCHANGED <<counter, lastCause, queueVars, mainVars, left>>

Collect(p) ==
  AtSafepoint(p) \/ AfterSleep(p) \/ StartConcurrent(p) \/ EndConcurrent(p) \/ FinishCollection(p)

-------------------------------------------------------------------------------
(* The queue of tasks *)

(* The worker holds lock_ between its look at gc_running_ and its wait *)
QueueUnlocked == wpc # "checked"

Signal == signalled' = (signalled \/ wpc \in {"waiting", "timed"})

(* A task whose target time is now goes before those of a later time *)
Insert(task) ==
  LET n == Cardinality({i \in 1..Len(queue) : task.late \/ ~queue[i].late})
  IN  SubSeq(queue, 1, n) \o <<task>> \o SubSeq(queue, n + 1, Len(queue))

NewTask(cause) == [cause |-> cause, late |-> cause = "STARTUP_COMPLETE"]

(* GCQueueWithTime::AddTask *)
AddTask(p) ==
  /\ adding[p] # "INVALID" /\ QueueUnlocked
  /\ adding' = [adding EXCEPT ![p] = "INVALID"]
  /\ IF finalized \/ (queue # <<>> /\ Head(queue).cause = adding[p])
       THEN live' = live - 1 /\ UNCHANGED <<queue, signalled>>
       ELSE queue' = Insert(NewTask(adding[p])) /\ Signal /\ UNCHANGED live
  /\ UNCHANGED <<running, canAdd, finalized, wpc, held, dropped, req, collectVars, mainVars, left>>

(* GCQueueWithTime::GetTask, up to its result or its wait *)
GetTask ==
  /\ wpc = "get"
  /\ IF queue = <<>>
       THEN /\ wpc' = (IF running THEN "checked" ELSE "got")
            /\ held' = "INVALID"
            /\ UNCHANGED queue
       ELSE IF running /\ Head(queue).late
         THEN wpc' = "timed" /\ UNCHANGED <<held, queue>>
         ELSE wpc' = "got" /\ held' = Head(queue).cause /\ queue' = Tail(queue)
  /\ signalled' = FALSE
  /\ UNCHANGED <<running, canAdd, finalized, adding, live, dropped, req, collectVars, mainVars, left>>

WaitTask ==
  /\ wpc = "checked"
  /\ wpc' = "waiting"
  /\ UNCHANGED <<running, canAdd, queue, finalized, adding, held, signalled, live, dropped,
                 req, collectVars, mainVars, left>>

(* Mutant: Wait in the place of TimedWait *)
WaitEndsUntimed ==
  /\ wpc \in {"waiting", "timed"} /\ signalled
  /\ wpc' = "get"
  /\ UNCHANGED <<running, canAdd, queue, finalized, adding, held, signalled, live, dropped,
                 req, collectVars, mainVars, left>>

(* Wait ends by a signal, TimedWait also when the first task is due *)
WaitEnds ==
  /\ \/ wpc = "waiting" /\ signalled
     \/ wpc = "timed" /\ (signalled \/ ~Head(queue).late)
  /\ wpc' = "get"
  /\ UNCHANGED <<running, canAdd, queue, finalized, adding, held, signalled, live, dropped,
                 req, collectVars, mainVars, left>>

(* The target time of the tasks added with a delay passes *)
TimePasses ==
  /\ \E n \in 1..Len(queue) : queue[n].late
  /\ queue' = [n \in 1..Len(queue) |-> [queue[n] EXCEPT !.late = FALSE]]
  /\ UNCHANGED <<running, canAdd, finalized, adding, wpc, held, signalled, live, dropped,
                 req, collectVars, mainVars, left>>

(* GCWorkerEntry, with the task or without *)
WorkerExits ==
  /\ wpc = "got" /\ ~running
  /\ wpc' = "exited"
  /\ IF held = "INVALID" THEN UNCHANGED <<held, live, dropped>>
     ELSE held' = "INVALID" /\ live' = live - 1 /\ dropped' = TRUE
  /\ UNCHANGED <<running, canAdd, queue, finalized, adding, signalled,
                 req, collectVars, mainVars, left>>

WorkerRuns ==
  /\ wpc = "got" /\ running
  /\ IF held = "INVALID"
       THEN wpc' = "get" /\ UNCHANGED <<req, startup>>
       ELSE /\ wpc' = "run"
            /\ WaitForGC(GCThread, held)
            /\ startup' = (IF held = "STARTUP_COMPLETE" THEN "restored" ELSE startup)
  /\ UNCHANGED <<running, canAdd, queue, finalized, adding, held, signalled, live, dropped,
                 collectVars, inPlace, mpc, zygote, forks, left>>

(* Mutant: SetCanAddGCTask(true) is left out *)
WorkerDoneKeepsFlag ==
  /\ wpc = "run" /\ req[GCThread].pc = "done"
  /\ req' = [req EXCEPT ![GCThread] = Idle]
  /\ held' = "INVALID" /\ live' = live - 1
  /\ wpc' = "get"
  /\ UNCHANGED <<canAdd, running, queue, finalized, adding, signalled, dropped, collectVars, mainVars, left>>

(* The end of GCTask::Run, and the release of the task *)
WorkerDone ==
  /\ wpc = "run" /\ req[GCThread].pc = "done"
  /\ req' = [req EXCEPT ![GCThread] = Idle]
  /\ canAdd' = TRUE
  /\ held' = "INVALID" /\ live' = live - 1
  /\ wpc' = "get"
  /\ UNCHANGED <<running, queue, finalized, adding, signalled, dropped, collectVars, mainVars, left>>

Worker == GetTask \/ WaitTask \/ WaitEnds \/ WorkerExits \/ WorkerRuns \/ WorkerDone

-------------------------------------------------------------------------------
(* The mutators *)

Forking == mpc \in {"forkSignal", "forkJoin", "pygote", "post"}

Free(m) == req[m].pc = "idle" /\ adding[m] = "INVALID"

(* HeapManager: an allocation failed; the thread collects and tries again *)
AllocationFails(m, cause) ==
  /\ Free(m) /\ left[m] > 0 /\ world = Nobody /\ ~Forking
  /\ WaitForGC(m, cause)
  /\ left' = [left EXCEPT ![m] = @ - 1]
  /\ UNCHANGED <<collectVars, queueVars, mainVars>>

(* GC::Trigger and TriggerGCForNative: AddGCTask for a threshold. A mutator *)
(* runs, so the world is not stopped; none runs while the zygote forks.     *)
AddGCTask(m, cause) ==
  /\ Free(m) /\ left[m] > 0 /\ world = Nobody /\ ~Forking
  /\ left' = [left EXCEPT ![m] = @ - 1]
  /\ \/ /\ inPlace /\ running
        /\ WaitForGC(m, cause)
        /\ UNCHANGED <<canAdd, adding, live>>
     \/ /\ ~inPlace /\ canAdd
        /\ canAdd' = FALSE
        /\ adding' = [adding EXCEPT ![m] = cause]
        /\ live' = live + 1
        /\ UNCHANGED req
  /\ UNCHANGED <<running, queue, finalized, wpc, held, signalled, dropped, collectVars, mainVars>>

(* WaitForGCInManaged takes the mutator lock again *)
RequestReturns(m) ==
  /\ req[m].pc = "done" /\ world = Nobody
  /\ req' = [req EXCEPT ![m] = Idle]
  /\ UNCHANGED <<collectVars, queueVars, mainVars, left>>

-------------------------------------------------------------------------------
(* Main: the life of the worker *)

(* GC::PreZygoteFork, with the other threads at rest, and GC::StopGC begin  *)
(* with JoinWorker                                                          *)
JoinWorker ==
  /\ mpc = "up" /\ adding[Main] = "INVALID"
  /\ \/ /\ zygote /\ forks < MaxForks /\ forks' = forks + 1
        /\ \A m \in Mutators : Free(m)
        /\ mpc' = (IF inPlace THEN "pygote" ELSE "forkSignal")
     \/ mpc' = (IF inPlace THEN "finalize" ELSE "stopSignal") /\ UNCHANGED forks
  /\ running' = FALSE
  /\ UNCHANGED <<canAdd, queue, finalized, adding, wpc, held, signalled, live, dropped,
                 req, collectVars, inPlace, startup, zygote, left>>

(* Mutant: the queue is signalled without its lock *)
SignalWorkerUnlocked ==
  /\ mpc \in {"forkSignal", "stopSignal"}
  /\ Signal
  /\ mpc' = (IF mpc = "forkSignal" THEN "forkJoin" ELSE "stopJoin")
  /\ UNCHANGED <<running, canAdd, queue, finalized, adding, wpc, held, live, dropped,
                 req, collectVars, inPlace, startup, zygote, forks, left>>

SignalWorker ==
  /\ mpc \in {"forkSignal", "stopSignal"} /\ QueueUnlocked
  /\ Signal
  /\ mpc' = (IF mpc = "forkSignal" THEN "forkJoin" ELSE "stopJoin")
  /\ UNCHANGED <<running, canAdd, queue, finalized, adding, wpc, held, live, dropped,
                 req, collectVars, inPlace, startup, zygote, forks, left>>

Join ==
  /\ mpc \in {"forkJoin", "stopJoin"} /\ wpc = "exited"
  /\ wpc' = "none"
  /\ mpc' = (IF mpc = "forkJoin" THEN "pygote" ELSE "finalize")
  /\ UNCHANGED <<running, canAdd, queue, finalized, adding, held, signalled, live, dropped,
                 req, collectVars, inPlace, startup, zygote, forks, left>>

(* HeapManager::PreZygoteFork collects if there is a pygote space in its    *)
(* initial state, as before the first fork; PostZygoteFork makes a new      *)
(* worker, in the zygote and in the app it forked.                          *)
CollectBeforeFork ==
  /\ mpc = "pygote"
  /\ \/ forks = 1 /\ WaitForGC(Main, "PYGOTE_FORK")
     \/ req' = [req EXCEPT ![Main].pc = "done"]
  /\ mpc' = "post"
  /\ UNCHANGED <<collectVars, queueVars, inPlace, startup, zygote, forks, left>>

CreateWorker ==
  /\ mpc = "post" /\ req[Main].pc = "done"
  /\ req' = [req EXCEPT ![Main] = Idle]
  /\ running' = TRUE
  /\ wpc' = (IF inPlace THEN "none" ELSE "get")
  /\ mpc' = "up"
  /\ zygote' \in BOOLEAN
  /\ UNCHANGED <<canAdd, queue, finalized, adding, held, signalled, live, dropped,
                 collectVars, inPlace, startup, forks, left>>

(* GC::PreStartup, in an app: the footprint goes up until a delayed task *)
PreStartup ==
  /\ mpc = "up" /\ ~zygote /\ ~inPlace /\ startup = "normal" /\ adding[Main] = "INVALID"
  /\ startup' = "raised"
  /\ adding' = [adding EXCEPT ![Main] = "STARTUP_COMPLETE"]
  /\ live' = live + 1
  /\ UNCHANGED <<running, canAdd, queue, finalized, wpc, held, signalled, dropped,
                 req, collectVars, inPlace, mpc, zygote, forks, left>>

(* The rest of StopGC: GCQueueWithTime::Finalize *)
Finalize ==
  /\ mpc = "finalize" /\ QueueUnlocked
  /\ finalized' = TRUE
  /\ live' = live - Len(queue)
  /\ queue' = <<>>
  /\ mpc' = "down"
  /\ UNCHANGED <<running, canAdd, adding, wpc, held, signalled, dropped,
                 req, collectVars, inPlace, startup, zygote, forks, left>>

MainSteps == SignalWorker \/ Join \/ CollectBeforeFork \/ CreateWorker \/ Finalize

Next ==
  \/ \E p \in Procs : Collect(p) \/ AddTask(p)
  \/ Worker \/ TimePasses
  \/ \E m \in Mutators : RequestReturns(m)
  \/ \E m \in Mutators : \E cause \in {"YOUNG", "OOM"} : AllocationFails(m, cause)
  \/ \E m \in Mutators : \E cause \in {"NATIVE_ALLOC", "HEAP_USAGE_THRESHOLD"} : AddGCTask(m, cause)
  \/ MainSteps \/ JoinWorker \/ PreStartup

Spec == Init /\ [][Next]_vars

(* A thread inside a call goes on, the worker and time run. Mutators need   *)
(* not ask for anything, and Main need neither fork nor stop.               *)
FairSpec ==
  /\ Spec
  /\ \A p \in Procs : WF_vars(Collect(p)) /\ WF_vars(AddTask(p))
  /\ \A m \in Mutators : WF_vars(RequestReturns(m))
  /\ WF_vars(Worker) /\ WF_vars(TimePasses) /\ WF_vars(MainSteps)

-------------------------------------------------------------------------------
(* Properties *)

TypeOK ==
  /\ inPlace \in BOOLEAN /\ zygote \in BOOLEAN /\ forks \in 0..MaxForks
  /\ world \in Procs \cup {Nobody} /\ phase \in {"IDLE", "BUSY"}
  /\ counter \in Nat /\ lastCause \in Causes
  /\ req \in [Procs -> [pc : {"idle", "begin", "sleep", "pause", "concurrent", "done"},
                       cause : Causes, old : Nat, scopes : 0..MaxScopes,
                       since : SUBSET Causes, inner : BOOLEAN]]
  /\ running \in BOOLEAN /\ canAdd \in BOOLEAN /\ finalized \in BOOLEAN
  /\ queue \in Seq([cause : Causes, late : BOOLEAN])
  /\ adding \in [Procs -> Causes]
  /\ wpc \in {"none", "get", "checked", "waiting", "timed", "got", "run", "exited"}
  /\ held \in Causes /\ signalled \in BOOLEAN
  /\ mpc \in {"up", "forkSignal", "forkJoin", "pygote", "post", "stopSignal", "stopJoin", "finalize", "down"}
  /\ startup \in {"normal", "raised", "restored"}
  /\ left \in [Mutators -> 0..MaxRequests]
  /\ live \in Nat /\ dropped \in BOOLEAN

(* There is one collection at a time although it leaves the safepoint for   *)
(* its concurrent scopes, where others enter it: the phase is IDLE exactly  *)
(* when nobody collects, and whoever is in a pause owns the world.          *)
OneCollector ==
  LET collectors == {p \in Procs : req[p].pc \in {"pause", "concurrent"}} IN
  /\ \A p, q \in collectors : p = q
  /\ phase = "IDLE" <=> collectors = {}
  /\ \A p \in collectors : req[p].pc = "pause" => world = p

(* WaitForGC returns only once a collection that began after the call has   *)
(* begun (it may still be at work in a concurrent scope when another thread *)
(* has come in and given up): a request is never answered by one that was   *)
(* already under way. Except where RunPhases gives up without looking at    *)
(* the cause, that collection was of a cause at least as strong.            *)
RequestCovered ==
  \A p \in Procs \ {Main} : req[p].pc = "done" =>
    \E c \in req[p].since : req[p].inner \/ CauseNo[c] >= CauseNo[req[p].cause]

(* Every task handed to the queue is released exactly once: the ones not    *)
(* yet released are in the queue, in the worker's hands or being added, so  *)
(* that none is left when StopGC is done.                                   *)
TasksReleasedOnce ==
  /\ live = Len(queue) + (IF held # "INVALID" THEN 1 ELSE 0)
              + Cardinality({p \in Procs : adding[p] # "INVALID"})
  /\ mpc = "down" => queue = <<>> /\ held = "INVALID"

(* Threshold triggers are off only while a task that turns them on again is *)
(* on its way, or after a worker that was told to end threw a task away, or *)
(* at the end: nothing else closes can_add_gc_task_ for good.               *)
TriggersOffForATask ==
  canAdd \/ queue # <<>> \/ held # "INVALID" \/ finalized \/ dropped
  \/ \E p \in Procs : adding[p] # "INVALID"

(* Every request returns, StopGC and a fork get past the worker they join,  *)
(* and threshold triggers come back (with the exceptions above).            *)
ServiceProgress ==
  /\ \A m \in Mutators : req[m].pc # "idle" ~> req[m].pc = "idle"
  /\ mpc = "stopSignal" ~> mpc = "down"
  /\ mpc = "forkSignal" ~> mpc = "up"
  /\ ~canAdd ~> (canAdd \/ dropped \/ mpc = "down")

(* The delayed task of PreStartup is neither lost nor starved: the raised   *)
(* footprint is restored unless the runtime stops first.                    *)
StartupEnds == startup = "raised" ~> (startup = "restored" \/ mpc # "up")
===============================================================================
