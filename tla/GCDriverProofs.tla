---------------------------- MODULE GCDriverProofs ----------------------------
(***************************************************************************)
(* Proofs about GCDriver, for any number of mutators, requests, forks and  *)
(* concurrent scopes.                                                      *)
(*                                                                         *)
(* Inv is the inductive invariant. That a request is answered by a         *)
(* collection that began after it rests on what the counter says about the *)
(* collections a request has seen (SinceInv); that the worker and Main do  *)
(* not ask for a collection while one of theirs is under way, and that a   *)
(* task is released once, rests on where the worker is when it has a task  *)
(* and when Main has joined it (PlaceInv).                                 *)
(***************************************************************************)
EXTENDS GCDriver, FiniteSetTheorems, SequenceTheorems, TLAPS

Collecting(p) == req[p].pc \in {"pause", "concurrent"}

(* The counter has gone up since a request read it only if the request has  *)
(* seen the last collection begin, and a collector has seen its own.        *)
SinceInv ==
  \A p \in Procs :
    /\ req[p].pc \in {"begin", "sleep"} /\ counter > req[p].old => lastCause \in req[p].since
    /\ Collecting(p) => req[p].cause \in req[p].since

Tasks == [cause : Causes \ {"INVALID"}, late : BOOLEAN]

(* The worker collects only with a task in hand, Main only before a fork,   *)
(* with the worker joined; the queue holds tasks, and none at the end.      *)
PlaceInv ==
  /\ wpc # "run" => req[GCThread].pc = "idle"
  /\ mpc # "post" => req[Main].pc = "idle"
  /\ wpc \notin {"got", "run"} => held = "INVALID"
  /\ wpc = "run" => held # "INVALID"
  /\ inPlace \/ mpc \in {"pygote", "post", "finalize", "down"} => wpc = "none"
  /\ mpc = "down" => finalized /\ queue = <<>>
  /\ queue \in Seq(Tasks)

Inv ==
  /\ TypeOK /\ PlaceInv
  /\ OneCollector /\ SinceInv /\ RequestCovered
  /\ TasksReleasedOnce /\ TriggersOffForATask
USE DEF Procs, Idle

-------------------------------------------------------------------------------
(* The queue and the causes *)

(* The causes are numbered, so that they can be compared. *)
LEMMA CauseNumbers == \A c \in Causes : CauseNo[c] \in Nat
  BY DEF Causes, CauseNo

(* The causes the code passes are causes, and none of them is INVALID. *)
LEMMA CausesKnown ==
  {"INVALID", "YOUNG", "PYGOTE_FORK", "STARTUP_COMPLETE", "NATIVE_ALLOC",
   "HEAP_USAGE_THRESHOLD", "EXPLICIT", "OOM"} = Causes
  BY DEF Causes, CauseNo

(* AddTask puts the new task somewhere among the others and loses none. *)
LEMMA InsertProperties ==
  ASSUME queue \in Seq(Tasks), NEW task \in Tasks
  PROVE  Insert(task) \in Seq(Tasks) /\ Len(Insert(task)) = Len(queue) + 1
  <1> DEFINE S == {i \in 1..Len(queue) : task.late \/ ~queue[i].late}
             n == Cardinality(S)
             front == SubSeq(queue, 1, n)
             back  == SubSeq(queue, n + 1, Len(queue))
  <1>1. Len(queue) \in Nat /\ \A i \in 1..Len(queue) : queue[i] \in Tasks
    OBVIOUS
  <1>2. n \in Nat /\ n <= Len(queue)
    <2>1. IsFiniteSet(1..Len(queue)) /\ Cardinality(1..Len(queue)) = Len(queue)
      BY <1>1, FS_Interval, SMTT(30)
    <2>2. S \subseteq 1..Len(queue)
      OBVIOUS
    <2> HIDE DEF S
    <2>3. IsFiniteSet(S) /\ Cardinality(S) <= Cardinality(1..Len(queue))
      BY <2>1, <2>2, FS_Subset
    <2> QED BY <2>1, <2>3, FS_CardinalityType
  <1>3. Insert(task) = front \o <<task>> \o back
    BY DEF Insert
  <1> HIDE DEF n
  <1>4. front \in Seq(Tasks) /\ Len(front) = n
    BY <1>1, <1>2, SubSeqProperties
  <1>5. back \in Seq(Tasks) /\ Len(back) = Len(queue) - n
    BY <1>1, <1>2, SubSeqProperties
  <1> HIDE DEF front, back
  <1>6. front \o <<task>> \in Seq(Tasks) /\ Len(front \o <<task>>) = n + 1
    BY <1>4, ConcatProperties
  <1> QED BY <1>1, <1>2, <1>3, <1>5, <1>6, ConcatProperties

-------------------------------------------------------------------------------
(* The steps, by what they do to the requests *)

(* Outside of Collect, a request begins with WaitForGC, called by a thread  *)
(* that is not in one, and ends when its thread picks it up.                *)
LEMMA RequestSteps ==
  ASSUME TypeOK, PlaceInv, DriverAssumption, Next
  PROVE  \/ \E p \in Procs : Collect(p)
         \/ /\ UNCHANGED collectVars
            /\ \/ UNCHANGED req
               \/ \E p \in Procs : \E c \in Causes : req[p].pc = "idle" /\ WaitForGC(p, c)
               \/ \E p \in Procs : req[p].pc = "done" /\ req' = [req EXCEPT ![p] = Idle]
               \/ req[Main].pc = "idle" /\ req' = [req EXCEPT ![Main].pc = "done"]
  <1> USE CausesKnown DEF TypeOK, PlaceInv
  <1>1. CASE \E p \in Procs : Collect(p)
    BY <1>1
  <1>2. CASE \E p \in Procs : AddTask(p)
    BY <1>2 DEF AddTask
  <1>3. CASE GetTask \/ WaitTask \/ WaitEnds \/ WorkerExits \/ TimePasses
    BY <1>3 DEF GetTask, WaitTask, WaitEnds, WorkerExits, TimePasses
  <1>4. CASE WorkerRuns
    BY <1>4 DEF WorkerRuns
  <1>5. CASE WorkerDone
    BY <1>5 DEF WorkerDone
  <1>6. CASE \E m \in Mutators : RequestReturns(m)
    BY <1>6 DEF RequestReturns
  <1>7. CASE \E m \in Mutators : \E c \in {"YOUNG", "OOM"} : AllocationFails(m, c)
    BY <1>7 DEF AllocationFails, Free
  <1>8. CASE \E m \in Mutators : \E c \in {"NATIVE_ALLOC", "HEAP_USAGE_THRESHOLD"} : AddGCTask(m, c)
    BY <1>8 DEF AddGCTask, Free
  <1>9. CASE JoinWorker \/ SignalWorker \/ Join \/ PreStartup \/ Finalize
    BY <1>9 DEF JoinWorker, SignalWorker, Join, PreStartup, Finalize
  <1>10. CASE CollectBeforeFork
    BY <1>10 DEF CollectBeforeFork
  <1>11. CASE CreateWorker
    BY <1>11 DEF CreateWorker
  <1> QED
    BY <1>1, <1>2, <1>3, <1>4, <1>5, <1>6, <1>7, <1>8, <1>9, <1>10, <1>11
       DEF Next, Worker, MainSteps

(* OneCollector, without the set of the collectors. *)
Exclusive ==
  /\ \A p, q \in Procs : Collecting(p) /\ Collecting(q) => p = q
  /\ phase = "IDLE" <=> (\A p \in Procs : ~Collecting(p))
  /\ \A p \in Procs : req[p].pc = "pause" => world = p

LEMMA ExclusiveMeans == OneCollector <=> Exclusive
  BY DEF OneCollector, Exclusive, Collecting

LEMMA ExclusiveNext == OneCollector' <=> Exclusive'
  BY ExclusiveMeans, PTL

(* A collection begins when nobody collects: its collector owns the world,  *)
(* and every request that is under way sees it begin.                       *)
LEMMA StartStep ==
  ASSUME TypeOK, Exclusive, SinceInv, RequestCovered, DriverAssumption, NEW p \in Procs,
         req[p].pc \in {"begin", "sleep"}, world = Nobody, phase = "IDLE", StartCollection(p)
  PROVE  Exclusive' /\ SinceInv' /\ RequestCovered'
  <1> USE CauseNumbers DEF TypeOK, Collecting
  <1>1. /\ DOMAIN req' = Procs
        /\ \A q \in Procs : /\ req'[q].pc = IF q = p THEN "pause" ELSE req[q].pc
                            /\ req'[q].cause = req[q].cause /\ req'[q].old = req[q].old
                            /\ req'[q].inner = req[q].inner
                            /\ req[q].since \subseteq req'[q].since
                            /\ req[q].pc # "idle" => req[p].cause \in req'[q].since
    BY ZenonT(40) DEF StartCollection
  <1>2. Exclusive'
    <2>1. \A q \in Procs : Collecting(q)' <=> q = p
      BY <1>1 DEF Exclusive
    <2>2. world' = p /\ phase' = "BUSY"
      BY DEF StartCollection
    <2>3. \A q \in Procs : req'[q].pc = "pause" => q = p
      BY <2>1
    <2> QED BY <2>1, <2>2, <2>3 DEF Exclusive
  <1>3. SinceInv'
    BY <1>1, ZenonT(40) DEF StartCollection, SinceInv
  <1>4. RequestCovered'
    BY <1>1 DEF RequestCovered
  <1> QED BY <1>2, <1>3, <1>4

(* One collector at a time, and no request answered too early. *)
LEMMA CollectStep ==
  ASSUME TypeOK, Exclusive, SinceInv, RequestCovered, DriverAssumption, NEW p \in Procs,
         Collect(p)
  PROVE  Exclusive' /\ SinceInv' /\ RequestCovered'
  <1> USE CauseNumbers DEF TypeOK, Collecting
  <1>1. ASSUME UNCHANGED <<counter, lastCause>>,
               \A q \in Procs \ {p} : req'[q] = req[q],
               req'[p].cause = req[p].cause, req'[p].since = req[p].since,
               req'[p].pc = "sleep" => req'[p].old = counter,
               req'[p].pc # "begin",
               Collecting(p)' => Collecting(p),
               req'[p].pc = "done" => \E c \in req[p].since :
                                        req'[p].inner \/ CauseNo[c] >= CauseNo[req[p].cause]
        PROVE  SinceInv' /\ RequestCovered'
    <2>1. SinceInv'
      <3>1. SUFFICES ASSUME NEW q \in Procs
                     PROVE  /\ req'[q].pc \in {"begin", "sleep"} /\ counter' > req'[q].old
                                 => lastCause' \in req'[q].since
                            /\ Collecting(q)' => req'[q].cause \in req'[q].since
        BY DEF SinceInv
      <3>2. CASE q # p
        BY <1>1, <3>2 DEF SinceInv
      <3>3. CASE q = p
        BY <1>1, <3>3 DEF SinceInv
      <3> QED BY <3>2, <3>3
    <2>2. ASSUME NEW q \in Procs \ {Main}, req'[q].pc = "done"
          PROVE  \E c \in req'[q].since : req'[q].inner \/ CauseNo[c] >= CauseNo[req'[q].cause]
      <3>1. CASE q = p
        BY <1>1, <2>2, <3>1
      <3>2. CASE q # p
        BY <1>1, <2>2, <3>2 DEF RequestCovered
      <3> QED BY <3>1, <3>2
    <2> QED BY <2>1, <2>2 DEF RequestCovered
  <1>2. ASSUME UNCHANGED <<world, phase>>, \A q \in Procs \ {p} : req'[q] = req[q],
               ~Collecting(p), ~Collecting(p)'
        PROVE  Exclusive'
    BY <1>2 DEF Exclusive
  <1>3. CASE AtSafepoint(p)
    <2>1. CASE Covered(p) /\ req' = [req EXCEPT ![p].pc = "done"] /\ UNCHANGED collectVars
      <3>1. lastCause \in req[p].since /\ CauseNo[lastCause] >= CauseNo[req[p].cause]
        BY <1>3, <2>1 DEF AtSafepoint, Covered, SinceInv
      <3> QED BY <1>1, <1>2, <1>3, <2>1, <3>1 DEF AtSafepoint, collectVars
    <2>2. CASE phase = "IDLE" /\ StartCollection(p)
      BY <1>3, <2>2, StartStep DEF AtSafepoint
    <2>3. CASE req' = [req EXCEPT ![p].pc = "sleep", ![p].old = counter] /\ UNCHANGED collectVars
      BY <1>1, <1>2, <1>3, <2>3 DEF AtSafepoint, collectVars
    <2> QED BY <1>3, <2>1, <2>2, <2>3 DEF AtSafepoint
  <1>4. CASE AfterSleep(p)
    <2>1. CASE /\ counter > req[p].old
               /\ req' = [req EXCEPT ![p].pc = "done", ![p].inner = TRUE]
               /\ UNCHANGED collectVars
      <3>1. lastCause \in req[p].since
        BY <1>4, <2>1 DEF AfterSleep, SinceInv
      <3> QED BY <1>1, <1>2, <1>4, <2>1, <3>1 DEF AfterSleep, collectVars
    <2>2. CASE StartCollection(p)
      BY <1>4, <2>2, StartStep DEF AfterSleep
    <2> QED BY <1>4, <2>1, <2>2 DEF AfterSleep
  <1>5. CASE StartConcurrent(p)
    BY <1>1, <1>5 DEF StartConcurrent, Exclusive
  <1>6. CASE EndConcurrent(p)
    BY <1>1, <1>6 DEF EndConcurrent, Exclusive
  <1>7. CASE FinishCollection(p)
    <2>1. req[p].cause \in req[p].since /\ CauseNo[req[p].cause] >= CauseNo[req[p].cause]
      <3>1. Collecting(p)
        BY <1>7 DEF FinishCollection
      <3>2. CauseNo[req[p].cause] \in Nat
        OBVIOUS
      <3> QED BY <3>1, <3>2 DEF SinceInv
    <2>2. SinceInv' /\ RequestCovered'
      BY <1>1, <1>7, <2>1 DEF FinishCollection
    <2>3. \A q \in Procs : ~Collecting(q)'
      BY <1>7 DEF FinishCollection, Exclusive
    <2> QED BY <1>7, <2>2, <2>3 DEF FinishCollection, Exclusive
  <1> QED BY <1>3, <1>4, <1>5, <1>6, <1>7 DEF Collect

LEMMA RequestsStep ==
  ASSUME TypeOK, PlaceInv, Exclusive, SinceInv, RequestCovered, DriverAssumption, Next
  PROVE  Exclusive' /\ SinceInv' /\ RequestCovered'
  <1> USE DEF TypeOK, Collecting
  <1>1. CASE \E p \in Procs : Collect(p)
    BY <1>1, CollectStep
  <1>2. ASSUME UNCHANGED collectVars, UNCHANGED req
        PROVE  Exclusive' /\ SinceInv' /\ RequestCovered'
    BY <1>2 DEF collectVars, Exclusive, SinceInv, RequestCovered
  <1>3. ASSUME UNCHANGED collectVars, NEW p \in Procs, req'[p].pc \in {"idle", "begin", "done"},
               req[p].pc \in {"idle", "done"}, \A q \in Procs \ {p} : req'[q] = req[q],
               req'[p].pc = "begin" => req'[p].old = counter,
               req'[p].pc = "done" => p = Main
        PROVE  Exclusive' /\ SinceInv' /\ RequestCovered'
    <2>1. /\ ~Collecting(p) /\ ~Collecting(p)'
          /\ \A q \in Procs \ {p} : Collecting(q)' <=> Collecting(q)
      BY <1>3
    <2>2. Exclusive'
      BY <1>3, <2>1 DEF collectVars, Exclusive
    <2>3. SinceInv'
      <3>1. SUFFICES ASSUME NEW q \in Procs
                     PROVE  /\ req'[q].pc \in {"begin", "sleep"} /\ counter' > req'[q].old
                                 => lastCause' \in req'[q].since
                            /\ Collecting(q)' => req'[q].cause \in req'[q].since
        BY DEF SinceInv
      <3>2. CASE q # p
        BY <1>3, <3>2 DEF collectVars, SinceInv
      <3>3. CASE q = p
        BY <1>3, <2>1, <3>3 DEF collectVars, SinceInv
      <3> QED BY <3>2, <3>3
    <2>4. ASSUME NEW q \in Procs \ {Main}, req'[q].pc = "done"
          PROVE  \E c \in req'[q].since : req'[q].inner \/ CauseNo[c] >= CauseNo[req'[q].cause]
      BY <1>3, <2>4 DEF RequestCovered
    <2> QED BY <2>2, <2>3, <2>4 DEF RequestCovered
  <1>4. ASSUME UNCHANGED collectVars, NEW p \in Procs, NEW c \in Causes, req[p].pc = "idle",
               WaitForGC(p, c)
        PROVE  Exclusive' /\ SinceInv' /\ RequestCovered'
    BY <1>3, <1>4 DEF WaitForGC
  <1>5. ASSUME UNCHANGED collectVars, NEW p \in Procs, req[p].pc = "done",
               req' = [req EXCEPT ![p] = Idle]
        PROVE  Exclusive' /\ SinceInv' /\ RequestCovered'
    BY <1>3, <1>5
  <1>6. ASSUME UNCHANGED collectVars, req[Main].pc = "idle",
               req' = [req EXCEPT ![Main].pc = "done"]
        PROVE  Exclusive' /\ SinceInv' /\ RequestCovered'
    BY <1>3, <1>6
  <1> QED BY <1>1, <1>2, <1>4, <1>5, <1>6, RequestSteps
-------------------------------------------------------------------------------
(* The steps, by what they do to the tasks *)

Adders == {p \in Procs : adding[p] # "INVALID"}

InHand == IF held # "INVALID" THEN 1 ELSE 0

Ledger == live = Len(queue) + InHand + Cardinality(Adders)

ledgerVars == <<queue, held, adding, live, canAdd, finalized, dropped>>

(* The steps that touch neither the tasks nor the flag of the triggers. *)
Neutral ==
  \/ \E p \in Procs : Collect(p)
  \/ WaitTask \/ WaitEnds \/ WorkerRuns
  \/ \E m \in Mutators : RequestReturns(m)
  \/ \E m \in Mutators : \E c \in {"YOUNG", "OOM"} : AllocationFails(m, c)
  \/ JoinWorker \/ SignalWorker \/ Join \/ CollectBeforeFork \/ CreateWorker

LEMMA NeutralStep == Neutral => UNCHANGED ledgerVars
  BY DEF Neutral, ledgerVars, Collect, AtSafepoint, AfterSleep, StartConcurrent, EndConcurrent,
         FinishCollection, WaitTask, WaitEnds, WorkerRuns, RequestReturns, AllocationFails,
         JoinWorker, SignalWorker, Join, CollectBeforeFork, CreateWorker, queueVars

(* The threads are finitely many, and so are those that are adding a task. *)
LEMMA ProcsFinite ==
  ASSUME DriverAssumption
  PROVE  IsFiniteSet(Procs)
  <1>1. IsFiniteSet(Mutators \cup {Main})
    BY FS_AddElement DEF DriverAssumption
  <1>2. IsFiniteSet((Mutators \cup {Main}) \cup {GCThread})
    BY <1>1, FS_AddElement
  <1>3. Procs = (Mutators \cup {Main}) \cup {GCThread}
    OBVIOUS
  <1> QED BY <1>2, <1>3

LEMMA AddersFinite ==
  ASSUME DriverAssumption
  PROVE  IsFiniteSet(Adders) /\ Cardinality(Adders) \in Nat
  BY ProcsFinite, FS_Subset, FS_CardinalityType DEF Adders

(* A task that is being added is given up or put in the queue, a task that  *)
(* leaves the queue is in the worker's hand, and the end of either is a     *)
(* release.                                                                 *)
LEMMA LedgerStep ==
  ASSUME TypeOK, PlaceInv, Ledger, DriverAssumption, Next
  PROVE  Ledger'
  <1> USE CausesKnown DEF TypeOK, Ledger
  <1>0. Len(queue) \in Nat /\ InHand \in Nat
    BY DEF InHand
  <1>1. CASE Neutral
    BY <1>1, NeutralStep DEF ledgerVars, InHand, Adders
  <1>2. ASSUME NEW p \in Procs, AddTask(p) PROVE Ledger'
    <2>1. Adders' = Adders \ {p} /\ p \in Adders
      BY <1>2 DEF AddTask, Adders
    <2>2. Cardinality(Adders') = Cardinality(Adders) - 1
      BY <2>1, AddersFinite, FS_RemoveElement
    <2>3. InHand' = InHand
      BY <1>2 DEF AddTask, InHand
    <2>4. CASE live' = live - 1 /\ queue' = queue
      BY <1>0, <2>2, <2>3, <2>4, AddersFinite
    <2>5. CASE queue' = Insert(NewTask(adding[p])) /\ live' = live
      <3>1. NewTask(adding[p]) \in Tasks
        BY <1>2 DEF AddTask, NewTask, Tasks
      <3>2. Len(queue') = Len(queue) + 1
        BY <2>5, <3>1, InsertProperties DEF PlaceInv
      <3> QED BY <1>0, <2>2, <2>3, <2>5, <3>2, AddersFinite
    <2> QED BY <1>2, <2>4, <2>5 DEF AddTask
  <1>3. CASE GetTask
    <2>1. Adders' = Adders /\ live' = live
      BY <1>3 DEF GetTask, Adders
    <2>2. held = "INVALID" /\ InHand = 0
      BY <1>3 DEF GetTask, PlaceInv, InHand
    <2>3. CASE queue' = queue /\ held' \in {held, "INVALID"}
      BY <2>1, <2>2, <2>3 DEF InHand
    <2>4. CASE queue # <<>> /\ held' = Head(queue).cause /\ queue' = Tail(queue)
      <3>1. Len(queue') = Len(queue) - 1 /\ Head(queue) \in Tasks
        BY <2>4, HeadTailProperties DEF PlaceInv
      <3>2. InHand' = 1
        BY <2>4, <3>1 DEF InHand, Tasks
      <3> QED BY <1>0, <2>1, <2>2, <3>1, <3>2, AddersFinite
    <2> QED BY <1>3, <2>3, <2>4 DEF GetTask
  <1>4. CASE TimePasses
    <2>1. Len(queue') = Len(queue)
      BY <1>0, <1>4 DEF TimePasses
    <2> QED BY <1>4, <2>1 DEF TimePasses, InHand, Adders
  <1>5. CASE WorkerExits
    <2>1. Adders' = Adders /\ queue' = queue /\ live' = live - InHand /\ InHand' = 0
      BY <1>5 DEF WorkerExits, Adders, InHand
    <2> QED BY <1>0, <2>1, AddersFinite
  <1>6. CASE WorkerDone
    <2>1. Adders' = Adders /\ queue' = queue /\ live' = live - 1 /\ InHand' = 0
      BY <1>6 DEF WorkerDone, Adders, InHand
    <2>2. InHand = 1
      BY <1>6 DEF WorkerDone, PlaceInv, InHand
    <2> QED BY <1>0, <2>1, <2>2, AddersFinite
  <1>7. ASSUME NEW p \in Procs, NEW c \in Causes \ {"INVALID"}, adding[p] = "INVALID",
               adding' = [adding EXCEPT ![p] = c], live' = live + 1, UNCHANGED <<queue, held>>
        PROVE  Ledger'
    <2>1. Adders' = Adders \cup {p} /\ p \notin Adders
      <3>1. \A q \in Procs : adding'[q] = IF q = p THEN c ELSE adding[q]
        BY <1>7
      <3> QED BY <1>7, <3>1 DEF Adders
    <2>2. Cardinality(Adders') = Cardinality(Adders) + 1
      BY <2>1, AddersFinite, FS_AddElement
    <2>3. InHand' = InHand
      BY <1>7 DEF InHand
    <2> QED BY <1>0, <1>7, <2>2, <2>3, AddersFinite
  <1>8. ASSUME NEW m \in Mutators, NEW c \in {"NATIVE_ALLOC", "HEAP_USAGE_THRESHOLD"},
               AddGCTask(m, c)
        PROVE  Ledger'
    <2>1. CASE UNCHANGED <<adding, live>>
      BY <1>8, <2>1 DEF AddGCTask, InHand, Adders
    <2>2. CASE adding' = [adding EXCEPT ![m] = c] /\ live' = live + 1
      BY <1>7, <1>8, <2>2 DEF AddGCTask, Free
    <2> QED BY <1>8, <2>1, <2>2 DEF AddGCTask
  <1>9. CASE PreStartup
    BY <1>7, <1>9 DEF PreStartup
  <1>10. CASE Finalize
    <2>1. Adders' = Adders /\ Len(queue') = 0 /\ live' = live - Len(queue) /\ InHand' = InHand
      BY <1>10 DEF Finalize, Adders, InHand
    <2> QED BY <1>0, <2>1, AddersFinite
  <1> QED
    BY <1>1, <1>2, <1>3, <1>4, <1>5, <1>6, <1>8, <1>9, <1>10
       DEF Next, Worker, MainSteps, Neutral

(* can_add_gc_task_ goes down with a task, and the task goes from hand to   *)
(* hand until the worker has run it or has thrown it away.                  *)
LEMMA TriggersStep ==
  ASSUME TypeOK, PlaceInv, TriggersOffForATask, DriverAssumption, Next
  PROVE  TriggersOffForATask'
  <1> USE CausesKnown DEF TypeOK, TriggersOffForATask
  <1>1. CASE Neutral
    BY <1>1, NeutralStep DEF ledgerVars
  <1>2. ASSUME NEW p \in Procs, AddTask(p) PROVE TriggersOffForATask'
    <2>1. NewTask(adding[p]) \in Tasks
      BY <1>2 DEF AddTask, NewTask, Tasks
    <2>2. Insert(NewTask(adding[p])) # <<>>
      BY <2>1, InsertProperties DEF PlaceInv
    <2> QED BY <1>2, <2>2 DEF AddTask
  <1>3. CASE GetTask
    <2>1. queue # <<>> => Head(queue).cause # "INVALID"
      <3>1. queue # <<>> => Head(queue) \in Tasks
        BY HeadTailProperties DEF PlaceInv
      <3> QED BY <3>1 DEF Tasks
    <2> QED BY <1>3, <2>1 DEF GetTask, PlaceInv
  <1>4. CASE TimePasses
    <2>1. queue' # <<>>
      BY <1>4 DEF TimePasses
    <2> QED BY <2>1
  <1>5. CASE WorkerExits
    BY <1>5 DEF WorkerExits
  <1>6. CASE WorkerDone
    BY <1>6 DEF WorkerDone
  <1>7. ASSUME NEW m \in Mutators, NEW c \in {"NATIVE_ALLOC", "HEAP_USAGE_THRESHOLD"},
               AddGCTask(m, c)
        PROVE  TriggersOffForATask'
    BY <1>7 DEF AddGCTask
  <1>8. CASE PreStartup
    BY <1>8 DEF PreStartup
  <1>9. CASE Finalize
    BY <1>9 DEF Finalize
  <1> QED
    BY <1>1, <1>2, <1>3, <1>4, <1>5, <1>6, <1>7, <1>8, <1>9
       DEF Next, Worker, MainSteps, Neutral

-------------------------------------------------------------------------------
(* Where the worker and Main are, and the types *)

(* Collect works on a request that has begun and begins none. *)
LEMMA CollectKeepsIdle ==
  ASSUME TypeOK, NEW p \in Procs, Collect(p)
  PROVE  \A q \in Procs : req[q].pc = "idle" => req'[q].pc = "idle"
  BY DEF TypeOK, Collect, AtSafepoint, AfterSleep, StartCollection, StartConcurrent,
         EndConcurrent, FinishCollection

(* The worker has a task exactly while it is told to run one; Main joins it *)
(* before it collects, and before the queue is closed.                      *)
LEMMA PlaceStep ==
  ASSUME TypeOK, PlaceInv, DriverAssumption, Next
  PROVE  PlaceInv'
  <1> USE CausesKnown DEF TypeOK
  <1>1. ASSUME NEW p \in Procs, Collect(p) PROVE PlaceInv'
    <2>1. UNCHANGED <<queueVars, mainVars>>
      BY <1>1 DEF Collect, AtSafepoint, AfterSleep, StartConcurrent, EndConcurrent, FinishCollection
    <2> QED BY <1>1, <2>1, CollectKeepsIdle DEF queueVars, mainVars, PlaceInv
  <1>2. ASSUME NEW p \in Procs, AddTask(p) PROVE PlaceInv'
    <2>1. NewTask(adding[p]) \in Tasks
      BY <1>2 DEF AddTask, NewTask, Tasks
    <2>2. Insert(NewTask(adding[p])) \in Seq(Tasks)
      BY <2>1, InsertProperties DEF PlaceInv
    <2> QED BY <1>2, <2>2 DEF AddTask, mainVars, PlaceInv
  <1>3. CASE GetTask
    <2>1. queue # <<>> => Tail(queue) \in Seq(Tasks)
      BY HeadTailProperties DEF PlaceInv
    <2> QED BY <1>3, <2>1 DEF GetTask, mainVars, PlaceInv
  <1>4. CASE WaitTask
    BY <1>4 DEF WaitTask, mainVars, PlaceInv
  <1>5. CASE WaitEnds
    BY <1>5 DEF WaitEnds, mainVars, PlaceInv
  <1>6. CASE WorkerExits
    BY <1>6 DEF WorkerExits, mainVars, PlaceInv
  <1>7. CASE WorkerRuns
    <2>1. CASE held = "INVALID"
      BY <1>7, <2>1 DEF WorkerRuns, PlaceInv
    <2>2. CASE held # "INVALID"
      <3>1. req'[Main] = req[Main]
        BY <1>7, <2>2 DEF WorkerRuns, WaitForGC, DriverAssumption
      <3> QED BY <1>7, <2>2, <3>1 DEF WorkerRuns, PlaceInv
    <2> QED BY <2>1, <2>2
  <1>8. CASE WorkerDone
    BY <1>8 DEF WorkerDone, mainVars, PlaceInv, DriverAssumption
  <1>9. CASE TimePasses
    <2>1. queue' \in Seq(Tasks)
      <3>1. \A n \in 1..Len(queue) : [queue[n] EXCEPT !.late = FALSE] \in Tasks
        <4>1. \A n \in 1..Len(queue) : queue[n] \in Tasks
          BY DEF PlaceInv
        <4> QED BY <4>1, ZenonT(40) DEF Tasks
      <3>2. queue' \in [1..Len(queue) -> Tasks]
        BY <1>9, <3>1 DEF TimePasses
      <3>3. \E k \in Nat : queue' \in [1..k -> Tasks]
        BY <3>2
      <3> QED BY <3>3, SeqDef
    <2> QED BY <1>9, <2>1, SMTT(30) DEF TimePasses, mainVars, PlaceInv
  <1>10. ASSUME NEW m \in Mutators, RequestReturns(m) PROVE PlaceInv'
    BY <1>10 DEF RequestReturns, queueVars, mainVars, PlaceInv, DriverAssumption
  <1>11. ASSUME NEW m \in Mutators, NEW c, AllocationFails(m, c) PROVE PlaceInv'
    BY <1>11 DEF AllocationFails, WaitForGC, queueVars, mainVars, PlaceInv, DriverAssumption
  <1>12. ASSUME NEW m \in Mutators, NEW c, AddGCTask(m, c) PROVE PlaceInv'
    BY <1>12 DEF AddGCTask, WaitForGC, mainVars, PlaceInv, DriverAssumption
  <1>13. CASE JoinWorker
    BY <1>13 DEF JoinWorker, PlaceInv
  <1>14. CASE SignalWorker
    BY <1>14 DEF SignalWorker, PlaceInv
  <1>15. CASE Join
    BY <1>15 DEF Join, PlaceInv
  <1>16. CASE CollectBeforeFork
    BY <1>16 DEF CollectBeforeFork, WaitForGC, queueVars, PlaceInv, DriverAssumption
  <1>17. CASE CreateWorker
    BY <1>17 DEF CreateWorker, PlaceInv, DriverAssumption
  <1>18. CASE PreStartup
    BY <1>18 DEF PreStartup, PlaceInv
  <1>19. CASE Finalize
    BY <1>19 DEF Finalize, PlaceInv
  <1> QED
    BY <1>1, <1>2, <1>3, <1>4, <1>5, <1>6, <1>7, <1>8, <1>9, <1>10, <1>11, <1>12, <1>13,
       <1>14, <1>15, <1>16, <1>17, <1>18, <1>19 DEF Next, Worker, MainSteps

RequestPcs == {"idle", "begin", "sleep", "pause", "concurrent", "done"}

Requests == [pc : RequestPcs, cause : Causes, old : Nat, scopes : 0..MaxScopes,
             since : SUBSET Causes, inner : BOOLEAN]

(* A request stays one when a field gets a new value. *)
LEMMA RequestFields ==
  ASSUME NEW r \in Requests
  PROVE  /\ \A x \in RequestPcs : [r EXCEPT !.pc = x] \in Requests
         /\ \A n \in Nat : [r EXCEPT !.old = n] \in Requests
         /\ \A n \in 0..MaxScopes : [r EXCEPT !.scopes = n] \in Requests
         /\ \A S \in SUBSET Causes : [r EXCEPT !.since = S] \in Requests
         /\ [r EXCEPT !.inner = TRUE] \in Requests
  <1>1. \A x \in RequestPcs : [r EXCEPT !.pc = x] \in Requests
    BY DEF Requests
  <1>2. \A n \in Nat : [r EXCEPT !.old = n] \in Requests
    BY DEF Requests
  <1>3. \A n \in 0..MaxScopes : [r EXCEPT !.scopes = n] \in Requests
    BY DEF Requests
  <1>4. \A S \in SUBSET Causes : [r EXCEPT !.since = S] \in Requests
    BY DEF Requests
  <1>5. [r EXCEPT !.inner = TRUE] \in Requests
    BY DEF Requests
  <1> QED BY <1>1, <1>2, <1>3, <1>4, <1>5

(* The requests, and what the owner of the world writes, keep their types. *)
LEMMA RequestTypes ==
  ASSUME TypeOK, PlaceInv, DriverAssumption, Next
  PROVE  /\ req' \in [Procs -> Requests]
         /\ world' \in Procs \cup {Nobody} /\ phase' \in {"IDLE", "BUSY"}
         /\ counter' \in Nat /\ lastCause' \in Causes
  <1> USE CausesKnown DEF DriverAssumption
  <1>0. /\ Idle \in Requests /\ req \in [Procs -> Requests]
        /\ world \in Procs \cup {Nobody} /\ phase \in {"IDLE", "BUSY"}
        /\ counter \in Nat /\ lastCause \in Causes
    BY DEF TypeOK, Requests, RequestPcs
  <1>1. ASSUME NEW p \in Procs, NEW x \in RequestPcs, req' = [req EXCEPT ![p].pc = x]
        PROVE  req' \in [Procs -> Requests]
    BY <1>0, <1>1, RequestFields
  <1>2. ASSUME NEW p \in Procs, StartCollection(p)
        PROVE  /\ req' \in [Procs -> Requests]
               /\ world' = p /\ phase' = "BUSY" /\ counter' \in Nat /\ lastCause' \in Causes
    <2>1. ASSUME NEW q \in Procs
          PROVE  [req[q] EXCEPT !.since = @ \cup {req[p].cause},
                                !.pc = IF q = p THEN "pause" ELSE @] \in Requests
      <3>1. req[q].since \cup {req[p].cause} \in SUBSET Causes
        BY <1>0 DEF Requests
      <3> DEFINE r == [req[q] EXCEPT !.since = @ \cup {req[p].cause}]
      <3>2. r \in Requests
        BY <1>0, <3>1, RequestFields
      <3>3. (IF q = p THEN "pause" ELSE req[q].pc) \in RequestPcs
        BY <1>0 DEF Requests, RequestPcs
      <3>4. [req[q] EXCEPT !.since = @ \cup {req[p].cause}, !.pc = IF q = p THEN "pause" ELSE @]
              = [r EXCEPT !.pc = IF q = p THEN "pause" ELSE req[q].pc]
        BY <1>0 DEF Requests
      <3> HIDE DEF r
      <3> QED BY <3>2, <3>3, <3>4, RequestFields
    <2>2. req' \in [Procs -> Requests]
      BY <1>0, <1>2, <2>1 DEF StartCollection
    <2>3. lastCause' \in Causes /\ counter' \in Nat
      <3>1. req[p].cause \in Causes
        BY <1>0 DEF Requests
      <3>2. lastCause' = req[p].cause /\ counter' = counter + 1
        BY <1>2 DEF StartCollection
      <3> QED BY <1>0, <3>1, <3>2
    <2> QED BY <1>2, <2>2, <2>3 DEF StartCollection
  <1>3. ASSUME NEW p \in Procs, AtSafepoint(p)
        PROVE  StartCollection(p) \/ (req' \in [Procs -> Requests] /\ UNCHANGED collectVars)
    <2>1. CASE req' = [req EXCEPT ![p].pc = "sleep", ![p].old = counter]
      <3>1. [req EXCEPT ![p].pc = "sleep"] \in [Procs -> Requests]
        BY <1>0, RequestFields DEF RequestPcs
      <3> DEFINE r == [req EXCEPT ![p].pc = "sleep"]
      <3>2. req' = [r EXCEPT ![p].old = counter]
        BY <1>0, <2>1
      <3> HIDE DEF r
      <3>3. req' \in [Procs -> Requests]
        BY <1>0, <3>1, <3>2, RequestFields DEF r
      <3> QED BY <1>3, <3>3 DEF AtSafepoint
    <2>2. CASE req' = [req EXCEPT ![p].pc = "done"]
      BY <1>1, <1>3, <2>2 DEF AtSafepoint, RequestPcs
    <2> QED BY <1>3, <2>1, <2>2 DEF AtSafepoint
  <1>4. ASSUME NEW p \in Procs, AfterSleep(p)
        PROVE  StartCollection(p) \/ (req' \in [Procs -> Requests] /\ UNCHANGED collectVars)
    <2>1. CASE req' = [req EXCEPT ![p].pc = "done", ![p].inner = TRUE]
      <3>1. [req EXCEPT ![p].pc = "done"] \in [Procs -> Requests]
        BY <1>0, RequestFields DEF RequestPcs
      <3> DEFINE r == [req EXCEPT ![p].pc = "done"]
      <3>2. req' = [r EXCEPT ![p].inner = TRUE]
        BY <1>0, <2>1
      <3> HIDE DEF r
      <3>3. req' \in [Procs -> Requests]
        BY <1>0, <3>1, <3>2, RequestFields DEF r
      <3> QED BY <1>4, <3>3 DEF AfterSleep
    <2> QED BY <1>4, <2>1 DEF AfterSleep
  <1>5. ASSUME NEW p \in Procs, StartConcurrent(p)
        PROVE  req' \in [Procs -> Requests] /\ world' = Nobody
               /\ UNCHANGED <<phase, counter, lastCause>>
    <2>1. [req EXCEPT ![p].pc = "concurrent"] \in [Procs -> Requests]
      BY <1>0, RequestFields DEF RequestPcs
    <2>2. req[p].scopes + 1 \in 0..MaxScopes
      BY <1>0, <1>5 DEF StartConcurrent, Requests
    <2> DEFINE r == [req EXCEPT ![p].pc = "concurrent"]
    <2>3. r[p].scopes = req[p].scopes
      BY <1>0 DEF Requests
    <2>4. req' = [r EXCEPT ![p].scopes = req[p].scopes + 1]
      BY <1>0, <1>5, <2>3 DEF StartConcurrent
    <2> HIDE DEF r
    <2>5. req' \in [Procs -> Requests]
      BY <2>1, <2>2, <2>4, RequestFields DEF r
    <2> QED BY <1>5, <2>5 DEF StartConcurrent
  <1>6. ASSUME NEW p \in Procs, EndConcurrent(p) \/ FinishCollection(p)
        PROVE  req' \in [Procs -> Requests] /\ world' \in {p, Nobody} /\ phase' \in {phase, "IDLE"}
               /\ UNCHANGED <<counter, lastCause>>
    BY <1>1, <1>6 DEF EndConcurrent, FinishCollection, RequestPcs
  <1>7. ASSUME NEW p \in Procs, NEW c \in Causes, WaitForGC(p, c)
        PROVE  req' \in [Procs -> Requests]
    <2>1. [Idle EXCEPT !.pc = "begin", !.cause = c, !.old = counter] \in Requests
      BY <1>0 DEF Requests, RequestPcs
    <2> QED BY <1>0, <1>7, <2>1 DEF WaitForGC
  <1>8. ASSUME NEW p \in Procs, req' = [req EXCEPT ![p] = Idle]
        PROVE  req' \in [Procs -> Requests]
    BY <1>0, <1>8
  <1>9. CASE \E p \in Procs : Collect(p)
    BY <1>0, <1>2, <1>3, <1>4, <1>5, <1>6, <1>9 DEF Collect, collectVars
  <1>10. CASE UNCHANGED collectVars /\ req' \in [Procs -> Requests]
    BY <1>0, <1>10 DEF collectVars
  <1>11. Main \in Procs /\ "done" \in RequestPcs
    BY DEF RequestPcs
  <1> QED BY <1>0, <1>1, <1>7, <1>8, <1>9, <1>10, <1>11, RequestSteps

(* What the queue, the worker and Main write keeps its type; live does      *)
(* because it is the number of tasks there are.                             *)
LEMMA TypeStep ==
  ASSUME TypeOK, PlaceInv, PlaceInv', Ledger', DriverAssumption, Next
  PROVE  TypeOK'
  <1> USE CausesKnown DEF TypeOK, DriverAssumption
  <1>1. queue' \in Seq([cause : Causes, late : BOOLEAN])
    <2>1. queue' \in Seq(Tasks)
      BY DEF PlaceInv
    <2> DEFINE T == [cause : Causes, late : BOOLEAN]
    <2>2. Tasks \subseteq T
      BY DEF Tasks
    <2> HIDE DEF T
    <2>3. queue' \in Seq(T)
      BY <2>1, <2>2, SeqMonotonic
    <2> QED BY <2>3 DEF T
  <1>2. live' \in Nat
    <2>1. Len(queue') \in Nat /\ InHand' \in Nat
      BY DEF PlaceInv, InHand
    <2>2. Cardinality(Adders') \in Nat
      BY ProcsFinite, FS_Subset, FS_CardinalityType DEF Adders
    <2> QED BY <2>1, <2>2, SMTT(30) DEF Ledger
  <1> DEFINE Rest ==
        /\ inPlace \in BOOLEAN /\ zygote \in BOOLEAN /\ forks \in 0..MaxForks
        /\ running \in BOOLEAN /\ canAdd \in BOOLEAN /\ finalized \in BOOLEAN
        /\ adding \in [Procs -> Causes]
        /\ wpc \in {"none", "get", "checked", "waiting", "timed", "got", "run", "exited"}
        /\ held \in Causes /\ signalled \in BOOLEAN
        /\ mpc \in {"up", "forkSignal", "forkJoin", "pygote", "post", "stopSignal", "stopJoin",
                    "finalize", "down"}
        /\ startup \in {"normal", "raised", "restored"}
        /\ left \in [Mutators -> 0..MaxRequests]
        /\ dropped \in BOOLEAN
  <1>3. Rest'
    <2> USE DEF queueVars, mainVars
    <2>1. ASSUME NEW p \in Procs, Collect(p) PROVE Rest'
      <3>1. UNCHANGED <<queueVars, mainVars, left>>
        BY <2>1 DEF Collect, AtSafepoint, AfterSleep, StartConcurrent, EndConcurrent,
           FinishCollection
      <3> QED BY <3>1
    <2>2. ASSUME NEW p \in Procs, AddTask(p) PROVE Rest'
      <3>1. signalled' \in BOOLEAN
        BY <2>2 DEF AddTask, Signal
      <3>2. adding' \in [Procs -> Causes]
        BY <2>2 DEF AddTask
      <3> QED BY <2>2, <3>1, <3>2 DEF AddTask
    <2>3. CASE GetTask
      <3>1. queue # <<>> => Head(queue) \in Tasks
        BY HeadTailProperties DEF PlaceInv
      <3>2. queue # <<>> => Head(queue).cause \in Causes
        BY <3>1 DEF Tasks
      <3> QED BY <2>3, <3>2, ZenonT(40) DEF GetTask
    <2>4. CASE WaitTask \/ WaitEnds \/ TimePasses
      BY <2>4, SMTT(30) DEF WaitTask, WaitEnds, TimePasses
    <2>5. CASE WorkerExits
      <3>1. dropped' \in BOOLEAN /\ held' \in Causes /\ wpc' = "exited"
        BY <2>5 DEF WorkerExits
      <3> QED BY <2>5, <3>1 DEF WorkerExits
    <2>6. CASE WorkerRuns
      BY <2>6 DEF WorkerRuns
    <2>7. CASE WorkerDone
      BY <2>7 DEF WorkerDone
    <2>8. ASSUME NEW m \in Mutators, RequestReturns(m) PROVE Rest'
      BY <2>8 DEF RequestReturns
    <2>9. ASSUME NEW m \in Mutators, NEW c, AllocationFails(m, c) PROVE Rest'
      BY <2>9 DEF AllocationFails
    <2>10. ASSUME NEW m \in Mutators, NEW c \in Causes, AddGCTask(m, c) PROVE Rest'
      <3>1. canAdd' \in BOOLEAN
        BY <2>10 DEF AddGCTask
      <3>2. adding' \in [Procs -> Causes]
        BY <2>10 DEF AddGCTask
      <3>3. left' \in [Mutators -> 0..MaxRequests]
        BY <2>10 DEF AddGCTask
      <3> QED BY <2>10, <3>1, <3>2, <3>3 DEF AddGCTask
    <2>11. CASE JoinWorker
      <3>1. forks' \in 0..MaxForks
        BY <2>11 DEF JoinWorker
      <3>2. mpc' \in {"pygote", "forkSignal", "finalize", "stopSignal"}
        BY <2>11 DEF JoinWorker
      <3>3. running' \in BOOLEAN
        BY <2>11 DEF JoinWorker
      <3>4. UNCHANGED <<canAdd, finalized, adding, wpc, held, signalled, dropped, inPlace,
                        startup, zygote, left>>
        BY <2>11 DEF JoinWorker
      <3> QED BY <3>1, <3>2, <3>3, <3>4
    <2>12. CASE SignalWorker
      BY <2>12 DEF SignalWorker, Signal
    <2>13. CASE Join
      BY <2>13 DEF Join
    <2>14. CASE CollectBeforeFork
      BY <2>14 DEF CollectBeforeFork
    <2>15. CASE CreateWorker
      BY <2>15 DEF CreateWorker
    <2>16. CASE PreStartup
      BY <2>16 DEF PreStartup
    <2>17. CASE Finalize
      BY <2>17 DEF Finalize
    <2> HIDE DEF Rest
    <2> QED
      BY <2>1, <2>2, <2>3, <2>4, <2>5, <2>6, <2>7, <2>8, <2>9, <2>10, <2>11, <2>12, <2>13,
         <2>14, <2>15, <2>16, <2>17 DEF Next, Worker, MainSteps
  <1> QED BY <1>1, <1>2, <1>3, RequestTypes DEF Requests, RequestPcs

-------------------------------------------------------------------------------
(* The theorems *)

(* The last line of TasksReleasedOnce follows from where the worker is. *)
LEMMA ReleasedMeans == PlaceInv => (TasksReleasedOnce <=> Ledger)
  BY DEF PlaceInv, TasksReleasedOnce, Ledger, InHand, Adders

LEMMA ReleasedNext == PlaceInv' => (TasksReleasedOnce' <=> Ledger')
  BY ReleasedMeans, PTL

(* The conjunction is an invariant of the GC driver. *)
THEOREM Invariance == Spec => []Inv
  <1> USE DriverAssumption
  <1>1. Init => Inv
    <2> SUFFICES ASSUME Init PROVE Inv
      OBVIOUS
    <2>1. Adders = {} /\ \A p \in Procs : req[p] = Idle
      BY DEF Init, Adders
    <2>2. TypeOK
      <3>1. Idle \in Requests
        BY CausesKnown DEF Requests, RequestPcs, DriverAssumption
      <3>2. req \in [Procs -> Requests]
        BY <3>1 DEF Init
      <3>3. adding \in [Procs -> Causes] /\ left \in [Mutators -> 0..MaxRequests]
        BY CausesKnown DEF Init, DriverAssumption
      <3>4. queue \in Seq([cause : Causes, late : BOOLEAN])
        BY EmptySeq DEF Init
      <3>5. wpc \in {"none", "get"} /\ inPlace \in BOOLEAN /\ zygote \in BOOLEAN
        BY DEF Init
      <3>6. /\ forks \in 0..MaxForks /\ counter \in Nat /\ live \in Nat
            /\ lastCause \in Causes /\ held \in Causes
        BY CausesKnown DEF Init, DriverAssumption
      <3>7. /\ running \in BOOLEAN /\ canAdd \in BOOLEAN /\ finalized \in BOOLEAN
            /\ signalled \in BOOLEAN /\ dropped \in BOOLEAN
        BY DEF Init
      <3>8. world = Nobody /\ phase = "IDLE" /\ mpc = "up" /\ startup = "normal"
        BY DEF Init
      <3> QED BY <3>2, <3>3, <3>4, <3>5, <3>6, <3>7, <3>8 DEF TypeOK, Requests, RequestPcs
    <2>3. PlaceInv
      BY <2>1 DEF Init, PlaceInv
    <2>4. OneCollector /\ SinceInv /\ RequestCovered
      BY <2>1 DEF Init, OneCollector, SinceInv, RequestCovered, Collecting
    <2>5. Ledger
      BY <2>1, FS_EmptySet DEF Init, Ledger, InHand
    <2>6. TriggersOffForATask
      BY DEF Init, TriggersOffForATask
    <2> QED BY <2>2, <2>3, <2>4, <2>5, <2>6, ReleasedMeans DEF Inv
  <1>2. Inv /\ [Next]_vars => Inv'
    <2> SUFFICES ASSUME Inv, [Next]_vars PROVE Inv'
      OBVIOUS
    <2>1. CASE Next
      <3>1. PlaceInv'
        BY <2>1, PlaceStep DEF Inv
      <3>2. Ledger'
        BY <2>1, LedgerStep, ReleasedMeans DEF Inv
      <3>3. TypeOK'
        BY <2>1, <3>1, <3>2, TypeStep DEF Inv
      <3>4. OneCollector' /\ SinceInv' /\ RequestCovered'
        BY <2>1, RequestsStep, ExclusiveMeans, ExclusiveNext DEF Inv
      <3>5. TriggersOffForATask'
        BY <2>1, TriggersStep DEF Inv
      <3> QED BY <3>1, <3>2, <3>3, <3>4, <3>5, ReleasedNext DEF Inv
    <2>2. CASE UNCHANGED vars
      BY <2>2 DEF vars, Inv, TypeOK, PlaceInv, OneCollector, SinceInv, RequestCovered,
         Collecting, TasksReleasedOnce, TriggersOffForATask
    <2> QED BY <2>1, <2>2
  <1> QED BY <1>1, <1>2, PTL DEF Spec

(* Type correctness of the GC driver. *)
THEOREM TypeCorrectness == Spec => []TypeOK
  <1>1. Inv => TypeOK
    BY DEF Inv
  <1> QED BY <1>1, Invariance, PTL

(* The phase keeps collections apart, although a collection leaves the      *)
(* safepoint for its concurrent scopes.                                     *)
THEOREM CollectorExclusion == Spec => []OneCollector
  <1>1. Inv => OneCollector
    BY DEF Inv
  <1> QED BY <1>1, Invariance, PTL

(* WaitForGC never returns on a collection that was under way when it was   *)
(* called, for any number of threads that share collections.                *)
THEOREM RequestsAnswered == Spec => []RequestCovered
  <1>1. Inv => RequestCovered
    BY DEF Inv
  <1> QED BY <1>1, Invariance, PTL

(* The queue, the worker and StopGC release every task exactly once. *)
THEOREM TasksReleased == Spec => []TasksReleasedOnce
  <1>1. Inv => TasksReleasedOnce
    BY DEF Inv
  <1> QED BY <1>1, Invariance, PTL

(* can_add_gc_task_ stays down only while a task is on its way, after a     *)
(* task thrown away by a worker told to end, or at the end.                 *)
THEOREM TriggersComeBack == Spec => []TriggersOffForATask
  <1>1. Inv => TriggersOffForATask
    BY DEF Inv
  <1> QED BY <1>1, Invariance, PTL
===============================================================================
