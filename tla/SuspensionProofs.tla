---------------------------- MODULE SuspensionProofs ----------------------------
(***************************************************************************)
(* Proofs about Suspension, for any finite set of threads, any of them     *)
(* stopping the world or exiting, and any number of rounds.                *)
(*                                                                         *)
(* Inv is the inductive invariant. Its core is SuspensionsCounted; what it *)
(* needs is what a continuation can look like (Shape: a suspension by id   *)
(* is resumed by the last instruction, a safepoint runs to its end), that  *)
(* the registry stands still while SuspendAllThreads and ResumeAllThreads  *)
(* go through it (LockInv), and that whoever is suspended by id is         *)
(* registered (HeldInv).                                                   *)
(***************************************************************************)
EXTENDS Suspension, FiniteSetTheorems, SequenceTheorems, TLAPS

(* What a continuation w says of the suspensions its actor has in force. *)

Has(w, op) == \E i \in DOMAIN w : w[i].op = op
First(w, op) == w # <<>> /\ w[1].op = op

HoldsIn(w, t) == \E i \in DOMAIN w : w[i].op = "resume" /\ w[i].thread = t

Stopping(w) ==
  Has(w, "resumeAllLock") /\ ~First(w, "suspendAllLock") /\ ~First(w, "suspendAll")

CoversIn(w, a, t, registered) ==
  /\ t # a
  /\ t \in registered
  /\ \/ First(w, "suspendAll") /\ t \notin w[1].todo
     \/ Stopping(w)
     \/ First(w, "resumeAll") /\ t \in w[1].todo

(* Between UnregisterLock and UnregisterCheck. *)
Unregistering(w) == Has(w, "unregisterCheck") /\ ~Has(w, "unregisterLock")

SafepointOps == {"suspendAllLock", "suspendAll", "writeLock", "writeUnlock",
                 "resumeAllLock", "resumeAll"}
LastOps   == {"suspendThread", "resume", "resumeEnd", "unregisterCheck"}
StatusOps == {"update", "store", "storeWithSafepoint"}

(* What is left of a safepoint, from its first instruction. *)
SafepointShape(w) ==
  /\ w[1].op \in {"suspendAllLock", "suspendAll"} =>
       /\ Len(w) >= 4
       /\ w[2].op = "writeLock" /\ w[3].op = "writeUnlock" /\ w[4].op = "resumeAllLock"
       /\ \A i \in 5..Len(w) : w[i].op = "readLock"
  /\ w[1].op = "writeLock" =>
       /\ Len(w) >= 3
       /\ w[2].op = "writeUnlock" /\ w[3].op = "resumeAllLock"
       /\ \A i \in 4..Len(w) : w[i].op = "readLock"
  /\ w[1].op = "writeUnlock" =>
       /\ Len(w) >= 2
       /\ w[2].op = "resumeAllLock"
       /\ \A i \in 3..Len(w) : w[i].op = "readLock"
  /\ w[1].op \in {"resumeAllLock", "resumeAll"} =>
       \A i \in 2..Len(w) : w[i].op = "readLock"

InstrShape(w, i) ==
  /\ w[i].op \in LastOps => i = Len(w)
  /\ w[i].op = "waitNotRunning" =>
       i + 3 = Len(w) /\ w[Len(w)].op = "resume" /\ w[Len(w)].thread = w[i].thread
  /\ w[i].op \in StatusOps => w[i].status # "CREATED"
  /\ w[i].op = "store" => w[i].status # "RUNNING"

Shape(w) ==
  w # <<>> =>
    /\ \A i \in DOMAIN w : InstrShape(w, i)
    /\ IF w[1].op \in SafepointOps THEN SafepointShape(w)
                                   ELSE \A i \in DOMAIN w : w[i].op \notin SafepointOps

ShapeInv == \A a \in Actors : Shape(work[a])

(* thread_lock_ is held by whoever goes through the registry or removes itself. *)
LockInv ==
  \A a \in Actors :
    /\ First(work[a], "suspendAll") \/ First(work[a], "resumeAll") =>
         thread_lock_ = a /\ work[a][1].todo \subseteq threads_ \ {a}
    /\ Unregistering(work[a]) => thread_lock_ = a

(* The mutator lock is held exclusively until the writer's next instruction, and
   nobody holds it shared then. *)
WriterInv ==
  mutator_writer # Nobody => First(work[mutator_writer], "writeUnlock") /\ mutator_readers = {}

(* A thread that is suspended by its id is registered. *)
HeldInv == \A a \in Actors, t \in Threads : HoldsIn(work[a], t) => t \in threads_

(* A created thread does nothing but register, once. *)
CreatedInv ==
  \A t \in Threads : status[t] = "CREATED" =>
    IF work[t] = <<>> THEN t \notin threads_ \cup deleted
    ELSE Len(work[t]) = 1 /\ work[t][1].op = "update" /\ work[t][1].status = "NATIVE"

CoverSet(f, t, registered) == {a \in Actors : CoversIn(f[a], a, t, registered)}
HoldSet(f, t) == {a \in Actors : HoldsIn(f[a], t)}
StopSet(f) == {a \in Actors : Stopping(f[a])}

(* SuspensionsCounted, in terms of the continuations. *)
CountInv ==
  /\ \A t \in Threads \ deleted :
       /\ suspend_count_[t] = Cardinality(CoverSet(work, t, threads_))
                            + Cardinality(HoldSet(work, t))
       /\ suspend_request[t] = (suspend_count_[t] > 0)
  /\ suspend_new_count_ = Cardinality(StopSet(work))

(* OwnerStaysSuspended, likewise. *)
OwnerInv ==
  \A a \in Actors, t \in Threads :
    HoldsIn(work[a], t) /\ ~Has(work[a], "waitNotRunning") => status[t] # "RUNNING"

Inv == /\ TypeOK /\ ShapeInv /\ LockInv /\ WriterInv /\ HeldInv /\ CreatedInv
       /\ CountInv /\ OwnerInv

-----------------------------------------------------------------------------
(* Instructions and continuations *)

(* The fields of an instruction follow from its operation. *)
LEMMA InstrFields ==
  ASSUME NEW x \in Instructions
  PROVE  /\ x.op \in StatusOps => x.status \in Statuses
         /\ x.op \in {"suspendThread", "waitNotRunning", "resume", "resumeEnd"} =>
              x.thread \in Threads
         /\ x.op \in {"suspendAll", "resumeAll"} => x.todo \subseteq Threads
  <1>1. CASE x \in [op : {"update", "store", "storeWithSafepoint"}, status : Statuses]
    BY <1>1 DEF StatusOps
  <1>2. CASE x \in [op : {"suspendThread", "waitNotRunning", "resume", "resumeEnd"},
                    thread : Threads]
    BY <1>2 DEF StatusOps
  <1>3. CASE x \in [op : {"suspendAll", "resumeAll"}, todo : SUBSET Threads]
    BY <1>3 DEF StatusOps
  <1>4. CASE x \in [op : {"readLock", "poll", "awaitResume", "suspendAllLock", "writeLock",
                          "writeUnlock", "resumeAllLock", "unregisterLock",
                          "unregisterCheck"}]
    BY <1>4 DEF StatusOps
  <1> QED BY <1>1, <1>2, <1>3, <1>4 DEF Instructions

(* The instructions the code is made of are instructions. *)
LEMMA InstrMade ==
  /\ \A x \in Statuses : /\ UpdateStatus(x) \in Instructions
                         /\ StoreStatus(x) \in Instructions
                         /\ StoreStatusWithSafepoint(x) \in Instructions
  /\ \A t \in Threads : /\ SuspendThread(t) \in Instructions
                        /\ WaitNotRunning(t) \in Instructions
                        /\ ResumeImpl(t) \in Instructions
                        /\ ResumeImplEnd(t) \in Instructions
  /\ \A x \in SUBSET Threads : SuspendAll(x) \in Instructions /\ ResumeAll(x) \in Instructions
  /\ {ReadLock, SafepointPoll, AwaitResume, SuspendAllLock, WriteLock, WriteUnlock,
      ResumeAllLock, UnregisterLock, UnregisterCheck} \subseteq Instructions
  BY DEF Instructions, UpdateStatus, StoreStatus, StoreStatusWithSafepoint, SuspendThread,
         WaitNotRunning, ResumeImpl, ResumeImplEnd, SuspendAll, ResumeAll, ReadLock,
         SafepointPoll, AwaitResume, SuspendAllLock, WriteLock, WriteUnlock,
         ResumeAllLock, UnregisterLock, UnregisterCheck

(* What Do makes of a continuation: the instructions of prog, then those that
   followed the first one. *)
LEMMA Replaced ==
  ASSUME NEW w \in Seq(Instructions), w # <<>>, NEW prog \in Seq(Instructions)
  PROVE  LET s == prog \o Tail(w) IN
         /\ s \in Seq(Instructions)
         /\ Len(s) = Len(prog) + Len(w) - 1
         /\ Len(w) \in Nat \ {0} /\ Len(prog) \in Nat
         /\ \A i \in 1..Len(prog) : s[i] = prog[i]
         /\ \A i \in 2..Len(w) : s[Len(prog) + i - 1] = w[i]
         /\ \A i \in 1..Len(s) : i > Len(prog) => s[i] = w[i - Len(prog) + 1]
  <1>1. /\ Tail(w) \in Seq(Instructions) /\ Len(Tail(w)) = Len(w) - 1
        /\ \A i \in 1..Len(Tail(w)) : Tail(w)[i] = w[i + 1]
    BY HeadTailProperties
  <1>2. Len(w) \in Nat \ {0} /\ Len(prog) \in Nat
    BY EmptySeq, LenProperties
  <1> HIDE DEF Instructions
  <1>3. /\ prog \o Tail(w) \in Seq(Instructions)
        /\ Len(prog \o Tail(w)) = Len(prog) + Len(Tail(w))
        /\ \A i \in 1..(Len(prog) + Len(Tail(w))) :
             (prog \o Tail(w))[i] = IF i <= Len(prog) THEN prog[i] ELSE Tail(w)[i - Len(prog)]
    BY <1>1, ConcatProperties
  <1> DEFINE s == prog \o Tail(w)
  <1> HIDE DEF s
  <1>4. /\ s \in Seq(Instructions) /\ Len(s) = Len(prog) + Len(w) - 1
        /\ \A i \in 1..Len(s) :
             s[i] = IF i <= Len(prog) THEN prog[i] ELSE Tail(w)[i - Len(prog)]
    BY <1>1, <1>2, <1>3 DEF s
  <1>5. \A i \in 1..Len(prog) : s[i] = prog[i]
    BY <1>2, <1>4
  <1>6. \A i \in 1..Len(s) : i > Len(prog) => s[i] = w[i - Len(prog) + 1]
    BY <1>1, <1>2, <1>4
  <1>7. \A i \in 2..Len(w) : s[Len(prog) + i - 1] = w[i]
    BY <1>2, <1>4, <1>6
  <1> QED BY <1>2, <1>4, <1>5, <1>6, <1>7 DEF s

(* The instructions that only change the status, and those they turn into. *)
Neutral(x) ==
  \/ x.op \in {"readLock", "poll", "awaitResume"}
  \/ x.op \in StatusOps /\ x.status # "CREATED" /\ (x.op = "store" => x.status # "RUNNING")

Plain(w) == ~Stopping(w) /\ ~First(w, "suspendAll") /\ ~First(w, "resumeAll")

(* A continuation that begins outside of a safepoint has none of its instructions. *)
LEMMA PlainShape ==
  ASSUME NEW w \in Seq(Instructions), w # <<>>, Shape(w), w[1].op \notin SafepointOps
  PROVE  Plain(w) /\ \A i \in DOMAIN w : w[i].op \notin SafepointOps
  BY DEF Shape, Plain, Stopping, First, Has, SafepointOps

(* Instructions that change the status replace one that holds no suspension. *)
LEMMA NeutralMove ==
  ASSUME NEW w \in Seq(Instructions), w # <<>>, Shape(w),
         w[1].op \in StatusOps \cup {"readLock", "poll", "awaitResume", "waitNotRunning",
                                     "unregisterLock"},
         NEW prog \in Seq(Instructions), \A i \in 1..Len(prog) : Neutral(prog[i])
  PROVE  LET s == prog \o Tail(w) IN
         /\ s \in Seq(Instructions)
         /\ Shape(s) /\ Plain(w) /\ Plain(s)
         /\ \A t : HoldsIn(s, t) <=> HoldsIn(w, t)
         /\ Has(s, "waitNotRunning") => Has(w, "waitNotRunning")
         /\ Has(w, "waitNotRunning") => w[1].op = "waitNotRunning" \/ Has(s, "waitNotRunning")
         /\ Unregistering(s) => Unregistering(w) \/ w[1].op = "unregisterLock"
  <1> DEFINE s == prog \o Tail(w)
             n == Len(prog)
             m == Len(w)
  <1>1. /\ s \in Seq(Instructions)
        /\ Len(s) = n + m - 1
        /\ m \in Nat \ {0} /\ n \in Nat
        /\ \A i \in 1..n : s[i] = prog[i]
        /\ \A i \in 2..m : s[n + i - 1] = w[i]
        /\ \A i \in 1..Len(s) : i > n => s[i] = w[i - n + 1]
    BY Replaced
  <1>2. DOMAIN s = 1..Len(s) /\ DOMAIN w = 1..m
    BY <1>1
  <1> HIDE DEF s, n, m
  <1>3. \A i \in 1..n : Neutral(s[i])
    BY <1>1 DEF n
  <1>4. w[1].op \notin SafepointOps /\ w[1].op \notin LastOps
    BY DEF SafepointOps, StatusOps, LastOps
  <1>5. Plain(w) /\ \A i \in 1..m : w[i].op \notin SafepointOps
    BY <1>2, <1>4, PlainShape
  <1>6. \A i \in 1..m : InstrShape(w, i)
    BY <1>2 DEF Shape
  <1>7. \A op : Has(s, op) <=> (\E i \in 1..n : s[i].op = op) \/ (\E i \in 2..m : w[i].op = op)
    <2> TAKE op
    <2>1. ASSUME NEW i \in 1..Len(s), s[i].op = op, i > n
          PROVE  \E j \in 2..m : w[j].op = op
      <3>1. i - n + 1 \in 2..m /\ s[i] = w[i - n + 1]
        BY <1>1, <2>1
      <3> QED BY <2>1, <3>1
    <2>2. ASSUME NEW i \in 2..m, w[i].op = op
          PROVE  \E j \in 1..Len(s) : s[j].op = op
      <3>1. n + i - 1 \in 1..Len(s) /\ s[n + i - 1] = w[i]
        BY <1>1
      <3> QED BY <2>2, <3>1
    <2>3. 1..n \subseteq 1..Len(s)
      BY <1>1
    <2>4. \A i \in 1..Len(s) : i > n \/ i \in 1..n
      BY <1>1
    <2> QED BY <1>2, <2>1, <2>2, <2>3, <2>4 DEF Has
  <1>8. \A i \in 1..n : s[i].op \notin SafepointOps \cup LastOps
                                        \cup {"waitNotRunning", "unregisterLock"}
    BY <1>3 DEF Neutral, SafepointOps, StatusOps, LastOps
  <1>9. \A op : Has(w, op) <=> w[1].op = op \/ (\E i \in 2..m : w[i].op = op)
    <2>1. 1 \in 1..m /\ 2..m \subseteq 1..m /\ \A i \in 1..m : i = 1 \/ i \in 2..m
      BY <1>1
    <2> QED BY <1>2, <2>1 DEF Has
  <1>10. \A t : HoldsIn(s, t) <=> HoldsIn(w, t)
    <2> TAKE t
    <2>1. ASSUME NEW i \in 1..Len(s), s[i].op = "resume", s[i].thread = t
          PROVE  HoldsIn(w, t)
      <3>1. i > n
        BY <1>1, <1>8, <2>1 DEF LastOps
      <3>2. i - n + 1 \in 1..m /\ s[i] = w[i - n + 1]
        BY <1>1, <3>1
      <3> QED BY <1>2, <2>1, <3>2 DEF HoldsIn
    <2>2. ASSUME NEW i \in 1..m, w[i].op = "resume", w[i].thread = t
          PROVE  HoldsIn(s, t)
      <3>1. i # 1
        BY <1>4, <2>2 DEF LastOps
      <3>2. i \in 2..m
        BY <1>1, <3>1
      <3>3. n + i - 1 \in 1..Len(s) /\ s[n + i - 1] = w[i]
        BY <1>1, <3>2
      <3> QED BY <1>2, <2>2, <3>3 DEF HoldsIn
    <2> QED BY <1>2, <2>1, <2>2 DEF HoldsIn
  <1>11. \A i \in 1..Len(s) : s[i].op \notin SafepointOps
    BY <1>1, <1>5, <1>8
  <1>12. Plain(s)
    <2>1. Len(s) \in Nat
      BY <1>1
    <2>2. s # <<>> => 1 \in 1..Len(s)
      BY <1>1, EmptySeq
    <2> QED BY <1>2, <1>11, <2>2 DEF Plain, Stopping, First, Has, SafepointOps
  <1>13. Shape(s)
    <2>1. SUFFICES ASSUME s # <<>>, NEW i \in 1..Len(s)
                   PROVE  InstrShape(s, i)
      <3>1. s # <<>> => 1 \in 1..Len(s)
        BY <1>1, EmptySeq
      <3> QED BY <1>2, <1>11, <2>1, <3>1 DEF Shape
    <2>2. CASE i > n
      <3>1. i - n + 1 \in 2..m /\ s[i] = w[i - n + 1] /\ s[Len(s)] = w[m]
        <4>1. i - n + 1 \in 2..m
          BY <1>1, <2>2
        <4>2. m \in 2..m /\ n + m - 1 = Len(s)
          BY <1>1, <4>1
        <4> QED BY <1>1, <2>2, <4>1, <4>2
      <3>2. InstrShape(w, i - n + 1)
        BY <1>6, <3>1
      <3> QED BY <1>1, <2>2, <3>1, <3>2 DEF InstrShape, m
    <2>3. CASE i <= n
      <3>1. Neutral(s[i])
        BY <1>3, <2>3
      <3> QED BY <3>1 DEF Neutral, InstrShape, StatusOps, LastOps
    <2> QED BY <1>1, <2>2, <2>3
  <1>14. /\ Has(s, "waitNotRunning") => Has(w, "waitNotRunning")
         /\ Has(w, "waitNotRunning") => w[1].op = "waitNotRunning" \/ Has(s, "waitNotRunning")
         /\ Unregistering(s) => Unregistering(w) \/ w[1].op = "unregisterLock"
    BY <1>7, <1>8, <1>9 DEF Unregistering, LastOps
  <1> QED BY <1>1, <1>5, <1>10, <1>12, <1>13, <1>14 DEF s

(* One program after another. *)
LEMMA Spliced ==
  ASSUME NEW S, NEW p \in Seq(S), NEW q \in Seq(S), NEW r \in Seq(S),
         Len(r) = Len(p) + Len(q),
         \A i \in 1..Len(r) : r[i] = IF i <= Len(p) THEN p[i] ELSE q[i - Len(p)]
  PROVE  p \o q = r
  <1>1. /\ p \o q \in Seq(S) /\ Len(p \o q) = Len(p) + Len(q)
        /\ \A i \in 1..(Len(p) + Len(q)) :
             (p \o q)[i] = IF i <= Len(p) THEN p[i] ELSE q[i - Len(p)]
    BY ConcatProperties
  <1> DEFINE s == p \o q
  <1> HIDE DEF s
  <1>2. s \in Seq(S) /\ Len(s) = Len(r) /\ \A i \in 1..Len(s) : s[i] = r[i]
    BY <1>1 DEF s
  <1> QED BY <1>2, SeqEqual DEF s

LEMMA Concat12 == \A a, b, c : <<a>> \o <<b, c>> = <<a, b, c>>
  <1> TAKE a, b, c
  <1> DEFINE S == {a, b, c}
             p == <<a>>
             q == <<b, c>>
             r == <<a, b, c>>
  <1>1. /\ p \in Seq(S) /\ q \in Seq(S) /\ r \in Seq(S)
        /\ Len(p) = 1 /\ Len(q) = 2 /\ Len(r) = 3
    OBVIOUS
  <1>2. \A i \in 1..3 : r[i] = IF i <= 1 THEN p[i] ELSE q[i - 1]
    OBVIOUS
  <1> HIDE DEF S, p, q, r
  <1>3. /\ Len(r) = Len(p) + Len(q)
        /\ \A i \in 1..Len(r) : r[i] = IF i <= Len(p) THEN p[i] ELSE q[i - Len(p)]
    BY <1>1, <1>2
  <1>4. p \o q = r
    BY <1>1, <1>3, Spliced, Zenon
  <1> QED BY <1>4 DEF p, q, r

LEMMA Concat22 == \A a, b, c, d : <<a, b>> \o <<c, d>> = <<a, b, c, d>>
  <1> TAKE a, b, c, d
  <1> DEFINE S == {a, b, c, d}
             p == <<a, b>>
             q == <<c, d>>
             r == <<a, b, c, d>>
  <1>1. /\ p \in Seq(S) /\ q \in Seq(S) /\ r \in Seq(S)
        /\ Len(p) = 2 /\ Len(q) = 2 /\ Len(r) = 4
    OBVIOUS
  <1>2. \A i \in 1..4 : r[i] = IF i <= 2 THEN p[i] ELSE q[i - 2]
    OBVIOUS
  <1> HIDE DEF S, p, q, r
  <1>3. /\ Len(r) = Len(p) + Len(q)
        /\ \A i \in 1..Len(r) : r[i] = IF i <= Len(p) THEN p[i] ELSE q[i - Len(p)]
    BY <1>1, <1>2
  <1>4. p \o q = r
    BY <1>1, <1>3, Spliced, Zenon
  <1> QED BY <1>4 DEF p, q, r

LEMMA Concat41 == \A a, b, c, d, e : <<a, b, c, d>> \o <<e>> = <<a, b, c, d, e>>
  <1> TAKE a, b, c, d, e
  <1> DEFINE S == {a, b, c, d, e}
             p == <<a, b, c, d>>
             q == <<e>>
             r == <<a, b, c, d, e>>
  <1>1. /\ p \in Seq(S) /\ q \in Seq(S) /\ r \in Seq(S)
        /\ Len(p) = 4 /\ Len(q) = 1 /\ Len(r) = 5
    OBVIOUS
  <1>2. \A i \in 1..5 : r[i] = IF i <= 4 THEN p[i] ELSE q[i - 4]
    OBVIOUS
  <1> HIDE DEF S, p, q, r
  <1>3. /\ Len(r) = Len(p) + Len(q)
        /\ \A i \in 1..Len(r) : r[i] = IF i <= Len(p) THEN p[i] ELSE q[i - Len(p)]
    BY <1>1, <1>2
  <1>4. p \o q = r
    BY <1>1, <1>3, Spliced, Zenon
  <1> QED BY <1>4 DEF p, q, r

(* What a program must look like, outside of a safepoint. *)
LEMMA PlainProgram ==
  ASSUME NEW p \in Seq(Instructions),
         \A i \in 1..Len(p) : p[i].op \notin SafepointOps /\ InstrShape(p, i)
  PROVE  Shape(p) /\ Plain(p)
  <1>1. DOMAIN p = 1..Len(p) /\ Len(p) \in Nat /\ (p # <<>> => 1 \in 1..Len(p))
    BY EmptySeq
  <1> QED BY <1>1 DEF Shape, Plain, Stopping, First, Has, SafepointOps

(* A program of status changes, or none at all. *)
LEMMA NeutralProgram ==
  ASSUME NEW p \in Seq(Instructions), \A i \in 1..Len(p) : Neutral(p[i])
  PROVE  /\ Shape(p) /\ Plain(p) /\ ~Unregistering(p)
         /\ \A t : ~HoldsIn(p, t)
  <1>1. DOMAIN p = 1..Len(p)
    OBVIOUS
  <1>2. \A i \in 1..Len(p) : /\ p[i].op \notin SafepointOps \cup LastOps
                             /\ InstrShape(p, i)
    BY DEF Neutral, InstrShape, SafepointOps, LastOps, StatusOps
  <1> QED BY <1>1, <1>2, PlainProgram DEF Unregistering, HoldsIn, Has, LastOps

(* The programs of Destroy, of a thread that may not be deleted yet, and of an owner's
   suspension. *)
DestroyAgain == <<SafepointPoll, UnregisterLock, UnregisterCheck>>

LEMMA DestroyProgram ==
  ASSUME NEW p \in {DestroyBody, DestroyAgain}
  PROVE  /\ p \in Seq(Instructions) /\ p # <<>>
         /\ Shape(p) /\ Plain(p) /\ ~Unregistering(p)
         /\ \A t : ~HoldsIn(p, t)
  <1>1. p \in Seq(Instructions) /\ p # <<>>
    <2>1. DestroyBody \in Seq(Instructions) /\ DestroyBody # <<>>
      BY InstrMade DEF DestroyBody, Statuses
    <2>2. DestroyAgain \in Seq(Instructions) /\ DestroyAgain # <<>>
      BY InstrMade DEF DestroyAgain
    <2> QED BY <2>1, <2>2
  <1> USE DEF UpdateStatus, SafepointPoll, UnregisterLock, UnregisterCheck
  <1>2. \A i \in 1..Len(p) : p[i].op \notin SafepointOps /\ InstrShape(p, i)
    <2> USE DEF InstrShape, SafepointOps, LastOps, StatusOps
    <2>1. CASE p = DestroyBody
      BY <2>1 DEF DestroyBody
    <2>2. CASE p = DestroyAgain
      BY <2>2 DEF DestroyAgain
    <2> QED BY <2>1, <2>2
  <1>3. Has(p, "unregisterLock")
    BY DEF Has, DestroyBody, DestroyAgain
  <1>4. \A i \in DOMAIN p : p[i].op # "resume"
    BY DEF DestroyBody, DestroyAgain
  <1> QED BY <1>1, <1>2, <1>3, <1>4, PlainProgram DEF Unregistering, HoldsIn

OwnerGone == <<UpdateStatus("NATIVE"), UpdateStatus("NATIVE"), UpdateStatus("RUNNING")>>
TryFirst(t) == <<UpdateStatus("NATIVE"), UpdateStatus("IS_WAITING_INFLATION")>> \o TrySuspend(t)
TryAgain(t) == <<UpdateStatus("NATIVE")>> \o TrySuspend(t)

LEMMA TryProgram ==
  ASSUME NEW t \in Threads, NEW p \in {TryFirst(t), TryAgain(t)}
  PROVE  /\ p \in Seq(Instructions) /\ p # <<>>
         /\ Shape(p) /\ Plain(p) /\ ~Unregistering(p)
         /\ \A u : ~HoldsIn(p, u)
  <1>1. /\ TryAgain(t) = <<UpdateStatus("NATIVE"), UpdateStatus("RUNNING"), SuspendThread(t)>>
        /\ TryFirst(t) = <<UpdateStatus("NATIVE"), UpdateStatus("IS_WAITING_INFLATION"),
                           UpdateStatus("RUNNING"), SuspendThread(t)>>
    BY Concat12, Concat22, Zenon DEF TryFirst, TryAgain, TrySuspend
  <1>2. p \in Seq(Instructions) /\ p # <<>>
    <2>1. CASE p = TryFirst(t)
      BY <1>1, <2>1, InstrMade DEF Statuses
    <2>2. CASE p = TryAgain(t)
      BY <1>1, <2>2, InstrMade DEF Statuses
    <2> QED BY <2>1, <2>2
  <1> USE DEF UpdateStatus, SuspendThread
  <1>3. \A i \in 1..Len(p) : p[i].op \notin SafepointOps /\ InstrShape(p, i)
    <2> USE DEF InstrShape, SafepointOps, LastOps, StatusOps
    <2>1. CASE p = TryFirst(t)
      BY <1>1, <2>1
    <2>2. CASE p = TryAgain(t)
      BY <1>1, <2>2
    <2> QED BY <2>1, <2>2
  <1>4. \A i \in DOMAIN p : p[i].op \notin {"unregisterCheck", "resume"}
    BY <1>1
  <1> QED BY <1>2, <1>3, <1>4, PlainProgram DEF Unregistering, Has, HoldsIn

Suspended(t) ==
  <<UpdateStatus("NATIVE"), WaitNotRunning(t), UpdateStatus("NATIVE"),
    UpdateStatus("RUNNING"), ResumeImpl(t)>>

LEMMA SuspendedProgram ==
  ASSUME NEW t \in Threads, NEW p, p = Suspended(t)
  PROVE  /\ p \in Seq(Instructions) /\ p # <<>>
         /\ Shape(p) /\ Plain(p) /\ ~Unregistering(p)
         /\ \A u : HoldsIn(p, u) <=> u = t
         /\ Has(p, "waitNotRunning")
  <1> USE DEF Suspended, UpdateStatus, WaitNotRunning, ResumeImpl
  <1>1. p \in Seq(Instructions) /\ p # <<>>
    BY InstrMade DEF Statuses
  <1>2. \A i \in 1..Len(p) : p[i].op \notin SafepointOps /\ InstrShape(p, i)
    BY DEF InstrShape, SafepointOps, LastOps, StatusOps
  <1>3. \A i \in DOMAIN p : p[i].op # "unregisterCheck" /\ (p[i].op = "resume" <=> i = 5)
    OBVIOUS
  <1>4. 5 \in DOMAIN p /\ p[5].op = "resume" /\ p[5].thread = t
    OBVIOUS
  <1>5. 2 \in DOMAIN p /\ p[2].op = "waitNotRunning"
    OBVIOUS
  <1> QED BY <1>1, <1>2, <1>3, <1>4, <1>5, PlainProgram DEF Unregistering, Has, HoldsIn

LEMMA ResumeProgram ==
  ASSUME NEW t \in Threads, NEW p, p = <<ResumeImplEnd(t)>>
  PROVE  /\ p \in Seq(Instructions) /\ p # <<>>
         /\ Shape(p) /\ Plain(p) /\ ~Unregistering(p)
         /\ \A u : ~HoldsIn(p, u)
  <1> USE DEF ResumeImplEnd
  <1>1. p \in Seq(Instructions) /\ p # <<>>
    BY InstrMade
  <1>2. \A i \in 1..Len(p) : p[i].op \notin SafepointOps /\ InstrShape(p, i)
    BY DEF InstrShape, SafepointOps, LastOps, StatusOps
  <1>3. \A i \in DOMAIN p : p[i].op = "resumeEnd"
    OBVIOUS
  <1> QED BY <1>1, <1>2, <1>3, PlainProgram DEF Unregistering, Has, HoldsIn

(* A safepoint that begins. *)
LEMMA SafepointProgram ==
  ASSUME NEW p \in {Safepoint, Safepoint \o <<ReadLock>>}
  PROVE  /\ p \in Seq(Instructions) /\ p # <<>>
         /\ Shape(p) /\ Plain(p) /\ ~Unregistering(p)
         /\ \A u : ~HoldsIn(p, u)
  <1>1. /\ Safepoint = <<SuspendAllLock, WriteLock, WriteUnlock, ResumeAllLock>>
        /\ Safepoint \o <<ReadLock>>
             = <<SuspendAllLock, WriteLock, WriteUnlock, ResumeAllLock, ReadLock>>
    BY Concat41, Zenon DEF Safepoint
  <1>2. p \in Seq(Instructions) /\ p # <<>>
    <2>1. CASE p = Safepoint
      BY <1>1, <2>1, InstrMade
    <2>2. CASE p = Safepoint \o <<ReadLock>>
      BY <1>1, <2>2, InstrMade
    <2> QED BY <2>1, <2>2
  <1> USE DEF SuspendAllLock, WriteLock, WriteUnlock, ResumeAllLock, ReadLock
  <1>3. \A i \in DOMAIN p :
          /\ p[i].op \in SafepointOps \cup {"readLock"}
          /\ InstrShape(p, i)
    BY <1>1 DEF InstrShape, SafepointOps, LastOps, StatusOps
  <1>4. p[1].op = "suspendAllLock" /\ SafepointShape(p)
    <2> USE DEF SafepointShape
    <2>1. CASE p = Safepoint
      BY <1>1, <2>1
    <2>2. CASE p = Safepoint \o <<ReadLock>>
      BY <1>1, <2>2
    <2> QED BY <2>1, <2>2
  <1> QED BY <1>2, <1>3, <1>4
          DEF Shape, Plain, Stopping, First, Unregistering, Has, HoldsIn, SafepointOps

(* The instructions that come last leave an empty continuation behind them. *)
LEMMA LastMove ==
  ASSUME NEW w \in Seq(Instructions), w # <<>>, Shape(w), w[1].op \in LastOps
  PROVE  /\ \A prog \in Seq(Instructions) : prog \o Tail(w) = prog
         /\ Plain(w)
         /\ \A t : HoldsIn(w, t) <=> w[1].op = "resume" /\ w[1].thread = t
         /\ ~Has(w, "waitNotRunning")
         /\ w[1].op = "unregisterCheck" => Unregistering(w)
  <1>1. Len(w) \in Nat \ {0} /\ DOMAIN w = 1..Len(w)
    BY EmptySeq
  <1>2. InstrShape(w, 1)
    BY <1>1 DEF Shape
  <1>3. Len(w) = 1
    BY <1>2 DEF InstrShape
  <1>4. Tail(w) = <<>>
    BY <1>1, <1>3, HeadTailProperties, EmptySeq
  <1>5. \A prog \in Seq(Instructions) : prog \o Tail(w) = prog
    BY <1>4, ConcatEmptySeq
  <1>6. w[1].op \notin SafepointOps /\ DOMAIN w = {1}
    BY <1>1, <1>3 DEF LastOps, SafepointOps
  <1> QED BY <1>5, <1>6, PlainShape DEF HoldsIn, Has, LastOps, Unregistering

(* What a continuation inside a safepoint says. *)
LEMMA InsideSafepoint ==
  ASSUME NEW w \in Seq(Instructions), w # <<>>, Shape(w), w[1].op \in SafepointOps
  PROVE  /\ \A t : ~HoldsIn(w, t)
         /\ ~Unregistering(w) /\ ~Has(w, "waitNotRunning")
         /\ \A i \in 2..Len(w) : w[i].op \in {"writeLock", "writeUnlock", "resumeAllLock",
                                              "readLock"}
         /\ Stopping(w) <=> w[1].op \in {"writeLock", "writeUnlock", "resumeAllLock"}
  <1>1. Len(w) \in Nat \ {0} /\ DOMAIN w = 1..Len(w) /\ SafepointShape(w)
    BY EmptySeq DEF Shape
  <1>2. \A i \in 2..Len(w) : w[i].op \in {"writeLock", "writeUnlock", "resumeAllLock",
                                          "readLock"}
    <2> TAKE i \in 2..Len(w)
    <2>1. i = 2 \/ i = 3 \/ i = 4 \/ i \in 5..Len(w)
      BY <1>1
    <2> QED BY <1>1, <2>1 DEF SafepointShape, SafepointOps
  <1>3. \A i \in DOMAIN w : w[i].op \in SafepointOps \cup {"readLock"}
    <2> TAKE i \in DOMAIN w
    <2>1. i = 1 \/ i \in 2..Len(w)
      BY <1>1
    <2> QED BY <1>2, <2>1 DEF SafepointOps
  <1>4. Stopping(w) <=> w[1].op \in {"writeLock", "writeUnlock", "resumeAllLock"}
    <2>1. CASE w[1].op \in {"suspendAllLock", "suspendAll"}
      BY <2>1 DEF Stopping, First
    <2>2. CASE w[1].op = "writeLock"
      <3>1. 3 \in DOMAIN w /\ w[3].op = "resumeAllLock"
        BY <1>1, <2>2 DEF SafepointShape
      <3> QED BY <2>2, <3>1 DEF Stopping, Has, First
    <2>3. CASE w[1].op = "writeUnlock"
      <3>1. 2 \in DOMAIN w /\ w[2].op = "resumeAllLock"
        BY <1>1, <2>3 DEF SafepointShape
      <3> QED BY <2>3, <3>1 DEF Stopping, Has, First
    <2>4. CASE w[1].op = "resumeAllLock"
      <3>1. 1 \in DOMAIN w
        BY <1>1
      <3> QED BY <2>4, <3>1 DEF Stopping, Has, First
    <2>5. CASE w[1].op = "resumeAll"
      <3>1. \A i \in DOMAIN w : w[i].op # "resumeAllLock"
        BY <1>1, <2>5 DEF SafepointShape
      <3> QED BY <2>5, <3>1 DEF Stopping, Has
    <2> QED BY <2>1, <2>2, <2>3, <2>4, <2>5 DEF SafepointOps
  <1> QED BY <1>2, <1>3, <1>4 DEF HoldsIn, Unregistering, Has, SafepointOps

(* SuspendAllThreads and ResumeAllThreads begin, or do one more thread. *)
LEMMA SafepointTurn ==
  ASSUME NEW w \in Seq(Instructions), w # <<>>, Shape(w), NEW x \in Instructions,
         \/ w[1].op \in {"suspendAllLock", "suspendAll"} /\ x.op = "suspendAll"
         \/ w[1].op \in {"resumeAllLock", "resumeAll"} /\ x.op = "resumeAll"
  PROVE  LET s == <<x>> \o Tail(w) IN
         s \in Seq(Instructions) /\ s # <<>> /\ s[1] = x /\ Shape(s)
  <1> DEFINE s == <<x>> \o Tail(w)
  <1>1. <<x>> \in Seq(Instructions) /\ Len(<<x>>) = 1 /\ <<x>>[1] = x
    OBVIOUS
  <1>2. /\ s \in Seq(Instructions) /\ Len(s) = Len(w)
        /\ Len(w) \in Nat \ {0}
        /\ s[1] = x
        /\ \A i \in 2..Len(w) : s[i] = w[i]
    <2> HIDE DEF s
    <2>1. /\ s \in Seq(Instructions)
          /\ Len(s) = 1 + Len(w) - 1
          /\ Len(w) \in Nat \ {0}
          /\ \A i \in 1..1 : s[i] = <<x>>[i]
          /\ \A i \in 2..Len(w) : s[1 + i - 1] = w[i]
      BY <1>1, Replaced DEF s
    <2> QED BY <1>1, <2>1
  <1> HIDE DEF s
  <1>3. w[1].op \in SafepointOps /\ SafepointShape(w)
    BY DEF Shape, SafepointOps
  <1>4. \A i \in 2..Len(w) : w[i].op \in {"writeLock", "writeUnlock", "resumeAllLock",
                                          "readLock"}
    BY <1>3, InsideSafepoint
  <1>5. SafepointShape(s)
    BY <1>2, <1>3 DEF SafepointShape
  <1>6. \A i \in 1..Len(s) : InstrShape(s, i)
    <2> TAKE i \in 1..Len(s)
    <2>1. s[i].op \in {"suspendAll", "resumeAll", "writeLock", "writeUnlock",
                       "resumeAllLock", "readLock"}
      BY <1>2, <1>4
    <2> QED BY <2>1 DEF InstrShape, LastOps, StatusOps
  <1>7. s # <<>> /\ DOMAIN s = 1..Len(s)
    BY <1>2, EmptySeq
  <1>8. Shape(s)
    BY <1>2, <1>5, <1>6, <1>7 DEF Shape, SafepointOps
  <1> QED BY <1>2, <1>7, <1>8 DEF s

(* The instruction of a safepoint that comes next. *)
LEMMA SafepointReturn ==
  ASSUME NEW w \in Seq(Instructions), w # <<>>, Shape(w),
         w[1].op \in {"suspendAll", "writeLock", "writeUnlock", "resumeAll"}
  PROVE  LET s == <<>> \o Tail(w) IN
         /\ s \in Seq(Instructions) /\ Shape(s)
         /\ w[1].op = "suspendAll" => s # <<>> /\ s[1].op = "writeLock"
         /\ w[1].op = "writeLock" => s # <<>> /\ s[1].op = "writeUnlock"
         /\ w[1].op = "writeUnlock" => s # <<>> /\ s[1].op = "resumeAllLock"
         /\ w[1].op = "resumeAll" => /\ Plain(s) /\ ~Unregistering(s)
                                     /\ \A t : ~HoldsIn(s, t)
  <1> DEFINE s == <<>> \o Tail(w)
  <1>1. <<>> \in Seq(Instructions) /\ Len(<<>>) = 0
    OBVIOUS
  <1>2. /\ s \in Seq(Instructions) /\ Len(s) = Len(w) - 1
        /\ Len(w) \in Nat \ {0}
        /\ \A i \in 1..Len(s) : s[i] = w[i + 1]
    <2> HIDE DEF s
    <2>1. /\ s \in Seq(Instructions)
          /\ Len(s) = 0 + Len(w) - 1
          /\ Len(w) \in Nat \ {0}
          /\ \A i \in 1..Len(s) : i > 0 => s[i] = w[i - 0 + 1]
      BY <1>1, Replaced DEF s
    <2> QED BY <2>1
  <1> HIDE DEF s
  <1>3. w[1].op \in SafepointOps /\ SafepointShape(w)
    BY DEF Shape, SafepointOps
  <1>4. \A i \in 2..Len(w) : w[i].op \in {"writeLock", "writeUnlock", "resumeAllLock",
                                          "readLock"}
    BY <1>3, InsideSafepoint
  <1>5. \A i \in 1..Len(s) : InstrShape(s, i)
    <2> TAKE i \in 1..Len(s)
    <2>1. s[i].op \in {"writeLock", "writeUnlock", "resumeAllLock", "readLock"}
      BY <1>2, <1>4
    <2> QED BY <2>1 DEF InstrShape, LastOps, StatusOps
  <1>6. DOMAIN s = 1..Len(s)
    BY <1>2
  <1>7. CASE w[1].op = "resumeAll"
    <2>1. \A i \in 1..Len(s) : s[i].op = "readLock"
      BY <1>2, <1>3, <1>7 DEF SafepointShape
    <2>2. \A i \in 1..Len(s) : Neutral(s[i])
      BY <2>1 DEF Neutral
    <2> QED BY <1>2, <1>7, <2>2, NeutralProgram DEF s
  <1>8. CASE w[1].op # "resumeAll"
    <2>1. Len(s) >= 1 /\ s # <<>>
      BY <1>2, <1>3, <1>8, EmptySeq DEF SafepointShape
    <2>2. CASE w[1].op = "suspendAll"
      <3>1. /\ Len(s) >= 3 /\ s[1].op = "writeLock" /\ s[2].op = "writeUnlock"
            /\ s[3].op = "resumeAllLock"
            /\ \A i \in 4..Len(s) : s[i].op = "readLock"
        <4>1. /\ Len(w) >= 4
              /\ w[2].op = "writeLock" /\ w[3].op = "writeUnlock" /\ w[4].op = "resumeAllLock"
              /\ \A i \in 5..Len(w) : w[i].op = "readLock"
          BY <1>3, <2>2 DEF SafepointShape
        <4>2. \A i \in 4..Len(s) : i + 1 \in 5..Len(w) /\ s[i] = w[i + 1]
          BY <1>2
        <4>3. Len(s) >= 3 /\ s[1] = w[2] /\ s[2] = w[3] /\ s[3] = w[4]
          BY <1>2, <4>1
        <4> QED BY <4>1, <4>2, <4>3
      <3>2. Shape(s)
        BY <1>5, <1>6, <3>1 DEF Shape, SafepointShape, SafepointOps
      <3> QED BY <1>2, <2>1, <2>2, <3>1, <3>2 DEF s
    <2>3. CASE w[1].op = "writeLock"
      <3>1. /\ Len(s) >= 2 /\ s[1].op = "writeUnlock" /\ s[2].op = "resumeAllLock"
            /\ \A i \in 3..Len(s) : s[i].op = "readLock"
        <4>1. /\ Len(w) >= 3
              /\ w[2].op = "writeUnlock" /\ w[3].op = "resumeAllLock"
              /\ \A i \in 4..Len(w) : w[i].op = "readLock"
          BY <1>3, <2>3 DEF SafepointShape
        <4>2. \A i \in 3..Len(s) : i + 1 \in 4..Len(w) /\ s[i] = w[i + 1]
          BY <1>2
        <4>3. Len(s) >= 2 /\ s[1] = w[2] /\ s[2] = w[3]
          BY <1>2, <4>1
        <4> QED BY <4>1, <4>2, <4>3
      <3>2. Shape(s)
        BY <1>5, <1>6, <3>1 DEF Shape, SafepointShape, SafepointOps
      <3> QED BY <1>2, <2>1, <2>3, <3>1, <3>2 DEF s
    <2>4. CASE w[1].op = "writeUnlock"
      <3>1. /\ Len(s) >= 1 /\ s[1].op = "resumeAllLock"
            /\ \A i \in 2..Len(s) : s[i].op = "readLock"
        BY <1>2, <1>3, <2>4 DEF SafepointShape
      <3>2. Shape(s)
        BY <1>5, <1>6, <3>1 DEF Shape, SafepointShape, SafepointOps
      <3> QED BY <1>2, <2>1, <2>4, <3>1, <3>2 DEF s
    <2> QED BY <1>8, <2>2, <2>3, <2>4
  <1> QED BY <1>7, <1>8

-----------------------------------------------------------------------------
(* Counting actors *)

LEMMA ActorsFinite == SuspensionAssumption => IsFiniteSet(Actors)
  BY FS_AddElement DEF SuspensionAssumption, Actors

(* Two sets of actors that differ in one actor at most. *)
LEMMA Recount ==
  ASSUME SuspensionAssumption, NEW S \in SUBSET Actors, NEW T \in SUBSET Actors,
         NEW a \in Actors, S \ {a} = T \ {a}
  PROVE  /\ Cardinality(S) \in Nat /\ Cardinality(T) \in Nat
         /\ (a \in S <=> a \in T) => Cardinality(T) = Cardinality(S)
         /\ a \notin S /\ a \in T => Cardinality(T) = Cardinality(S) + 1
         /\ a \in S /\ a \notin T => Cardinality(S) = Cardinality(T) + 1
  <1>1. IsFiniteSet(S) /\ IsFiniteSet(T)
    BY ActorsFinite, FS_Subset
  <1>2. Cardinality(S) \in Nat /\ Cardinality(T) \in Nat
    BY <1>1, FS_CardinalityType
  <1>3. ASSUME a \in S <=> a \in T
        PROVE  Cardinality(T) = Cardinality(S)
    <2>1. S = T
      BY <1>3
    <2> QED BY <2>1
  <1>4. ASSUME a \notin S, a \in T
        PROVE  Cardinality(T) = Cardinality(S) + 1
    <2>1. T = S \cup {a}
      BY <1>4
    <2> QED BY <1>1, <1>4, <2>1, FS_AddElement
  <1>5. ASSUME a \in S, a \notin T
        PROVE  Cardinality(S) = Cardinality(T) + 1
    <2>1. S = T \cup {a}
      BY <1>5
    <2> QED BY <1>1, <1>5, <2>1, FS_AddElement
  <1> QED BY <1>2, <1>3, <1>4, <1>5

LEMMA Positive ==
  ASSUME SuspensionAssumption, NEW S \in SUBSET Actors
  PROVE  Cardinality(S) \in Nat /\ (Cardinality(S) > 0 <=> S # {})
  <1>1. IsFiniteSet(S)
    BY ActorsFinite, FS_Subset
  <1> QED BY <1>1, FS_CardinalityType, FS_EmptySet

(* The continuation of a alone changes, from f[a] to g[a]. *)
LEMMA RecountHolds ==
  ASSUME SuspensionAssumption, NEW f, NEW g, NEW a \in Actors,
         \A b \in Actors \ {a} : g[b] = f[b], NEW t
  PROVE  /\ Cardinality(HoldSet(f, t)) \in Nat /\ Cardinality(HoldSet(g, t)) \in Nat
         /\ (HoldsIn(f[a], t) <=> HoldsIn(g[a], t)) =>
              Cardinality(HoldSet(g, t)) = Cardinality(HoldSet(f, t))
         /\ ~HoldsIn(f[a], t) /\ HoldsIn(g[a], t) =>
              Cardinality(HoldSet(g, t)) = Cardinality(HoldSet(f, t)) + 1
         /\ HoldsIn(f[a], t) /\ ~HoldsIn(g[a], t) =>
              Cardinality(HoldSet(f, t)) = Cardinality(HoldSet(g, t)) + 1
  <1> DEFINE S == HoldSet(f, t)
             T == HoldSet(g, t)
  <1>1. /\ S \in SUBSET Actors /\ T \in SUBSET Actors
        /\ \A b \in Actors : b \in S <=> HoldsIn(f[b], t)
        /\ \A b \in Actors : b \in T <=> HoldsIn(g[b], t)
    BY DEF HoldSet
  <1> HIDE DEF S, T
  <1>2. S \ {a} = T \ {a}
    <2>1. \A b \in Actors \ {a} : b \in S <=> b \in T
      BY <1>1
    <2> QED BY <1>1, <2>1
  <1> QED BY <1>1, <1>2, Recount DEF S, T

LEMMA RecountStops ==
  ASSUME SuspensionAssumption, NEW f, NEW g, NEW a \in Actors,
         \A b \in Actors \ {a} : g[b] = f[b]
  PROVE  /\ Cardinality(StopSet(f)) \in Nat /\ Cardinality(StopSet(g)) \in Nat
         /\ (Stopping(f[a]) <=> Stopping(g[a])) =>
              Cardinality(StopSet(g)) = Cardinality(StopSet(f))
         /\ ~Stopping(f[a]) /\ Stopping(g[a]) =>
              Cardinality(StopSet(g)) = Cardinality(StopSet(f)) + 1
         /\ Stopping(f[a]) /\ ~Stopping(g[a]) =>
              Cardinality(StopSet(f)) = Cardinality(StopSet(g)) + 1
  <1> DEFINE S == StopSet(f)
             T == StopSet(g)
  <1>1. /\ S \in SUBSET Actors /\ T \in SUBSET Actors
        /\ \A b \in Actors : b \in S <=> Stopping(f[b])
        /\ \A b \in Actors : b \in T <=> Stopping(g[b])
    BY DEF StopSet
  <1> HIDE DEF S, T
  <1>2. S \ {a} = T \ {a}
    <2>1. \A b \in Actors \ {a} : b \in S <=> b \in T
      BY <1>1
    <2> QED BY <1>1, <2>1
  <1> QED BY <1>1, <1>2, Recount DEF S, T

LEMMA RecountCovers ==
  ASSUME SuspensionAssumption, NEW f, NEW g, NEW a \in Actors,
         \A b \in Actors \ {a} : g[b] = f[b], NEW t, NEW R, NEW Q, t \in R <=> t \in Q
  PROVE  LET c == CoversIn(f[a], a, t, R)
             d == CoversIn(g[a], a, t, Q)
         IN
         /\ Cardinality(CoverSet(f, t, R)) \in Nat /\ Cardinality(CoverSet(g, t, Q)) \in Nat
         /\ (c <=> d) => Cardinality(CoverSet(g, t, Q)) = Cardinality(CoverSet(f, t, R))
         /\ ~c /\ d => Cardinality(CoverSet(g, t, Q)) = Cardinality(CoverSet(f, t, R)) + 1
         /\ c /\ ~d => Cardinality(CoverSet(f, t, R)) = Cardinality(CoverSet(g, t, Q)) + 1
  <1> DEFINE S == CoverSet(f, t, R)
             T == CoverSet(g, t, Q)
             c == CoversIn(f[a], a, t, R)
             d == CoversIn(g[a], a, t, Q)
  <1>1. /\ S \in SUBSET Actors /\ T \in SUBSET Actors
        /\ \A b \in Actors : b \in S <=> CoversIn(f[b], b, t, R)
        /\ \A b \in Actors : b \in T <=> CoversIn(g[b], b, t, Q)
    BY DEF CoverSet
  <1>2. S \ {a} = T \ {a}
    <2> HIDE DEF S, T
    <2>1. \A b \in Actors \ {a} : CoversIn(f[b], b, t, R) <=> CoversIn(g[b], b, t, Q)
      BY DEF CoversIn
    <2>2. \A b \in Actors \ {a} : b \in S <=> b \in T
      BY <1>1, <2>1
    <2> QED BY <1>1, <2>2
  <1>3. (a \in S <=> c) /\ (a \in T <=> d)
    BY <1>1
  <1> HIDE DEF S, T, c, d
  <1>4. /\ Cardinality(S) \in Nat /\ Cardinality(T) \in Nat
        /\ (c <=> d) => Cardinality(T) = Cardinality(S)
        /\ ~c /\ d => Cardinality(T) = Cardinality(S) + 1
        /\ c /\ ~d => Cardinality(S) = Cardinality(T) + 1
    BY <1>1, <1>2, <1>3, Recount
  <1> QED BY <1>4 DEF S, T, c, d

(* Who is suspended is asked to suspend; who is not asked is suspended by nobody. *)
LEMMA RequestMeans ==
  ASSUME SuspensionAssumption, CountInv, NEW t \in Threads \ deleted
  PROVE  suspend_request[t] <=>
           \E a \in Actors : CoversIn(work[a], a, t, threads_) \/ HoldsIn(work[a], t)
  <1>1. /\ CoverSet(work, t, threads_) \in SUBSET Actors
        /\ HoldSet(work, t) \in SUBSET Actors
    BY DEF CoverSet, HoldSet
  <1>2. /\ Cardinality(CoverSet(work, t, threads_)) \in Nat
        /\ Cardinality(CoverSet(work, t, threads_)) > 0 <=> CoverSet(work, t, threads_) # {}
    BY <1>1, Positive
  <1>3. /\ Cardinality(HoldSet(work, t)) \in Nat
        /\ Cardinality(HoldSet(work, t)) > 0 <=> HoldSet(work, t) # {}
    BY <1>1, Positive
  <1>4. suspend_request[t] = (Cardinality(CoverSet(work, t, threads_))
                               + Cardinality(HoldSet(work, t)) > 0)
    BY DEF CountInv
  <1>5. suspend_request[t] <=> CoverSet(work, t, threads_) # {} \/ HoldSet(work, t) # {}
    <2>1. (Cardinality(CoverSet(work, t, threads_)) + Cardinality(HoldSet(work, t)) > 0)
            <=> CoverSet(work, t, threads_) # {} \/ HoldSet(work, t) # {}
      BY <1>2, <1>3
    <2> QED BY <1>4, <2>1, Zenon
  <1> QED BY <1>5 DEF CoverSet, HoldSet

-----------------------------------------------------------------------------
(* The steps, by what they do to their actor's continuation *)

(* The first instruction of an actor that is not in its own code. *)
LEMMA FirstInstr ==
  ASSUME TypeOK, ShapeInv, NEW a \in Actors
  PROVE  /\ work[a] \in Seq(Instructions) /\ Shape(work[a])
         /\ \A op : At(a, op) <=> First(work[a], op)
         /\ work[a] # <<>> =>
              /\ Arg(a) = work[a][1] /\ work[a][1] \in Instructions
              /\ 1 \in DOMAIN work[a] /\ InstrShape(work[a], 1)
  <1>1. work[a] \in Seq(Instructions) /\ Shape(work[a])
    BY DEF TypeOK, ShapeInv
  <1>2. work[a] # <<>> => Head(work[a]) = work[a][1] /\ 1 \in DOMAIN work[a]
    BY <1>1, EmptySeq
  <1>3. work[a] # <<>> => work[a][1] \in Instructions /\ InstrShape(work[a], 1)
    BY <1>1, <1>2 DEF Shape
  <1> QED BY <1>1, <1>2, <1>3 DEF At, First, Arg

(* Steps that put status changes in the place of the first instruction. *)
NeutralStep(t) ==
  Update(t) \/ Store(t) \/ StoreIfNoFlags(t) \/ MutatorReadLock(t) \/ Poll(t) \/ Resumed(t)
    \/ ThreadIsSuspended(t) \/ UnregisterEnter(t)

LEMMA NeutralStepProgram ==
  ASSUME TypeOK, ShapeInv, CreatedInv, NEW t \in Threads, NeutralStep(t)
  PROVE  /\ work[t] # <<>>
         /\ work[t][1].op \in StatusOps \cup {"readLock", "poll", "awaitResume",
                                              "waitNotRunning", "unregisterLock"}
         /\ work[t][1].op = "waitNotRunning" => ThreadIsSuspended(t)
         /\ work[t][1].op = "unregisterLock" => UnregisterEnter(t)
         /\ \E prog \in Seq(Instructions) :
              /\ \A i \in 1..Len(prog) : Neutral(prog[i])
              /\ work' = [work EXCEPT ![t] = prog \o Tail(@)]
  <1> USE DEF StatusOps
  <1>1. t \in Actors
    BY DEF Actors
  <1>2. /\ \A op : At(t, op) <=> First(work[t], op)
        /\ work[t] # <<>> => /\ Arg(t) = work[t][1] /\ work[t][1] \in Instructions
                             /\ InstrShape(work[t], 1)
    BY <1>1, FirstInstr
  <1>3. <<>> \in Seq(Instructions) /\ \A i \in 1..Len(<<>>) : Neutral(<<>>[i])
    OBVIOUS
  <1>4. ASSUME NEW x \in Instructions, Neutral(x)
        PROVE  <<x>> \in Seq(Instructions) /\ \A i \in 1..Len(<<x>>) : Neutral(<<x>>[i])
    BY <1>4
  <1>5. ASSUME work[t] # <<>>, work[t][1].op \notin {"update"}
        PROVE  LET p == WaitSuspension(status[t]) IN
               /\ p \in Seq(Instructions) /\ Len(p) = 3
               /\ Neutral(p[1]) /\ Neutral(p[2]) /\ Neutral(p[3])
    <2>1. status[t] \in Statuses /\ status[t] # "CREATED"
      BY <1>5 DEF TypeOK, CreatedInv
    <2>2. /\ UpdateStatus("IS_SUSPENDED") \in Instructions /\ AwaitResume \in Instructions
          /\ UpdateStatus(status[t]) \in Instructions
      BY <2>1, InstrMade DEF Statuses
    <2>3. /\ Neutral(UpdateStatus("IS_SUSPENDED")) /\ Neutral(AwaitResume)
          /\ Neutral(UpdateStatus(status[t]))
      BY <2>1 DEF Neutral, UpdateStatus, AwaitResume
    <2> QED BY <2>2, <2>3 DEF WaitSuspension
  <1>6. CASE Update(t)
    <2>1. work[t] # <<>> /\ work[t][1].op = "update" /\ Arg(t) = work[t][1]
      BY <1>2, <1>6 DEF Update, First
    <2> DEFINE s == Arg(t).status
    <2>2. s \in Statuses /\ s # "CREATED"
      BY <1>2, <2>1, InstrFields DEF InstrShape
    <2>3. \/ s # "RUNNING" /\ Do(t, <<StoreStatus(s)>>)
          \/ Do(t, <<StoreStatusWithSafepoint(s), ReadLock>>)
          \/ Do(t, <<StoreStatusWithSafepoint(s)>>)
          \/ Do(t, <<>>)
      BY <1>6 DEF Update, Return
    <2>4. /\ StoreStatus(s) \in Instructions /\ StoreStatusWithSafepoint(s) \in Instructions
          /\ ReadLock \in Instructions
      BY <2>2, InstrMade
    <2>5. /\ Neutral(StoreStatusWithSafepoint(s)) /\ Neutral(ReadLock)
          /\ s # "RUNNING" => Neutral(StoreStatus(s))
      BY <2>2 DEF Neutral, StoreStatus, StoreStatusWithSafepoint, ReadLock
    <2> HIDE DEF s
    <2>6. CASE s # "RUNNING" /\ Do(t, <<StoreStatus(s)>>)
      BY <1>4, <2>1, <2>4, <2>5, <2>6 DEF Do
    <2>7. CASE Do(t, <<StoreStatusWithSafepoint(s), ReadLock>>)
      <3> DEFINE p == <<StoreStatusWithSafepoint(s), ReadLock>>
      <3>1. p \in Seq(Instructions) /\ \A i \in 1..Len(p) : Neutral(p[i])
        BY <2>4, <2>5
      <3> HIDE DEF p
      <3> QED BY <2>1, <2>7, <3>1 DEF Do, p
    <2>8. CASE Do(t, <<StoreStatusWithSafepoint(s)>>)
      BY <1>4, <2>1, <2>4, <2>5, <2>8 DEF Do
    <2>9. CASE Do(t, <<>>)
      BY <1>3, <2>1, <2>9 DEF Do
    <2> QED BY <2>3, <2>6, <2>7, <2>8, <2>9
  <1>7. CASE Store(t)
    <2>1. work[t] # <<>> /\ work[t][1].op = "store" /\ Do(t, <<>>)
      BY <1>2, <1>7 DEF Store, First, Return
    <2> QED BY <1>3, <2>1 DEF Do
  <1>8. CASE StoreIfNoFlags(t)
    <2>1. /\ work[t] # <<>> /\ work[t][1].op = "storeWithSafepoint" /\ Arg(t) = work[t][1]
          /\ Do(t, WaitSuspension(status[t]) \o <<Arg(t)>>) \/ Do(t, <<>>)
      BY <1>2, <1>8 DEF StoreIfNoFlags, First, Return
    <2>2. CASE Do(t, <<>>)
      BY <1>3, <2>1, <2>2 DEF Do
    <2>3. CASE Do(t, WaitSuspension(status[t]) \o <<Arg(t)>>)
      <3> DEFINE p == WaitSuspension(status[t])
                 r == <<Arg(t)>>
                 q == p \o r
      <3>1. p \in Seq(Instructions) /\ Len(p) = 3 /\ Neutral(p[1]) /\ Neutral(p[2]) /\ Neutral(p[3])
        BY <1>5, <2>1
      <3>2. r \in Seq(Instructions) /\ Len(r) = 1 /\ Neutral(r[1])
        BY <1>2, <2>1 DEF InstrShape, Neutral
      <3> HIDE DEF p, r
      <3>3. /\ q \in Seq(Instructions) /\ Len(q) = 4
            /\ \A i \in 1..4 : q[i] = IF i <= 3 THEN p[i] ELSE r[i - 3]
        <4>1. /\ p \o r \in Seq(Instructions) /\ Len(p \o r) = Len(p) + Len(r)
              /\ \A i \in 1..(Len(p) + Len(r)) :
                   (p \o r)[i] = IF i <= Len(p) THEN p[i] ELSE r[i - Len(p)]
          BY <3>1, <3>2, ConcatProperties
        <4> HIDE DEF q
        <4> QED BY <3>1, <3>2, <4>1 DEF q
      <3> HIDE DEF q
      <3>4. \A i \in 1..Len(q) : Neutral(q[i])
        <4>1. q[1] = p[1] /\ q[2] = p[2] /\ q[3] = p[3] /\ q[4] = r[1]
          BY <3>3
        <4> QED BY <3>1, <3>2, <3>3, <4>1
      <3> QED BY <2>1, <2>3, <3>3, <3>4 DEF Do, p, q, r
    <2> QED BY <2>1, <2>2, <2>3
  <1>9. CASE MutatorReadLock(t)
    <2>1. work[t] # <<>> /\ work[t][1].op = "readLock" /\ Do(t, <<>>)
      BY <1>2, <1>9 DEF MutatorReadLock, First, Return
    <2> QED BY <1>3, <2>1 DEF Do
  <1>10. CASE Poll(t)
    <2>1. /\ work[t] # <<>> /\ work[t][1].op = "poll"
          /\ Do(t, WaitSuspension(status[t])) \/ Do(t, <<>>)
      BY <1>2, <1>10 DEF Poll, First
    <2>2. CASE Do(t, <<>>)
      BY <1>3, <2>1, <2>2 DEF Do
    <2>3. CASE Do(t, WaitSuspension(status[t]))
      <3> DEFINE p == WaitSuspension(status[t])
      <3>1. p \in Seq(Instructions) /\ Len(p) = 3 /\ Neutral(p[1]) /\ Neutral(p[2]) /\ Neutral(p[3])
        BY <1>5, <2>1
      <3> HIDE DEF p
      <3>2. \A i \in 1..Len(p) : Neutral(p[i])
        BY <3>1
      <3> QED BY <2>1, <2>3, <3>1, <3>2 DEF Do, p
    <2> QED BY <2>1, <2>2, <2>3
  <1>11. CASE Resumed(t)
    <2>1. work[t] # <<>> /\ work[t][1].op = "awaitResume" /\ Do(t, <<>>)
      BY <1>2, <1>11 DEF Resumed, First, Return
    <2> QED BY <1>3, <2>1 DEF Do
  <1>12. CASE ThreadIsSuspended(t)
    <2>1. work[t] # <<>> /\ work[t][1].op = "waitNotRunning" /\ Do(t, <<>>)
      BY <1>2, <1>12 DEF ThreadIsSuspended, First, Return
    <2> QED BY <1>3, <1>12, <2>1 DEF Do
  <1>13. CASE UnregisterEnter(t)
    <2>1. work[t] # <<>> /\ work[t][1].op = "unregisterLock" /\ Do(t, <<>>)
      BY <1>2, <1>13 DEF UnregisterEnter, First, Return
    <2> QED BY <1>3, <1>13, <2>1 DEF Do
  <1> QED BY <1>6, <1>7, <1>8, <1>9, <1>10, <1>11, <1>12, <1>13 DEF NeutralStep

(* A step of a that begins and ends outside of a safepoint and leaves the suspensions
   by id as they are. *)
Calm(a) ==
  \E s \in Seq(Instructions) :
    /\ work' = [work EXCEPT ![a] = s]
    /\ Shape(s) /\ Plain(work[a]) /\ Plain(s)
    /\ \A t \in Threads : HoldsIn(s, t) <=> HoldsIn(work[a], t)
    /\ Unregistering(s) => thread_lock_' = a

(* Nobody but a takes thread_lock_, and only a releases it. *)
LockFair(a) == thread_lock_ \notin {Nobody, a} => thread_lock_' = thread_lock_

LEMMA WorkOfOthers ==
  ASSUME TypeOK, NEW a \in Actors, NEW s \in Seq(Instructions), work' = [work EXCEPT ![a] = s]
  PROVE  /\ work' \in [Actors -> Seq(Instructions)]
         /\ work'[a] = s /\ \A b \in Actors \ {a} : work'[b] = work[b]
  BY DEF TypeOK

(* Whoever holds the mutator lock exclusively is in a safepoint. *)
LEMMA PlainNotWriter ==
  ASSUME TypeOK, ShapeInv, WriterInv, NEW a \in Actors, Plain(work[a])
  PROVE  mutator_writer # a \/ a = Nobody
  <1>1. SUFFICES ASSUME mutator_writer = a, a # Nobody PROVE FALSE
    OBVIOUS
  <1>2. First(work[a], "writeUnlock")
    BY <1>1 DEF WriterInv
  <1>3. work[a] \in Seq(Instructions) /\ Shape(work[a])
    BY FirstInstr
  <1>4. work[a] # <<>> /\ work[a][1].op = "writeUnlock"
    BY <1>2 DEF First
  <1>5. Stopping(work[a])
    BY <1>3, <1>4, InsideSafepoint DEF SafepointOps
  <1> QED BY <1>5 DEF Plain

(* What a calm step does not disturb, whether or not it changes the registry. *)
LEMMA CalmKeepsShape ==
  ASSUME TypeOK, ShapeInv, LockInv, WriterInv, NEW a \in Actors, Calm(a), LockFair(a),
         SuspensionAssumption, UNCHANGED mutator_writer,
         mutator_writer # Nobody => mutator_readers' \subseteq mutator_readers,
         \A b \in Actors \ {a} : thread_lock_ = b => threads_' = threads_
  PROVE  work' \in [Actors -> Seq(Instructions)] /\ ShapeInv' /\ LockInv' /\ WriterInv'
  <1>1. PICK s \in Seq(Instructions) :
          /\ work' = [work EXCEPT ![a] = s]
          /\ Shape(s) /\ Plain(work[a]) /\ Plain(s)
          /\ Unregistering(s) => thread_lock_' = a
    BY DEF Calm
  <1>2. /\ work' \in [Actors -> Seq(Instructions)]
        /\ work'[a] = s /\ \A b \in Actors \ {a} : work'[b] = work[b]
    BY <1>1, WorkOfOthers
  <1>3. ShapeInv'
    BY <1>1, <1>2 DEF ShapeInv
  <1>4. LockInv'
    <2>1. SUFFICES ASSUME NEW b \in Actors
                   PROVE  /\ First(work'[b], "suspendAll") \/ First(work'[b], "resumeAll") =>
                               thread_lock_' = b /\ work'[b][1].todo \subseteq threads_' \ {b}
                          /\ Unregistering(work'[b]) => thread_lock_' = b
      BY DEF LockInv
    <2>2. CASE b = a
      BY <1>1, <1>2, <2>2 DEF Plain
    <2>3. CASE b # a
      <3>1. work'[b] = work[b] /\ b # Nobody
        BY <1>2, <2>3 DEF SuspensionAssumption, Actors
      <3>2. thread_lock_ = b => thread_lock_' = b /\ threads_' = threads_
        BY <2>3, <3>1 DEF LockFair
      <3> QED BY <3>1, <3>2 DEF LockInv
    <2> QED BY <2>2, <2>3
  <1>5. WriterInv'
    <2>1. SUFFICES ASSUME mutator_writer # Nobody
                   PROVE  First(work'[mutator_writer], "writeUnlock") /\ mutator_readers' = {}
      BY DEF WriterInv
    <2>2. mutator_writer \in Actors /\ mutator_writer # a
      BY <1>1, <2>1, PlainNotWriter DEF TypeOK
    <2> QED BY <1>2, <2>1, <2>2 DEF WriterInv
  <1> QED BY <1>2, <1>3, <1>4, <1>5

(* The suspensions in force on a thread that stays registered, or stays out. *)
LEMMA CalmKeepsSets ==
  ASSUME TypeOK, NEW a \in Actors, Calm(a), SuspensionAssumption
  PROVE  /\ Cardinality(StopSet(work')) = Cardinality(StopSet(work))
         /\ \A t \in Threads :
              /\ Cardinality(HoldSet(work', t)) = Cardinality(HoldSet(work, t))
              /\ (t \in threads_ <=> t \in threads_') =>
                   Cardinality(CoverSet(work', t, threads_'))
                     = Cardinality(CoverSet(work, t, threads_))
         /\ \A b \in Actors, t \in Threads : HoldsIn(work'[b], t) <=> HoldsIn(work[b], t)
  <1>1. PICK s \in Seq(Instructions) :
          /\ work' = [work EXCEPT ![a] = s]
          /\ Plain(work[a]) /\ Plain(s)
          /\ \A t \in Threads : HoldsIn(s, t) <=> HoldsIn(work[a], t)
    BY DEF Calm
  <1>2. work'[a] = s /\ \A b \in Actors \ {a} : work'[b] = work[b]
    BY <1>1, WorkOfOthers
  <1> DEFINE f == work
             g == work'
             R == threads_
             Q == threads_'
  <1>3. /\ \A b \in Actors \ {a} : g[b] = f[b]
        /\ Plain(f[a]) /\ Plain(g[a])
        /\ \A t \in Threads : HoldsIn(f[a], t) <=> HoldsIn(g[a], t)
    BY <1>1, <1>2
  <1> HIDE DEF f, g, R, Q
  <1>4. Cardinality(StopSet(g)) = Cardinality(StopSet(f))
    <2>1. Stopping(f[a]) <=> Stopping(g[a])
      BY <1>3 DEF Plain
    <2> QED BY <1>3, <2>1, RecountStops
  <1>5. ASSUME NEW t \in Threads
        PROVE  /\ Cardinality(HoldSet(g, t)) = Cardinality(HoldSet(f, t))
               /\ (t \in R <=> t \in Q) =>
                    Cardinality(CoverSet(g, t, Q)) = Cardinality(CoverSet(f, t, R))
    <2>1. Cardinality(HoldSet(g, t)) = Cardinality(HoldSet(f, t))
      BY <1>3, RecountHolds
    <2>2. ~CoversIn(f[a], a, t, R) /\ ~CoversIn(g[a], a, t, Q)
      BY <1>3 DEF CoversIn, Plain
    <2>3. (t \in R <=> t \in Q) =>
            Cardinality(CoverSet(g, t, Q)) = Cardinality(CoverSet(f, t, R))
      BY <1>3, <2>2, RecountCovers
    <2> QED BY <2>1, <2>3
  <1>6. \A b \in Actors, t \in Threads : HoldsIn(work'[b], t) <=> HoldsIn(work[b], t)
    BY <1>1, <1>2
  <1> QED BY <1>4, <1>5, <1>6 DEF f, g, R, Q

LEMMA CalmKeepsCount ==
  ASSUME TypeOK, CountInv, HeldInv, NEW a \in Actors, Calm(a), SuspensionAssumption,
         UNCHANGED <<suspend_count_, suspend_request, suspend_new_count_, threads_, deleted>>
  PROVE  CountInv' /\ HeldInv'
  <1>1. /\ Cardinality(StopSet(work')) = Cardinality(StopSet(work))
        /\ \A t \in Threads :
             /\ Cardinality(HoldSet(work', t)) = Cardinality(HoldSet(work, t))
             /\ Cardinality(CoverSet(work', t, threads_'))
                  = Cardinality(CoverSet(work, t, threads_))
        /\ \A b \in Actors, t \in Threads : HoldsIn(work'[b], t) <=> HoldsIn(work[b], t)
    BY CalmKeepsSets
  <1>2. CountInv'
    BY <1>1 DEF CountInv
  <1>3. HeldInv'
    BY <1>1 DEF HeldInv
  <1> QED BY <1>2, <1>3

(* The steps that leave every suspension as it is. *)

LEMMA NeutralStepCalm ==
  ASSUME TypeOK, ShapeInv, LockInv, CreatedInv, NEW t \in Threads, NeutralStep(t)
  PROVE  Calm(t)
  <1>1. t \in Actors
    BY DEF Actors
  <1>2. work[t] \in Seq(Instructions) /\ Shape(work[t])
    BY <1>1, FirstInstr
  <1>3. /\ work[t] # <<>>
        /\ work[t][1].op \in StatusOps \cup {"readLock", "poll", "awaitResume",
                                             "waitNotRunning", "unregisterLock"}
        /\ work[t][1].op = "unregisterLock" => UnregisterEnter(t)
    BY NeutralStepProgram
  <1>4. PICK prog \in Seq(Instructions) :
          /\ \A i \in 1..Len(prog) : Neutral(prog[i])
          /\ work' = [work EXCEPT ![t] = prog \o Tail(@)]
    BY NeutralStepProgram
  <1> DEFINE s == prog \o Tail(work[t])
  <1>5. /\ s \in Seq(Instructions)
        /\ Shape(s) /\ Plain(work[t]) /\ Plain(s)
        /\ \A u : HoldsIn(s, u) <=> HoldsIn(work[t], u)
        /\ Unregistering(s) => Unregistering(work[t]) \/ work[t][1].op = "unregisterLock"
    BY <1>2, <1>3, <1>4, NeutralMove
  <1>6. work' = [work EXCEPT ![t] = s]
    BY <1>4
  <1> HIDE DEF s
  <1>7. Unregistering(s) => thread_lock_' = t
    <2>1. CASE UnregisterEnter(t)
      BY <2>1 DEF UnregisterEnter
    <2>2. CASE ~UnregisterEnter(t)
      <3>1. thread_lock_' = thread_lock_
        BY <2>2 DEF NeutralStep, Update, Store, StoreIfNoFlags, MutatorReadLock, Poll,
                    Resumed, ThreadIsSuspended
      <3> QED BY <1>1, <1>3, <1>5, <2>2, <3>1 DEF LockInv
    <2> QED BY <2>1, <2>2
  <1> QED BY <1>5, <1>6, <1>7 DEF Calm

(* An actor in its own code begins something. *)
LEMMA BeginCalm ==
  ASSUME TypeOK, NEW a \in Actors, Idle(a), NEW p \in Seq(Instructions), Begin(a, p),
         Shape(p), Plain(p), ~Unregistering(p), \A t : ~HoldsIn(p, t)
  PROVE  Calm(a)
  <1>1. work[a] = <<>>
    BY DEF Idle
  <1>2. Plain(work[a]) /\ \A t : ~HoldsIn(work[a], t)
    BY <1>1 DEF Plain, Stopping, First, Has, HoldsIn
  <1> QED BY <1>2 DEF Calm, Begin

LEMMA OneUpdate ==
  ASSUME NEW x \in {UpdateStatus("NATIVE"), UpdateStatus("RUNNING"), SafepointPoll}
  PROVE  LET p == <<x>> IN
         /\ p \in Seq(Instructions) /\ Shape(p) /\ Plain(p) /\ ~Unregistering(p)
         /\ \A t : ~HoldsIn(p, t)
  <1>1. x \in Instructions
    BY InstrMade DEF Statuses
  <1>2. Neutral(x)
    BY DEF Neutral, UpdateStatus, SafepointPoll, StatusOps
  <1> DEFINE p == <<x>>
  <1>3. p \in Seq(Instructions) /\ \A i \in 1..Len(p) : Neutral(p[i])
    BY <1>1, <1>2
  <1> HIDE DEF p
  <1> QED BY <1>3, NeutralProgram DEF p

LEMMA CallCalm ==
  ASSUME TypeOK, NEW a \in Actors, Call(a)
  PROVE  Calm(a) /\ Idle(a)
  <1>1. CASE StartSafepoint(a)
    <2>1. Idle(a)
      BY <1>1 DEF StartSafepoint
    <2>2. PICK p \in {Safepoint, Safepoint \o <<ReadLock>>} : Begin(a, p)
      BY <1>1 DEF StartSafepoint
    <2> QED BY <2>1, <2>2, SafepointProgram, BeginCalm
  <1>2. CASE a \in Threads /\ RegisterThread(a)
    <2>1. Idle(a) /\ Begin(a, <<UpdateStatus("NATIVE")>>)
      BY <1>2 DEF RegisterThread
    <2> QED BY <2>1, OneUpdate, BeginCalm
  <1>3. CASE a \in Threads /\ ManagedCodePolls(a)
    <2>1. Idle(a) /\ Begin(a, <<SafepointPoll>>)
      BY <1>3 DEF ManagedCodePolls
    <2> QED BY <2>1, OneUpdate, BeginCalm
  <1>4. CASE a \in Threads /\ SwitchCode(a)
    <2>1. Idle(a) /\ (Begin(a, <<UpdateStatus("NATIVE")>>) \/ Begin(a, <<UpdateStatus("RUNNING")>>))
      BY <1>4 DEF SwitchCode
    <2>2. CASE Begin(a, <<UpdateStatus("NATIVE")>>)
      BY <2>1, <2>2, OneUpdate, BeginCalm
    <2>3. CASE Begin(a, <<UpdateStatus("RUNNING")>>)
      BY <2>1, <2>3, OneUpdate, BeginCalm
    <2> QED BY <2>1, <2>2, <2>3
  <1>5. CASE a \in Threads /\ Destroy(a)
    <2>1. Idle(a) /\ Begin(a, DestroyBody)
      BY <1>5 DEF Destroy
    <2> QED BY <2>1, DestroyProgram, BeginCalm
  <1>6. ASSUME a \in Threads, NEW owner \in Threads, SuspendOwner(a, owner)
        PROVE  Calm(a) /\ Idle(a)
    <2>1. Idle(a) /\ Begin(a, TryFirst(owner))
      BY <1>6 DEF SuspendOwner, TryFirst
    <2> QED BY <1>6, <2>1, TryProgram, BeginCalm
  <1> QED BY <1>1, <1>2, <1>3, <1>4, <1>5, <1>6 DEF Call

(* The last instruction of a continuation is replaced by a program that holds nothing. *)
LEMMA LastCalm ==
  ASSUME TypeOK, ShapeInv, NEW a \in Actors, NEW op \in LastOps \ {"resume"}, At(a, op),
         NEW p \in Seq(Instructions), Do(a, p),
         Shape(p), Plain(p), ~Unregistering(p), \A t : ~HoldsIn(p, t)
  PROVE  Calm(a)
  <1>1. work[a] \in Seq(Instructions) /\ Shape(work[a]) /\ work[a] # <<>> /\ work[a][1].op = op
    BY FirstInstr DEF First
  <1>2. /\ p \o Tail(work[a]) = p
        /\ Plain(work[a])
        /\ \A t : ~HoldsIn(work[a], t)
    BY <1>1, LastMove
  <1> QED BY <1>2 DEF Calm, Do

LEMMA EmptyProgram ==
  LET p == <<>> IN
  /\ p \in Seq(Instructions) /\ Shape(p) /\ Plain(p) /\ ~Unregistering(p)
  /\ \A t : ~HoldsIn(p, t)
  BY DEF Shape, Plain, Stopping, First, Has, Unregistering, HoldsIn

LEMMA OwnerGoneProgram ==
  LET p == OwnerGone IN
  /\ p \in Seq(Instructions) /\ Shape(p) /\ Plain(p) /\ ~Unregistering(p)
  /\ \A t : ~HoldsIn(p, t)
  <1>1. UpdateStatus("NATIVE") \in Instructions /\ UpdateStatus("RUNNING") \in Instructions
    BY InstrMade DEF Statuses
  <1>2. Neutral(UpdateStatus("NATIVE")) /\ Neutral(UpdateStatus("RUNNING"))
    BY DEF Neutral, UpdateStatus, StatusOps
  <1>3. OwnerGone \in Seq(Instructions) /\ \A i \in 1..Len(OwnerGone) : Neutral(OwnerGone[i])
    BY <1>1, <1>2 DEF OwnerGone
  <1> HIDE DEF OwnerGone
  <1> QED BY <1>3, NeutralProgram

(* SuspendAndWaitThreadByInternalThreadId suspends the owner, or changes nothing. *)
Suspends(t, owner) ==
  /\ owner \in threads_ /\ ~suspend_request[t]
  /\ IncSuspended(owner)
  /\ work' = [work EXCEPT ![t] = Suspended(owner)]

LEMMA SuspendThreadSplit ==
  ASSUME TypeOK, ShapeInv, NEW t \in Threads, SuspendThreadById(t)
  PROVE  /\ First(work[t], "suspendThread")
         /\ \/ Calm(t) /\ UNCHANGED <<suspend_count_, suspend_request>>
            \/ \E owner \in Threads : Suspends(t, owner)
  <1>1. t \in Actors
    BY DEF Actors
  <1>2. At(t, "suspendThread") /\ "suspendThread" \in LastOps \ {"resume"}
    BY DEF SuspendThreadById, LastOps
  <1>3. /\ work[t] \in Seq(Instructions) /\ Shape(work[t]) /\ First(work[t], "suspendThread")
        /\ work[t] # <<>> /\ work[t][1].op = "suspendThread"
        /\ Arg(t) = work[t][1] /\ work[t][1] \in Instructions
    BY <1>1, <1>2, FirstInstr DEF First
  <1>4. Arg(t).thread \in Threads
    BY <1>3, InstrFields
  <1>5. CASE Do(t, OwnerGone) /\ UNCHANGED <<suspend_count_, suspend_request>>
    BY <1>1, <1>2, <1>3, <1>5, OwnerGoneProgram, LastCalm
  <1>6. CASE Do(t, TryAgain(Arg(t).thread)) /\ UNCHANGED <<suspend_count_, suspend_request>>
    BY <1>1, <1>2, <1>3, <1>4, <1>6, TryProgram, LastCalm
  <1>7. CASE /\ Arg(t).thread \in threads_ /\ ~suspend_request[t]
             /\ IncSuspended(Arg(t).thread) /\ Do(t, Suspended(Arg(t).thread))
    <2>1. Suspended(Arg(t).thread) \in Seq(Instructions)
      BY <1>4, SuspendedProgram
    <2>2. Suspended(Arg(t).thread) \o Tail(work[t]) = Suspended(Arg(t).thread)
      BY <1>3, <2>1, LastMove DEF LastOps
    <2>3. work' = [work EXCEPT ![t] = Suspended(Arg(t).thread)]
      BY <1>7, <2>2 DEF Do
    <2> QED BY <1>3, <1>4, <1>7, <2>3 DEF Suspends
  <1> QED BY <1>5, <1>6, <1>7 DEF SuspendThreadById, OwnerGone, TryAgain, Suspended

LEMMA ResumeEndCalm ==
  ASSUME TypeOK, ShapeInv, NEW t \in Threads, ResumeOwnerEnd(t)
  PROVE  Calm(t) /\ First(work[t], "resumeEnd")
  <1>1. t \in Actors /\ "resumeEnd" \in LastOps \ {"resume"}
    BY DEF Actors, LastOps
  <1>2. At(t, "resumeEnd") /\ Do(t, <<>>)
    BY DEF ResumeOwnerEnd, Return
  <1> QED BY <1>1, <1>2, EmptyProgram, LastCalm, FirstInstr

LEMMA UnregisterCalm ==
  ASSUME TypeOK, ShapeInv, NEW t \in Threads, UnregisterExitedThread(t)
  PROVE  Calm(t) /\ First(work[t], "unregisterCheck")
  <1>1. t \in Actors /\ "unregisterCheck" \in LastOps \ {"resume"}
    BY DEF Actors, LastOps
  <1>2. At(t, "unregisterCheck") /\ (Do(t, <<>>) \/ Do(t, DestroyAgain))
    BY DEF UnregisterExitedThread, Return, DestroyAgain
  <1>3. First(work[t], "unregisterCheck")
    BY <1>1, <1>2, FirstInstr
  <1>4. CASE Do(t, <<>>)
    BY <1>1, <1>2, <1>3, <1>4, EmptyProgram, LastCalm
  <1>5. CASE Do(t, DestroyAgain)
    BY <1>1, <1>2, <1>3, <1>5, DestroyProgram, LastCalm
  <1> QED BY <1>2, <1>4, <1>5

-----------------------------------------------------------------------------
(* One lemma per kind of step: the continuations keep their shape, the locks and the
   counters their meaning *)

Structure == ShapeInv /\ LockInv /\ WriterInv /\ HeldInv /\ CountInv

LEMMA CalmStep ==
  ASSUME SuspensionAssumption, TypeOK, Structure, NEW a \in Actors, Calm(a), LockFair(a),
         UNCHANGED <<suspend_count_, suspend_request, suspend_new_count_, threads_, deleted,
                     mutator_writer>>,
         mutator_writer # Nobody => mutator_readers' \subseteq mutator_readers
  PROVE  work' \in [Actors -> Seq(Instructions)] /\ Structure'
  <1>1. work' \in [Actors -> Seq(Instructions)] /\ ShapeInv' /\ LockInv' /\ WriterInv'
    BY CalmKeepsShape DEF Structure
  <1>2. CountInv' /\ HeldInv'
    BY CalmKeepsCount DEF Structure
  <1> QED BY <1>1, <1>2 DEF Structure

(* RegisterThread gives a new thread the suspensions of the safepoints in progress:
   nobody is going through the registry. *)
LEMMA RegisterStep ==
  ASSUME SuspensionAssumption, TypeOK, Structure, CreatedInv, NEW t \in Threads,
         RegisterThread(t)
  PROVE  work' \in [Actors -> Seq(Instructions)] /\ Structure' /\ t \notin threads_ \cup deleted
  <1>1. t \in Actors /\ t # Nobody
    BY DEF Actors, SuspensionAssumption
  <1>2. Calm(t) /\ work[t] = <<>>
    BY <1>1, CallCalm DEF Call, Idle
  <1>3. /\ status[t] = "CREATED" /\ thread_lock_ = Nobody /\ threads_' = threads_ \cup {t}
        /\ suspend_count_' = [suspend_count_ EXCEPT ![t] = @ + suspend_new_count_]
        /\ suspend_request' = [suspend_request EXCEPT ![t] = suspend_new_count_ > 0]
        /\ UNCHANGED <<suspend_new_count_, mutator_writer, mutator_readers, thread_lock_, deleted>>
    BY DEF RegisterThread, mutator
  <1>4. t \notin threads_ \cup deleted
    BY <1>2, <1>3 DEF CreatedInv
  <1>5. \A b \in Actors : b # Nobody
    BY DEF Actors, SuspensionAssumption
  <1>6. work' \in [Actors -> Seq(Instructions)] /\ ShapeInv' /\ LockInv' /\ WriterInv'
    <2>1. LockFair(t)
      BY <1>3 DEF LockFair
    <2> QED BY <1>1, <1>2, <1>3, <1>5, <2>1, CalmKeepsShape DEF Structure
  <1>7. /\ Cardinality(StopSet(work')) = Cardinality(StopSet(work))
        /\ \A u \in Threads :
             /\ Cardinality(HoldSet(work', u)) = Cardinality(HoldSet(work, u))
             /\ (u \in threads_ <=> u \in threads_') =>
                  Cardinality(CoverSet(work', u, threads_'))
                    = Cardinality(CoverSet(work, u, threads_))
        /\ \A b \in Actors, u \in Threads : HoldsIn(work'[b], u) <=> HoldsIn(work[b], u)
    BY <1>1, <1>2, CalmKeepsSets
  <1>8. HeldInv'
    BY <1>3, <1>7 DEF HeldInv, Structure
  <1>9. suspend_count_[t] = 0
    <2>1. CoverSet(work, t, threads_) = {} /\ HoldSet(work, t) = {}
      BY <1>4 DEF CoverSet, CoversIn, HoldSet, HeldInv, Structure
    <2>2. suspend_count_[t] = Cardinality(CoverSet(work, t, threads_))
                            + Cardinality(HoldSet(work, t))
      BY <1>4 DEF CountInv, Structure
    <2>3. Cardinality({}) = 0
      BY FS_EmptySet
    <2> QED BY <2>1, <2>2, <2>3
  <1>10. CoverSet(work', t, threads_') = StopSet(work') /\ HoldSet(work', t) = {}
    <2>1. ASSUME NEW b \in Actors
          PROVE  CoversIn(work'[b], b, t, threads_') <=> Stopping(work'[b])
      <3>1. ~First(work'[b], "suspendAll") /\ ~First(work'[b], "resumeAll")
        BY <1>3, <1>5, <1>6 DEF LockInv
      <3>2. t \in threads_'
        BY <1>3
      <3>3. b = t => ~Stopping(work'[b])
        BY <1>1, <1>2, WorkOfOthers DEF Calm, Plain
      <3> QED BY <3>1, <3>2, <3>3 DEF CoversIn
    <2>2. \A b \in Actors : ~HoldsIn(work'[b], t)
      BY <1>4, <1>7 DEF HeldInv, Structure
    <2> QED BY <2>1, <2>2 DEF CoverSet, StopSet, HoldSet
  <1>11. CountInv'
    <2>1. suspend_new_count_' = Cardinality(StopSet(work'))
      BY <1>3, <1>7 DEF CountInv, Structure
    <2>2. ASSUME NEW u \in Threads \ deleted, u # t
          PROVE  /\ suspend_count_'[u] = Cardinality(CoverSet(work', u, threads_'))
                                       + Cardinality(HoldSet(work', u))
                 /\ suspend_request'[u] = (suspend_count_'[u] > 0)
      <3>1. suspend_count_'[u] = suspend_count_[u] /\ suspend_request'[u] = suspend_request[u]
        BY <1>3, <2>2 DEF TypeOK
      <3>2. u \in threads_ <=> u \in threads_'
        BY <1>3, <2>2
      <3> QED BY <1>7, <3>1, <3>2 DEF CountInv, Structure
    <2>3. /\ suspend_count_'[t] = Cardinality(CoverSet(work', t, threads_'))
                                + Cardinality(HoldSet(work', t))
          /\ suspend_request'[t] = (suspend_count_'[t] > 0)
      <3>1. suspend_count_'[t] = suspend_new_count_
        BY <1>3, <1>9 DEF TypeOK
      <3>2. suspend_request'[t] = (suspend_new_count_ > 0)
        BY <1>3 DEF TypeOK
      <3>3. Cardinality(HoldSet(work', t)) = 0
        BY <1>10, FS_EmptySet
      <3> QED BY <1>3, <1>10, <2>1, <3>1, <3>2, <3>3 DEF TypeOK
    <2> QED BY <1>3, <2>1, <2>2, <2>3 DEF CountInv
  <1> QED BY <1>4, <1>6, <1>8, <1>11 DEF Structure

(* A thread that is removed and deleted is suspended by nobody. *)
LEMMA UnregisterExitStep ==
  ASSUME SuspensionAssumption, TypeOK, Structure, NEW t \in Threads,
         UnregisterExitedThread(t)
  PROVE  work' \in [Actors -> Seq(Instructions)] /\ Structure'
  <1>1. t \in Actors /\ Calm(t)
    BY UnregisterCalm DEF Actors, Structure
  <1>2. thread_lock_ = t
    <2>1. First(work[t], "unregisterCheck") /\ work[t] \in Seq(Instructions) /\ Shape(work[t])
      BY <1>1, UnregisterCalm, FirstInstr DEF Structure
    <2>2. Unregistering(work[t])
      BY <2>1, LastMove DEF First, LastOps
    <2> QED BY <1>1, <2>2 DEF LockInv, Structure
  <1>3. /\ LockFair(t)
        /\ UNCHANGED <<suspend_count_, suspend_request, suspend_new_count_, mutator_writer,
                       mutator_readers>>
    BY <1>2 DEF LockFair, UnregisterExitedThread, fts, counters, mutator
  <1>4. CASE UNCHANGED <<threads_, deleted>>
    BY <1>1, <1>3, <1>4, CalmStep
  <1>5. CASE /\ ~suspend_request[t]
             /\ threads_' = threads_ \ {t} /\ deleted' = deleted \cup {t}
    <2>1. work' \in [Actors -> Seq(Instructions)] /\ ShapeInv' /\ LockInv' /\ WriterInv'
      BY <1>1, <1>2, <1>3, CalmKeepsShape DEF Structure
    <2>2. /\ Cardinality(StopSet(work')) = Cardinality(StopSet(work))
          /\ \A u \in Threads :
               /\ Cardinality(HoldSet(work', u)) = Cardinality(HoldSet(work, u))
               /\ (u \in threads_ <=> u \in threads_') =>
                    Cardinality(CoverSet(work', u, threads_'))
                      = Cardinality(CoverSet(work, u, threads_))
          /\ \A b \in Actors, u \in Threads : HoldsIn(work'[b], u) <=> HoldsIn(work[b], u)
      BY <1>1, CalmKeepsSets
    <2>3. \A b \in Actors : ~HoldsIn(work[b], t)
      <3>1. CASE t \in deleted
        BY <3>1 DEF HeldInv, Structure, TypeOK
      <3>2. CASE t \notin deleted
        BY <1>5, <3>2, RequestMeans DEF Structure
      <3> QED BY <3>1, <3>2
    <2>4. HeldInv'
      BY <1>5, <2>2, <2>3 DEF HeldInv, Structure
    <2>5. CountInv'
      <3>1. ASSUME NEW u \in Threads \ deleted'
            PROVE  /\ suspend_count_[u] = Cardinality(CoverSet(work', u, threads_'))
                                        + Cardinality(HoldSet(work', u))
                   /\ suspend_request[u] = (suspend_count_[u] > 0)
        <4>1. u \in Threads \ deleted /\ (u \in threads_ <=> u \in threads_')
          BY <1>5, <3>1
        <4> QED BY <2>2, <4>1 DEF CountInv, Structure
      <3> QED BY <1>3, <2>2, <3>1 DEF CountInv, Structure
    <2> QED BY <2>1, <2>4, <2>5 DEF Structure
  <1> QED BY <1>4, <1>5 DEF UnregisterExitedThread, registry

(* A suspension by id begins: the owner's counter goes up. *)
LEMMA SuspendStep ==
  ASSUME SuspensionAssumption, TypeOK, Structure, NEW t \in Threads, NEW owner \in Threads,
         First(work[t], "suspendThread"), Suspends(t, owner),
         UNCHANGED <<suspend_new_count_, threads_, deleted, mutator_writer, mutator_readers,
                     thread_lock_>>
  PROVE  work' \in [Actors -> Seq(Instructions)] /\ Structure'
  <1> DEFINE s == Suspended(owner)
  <1>1. t \in Actors /\ work' = [work EXCEPT ![t] = s] /\ owner \in threads_
    BY DEF Actors, Suspends
  <1>2. /\ s \in Seq(Instructions) /\ s # <<>>
        /\ Shape(s) /\ Plain(s) /\ ~Unregistering(s)
        /\ \A u : HoldsIn(s, u) <=> u = owner
    BY SuspendedProgram
  <1> HIDE DEF s
  <1>3. /\ work' \in [Actors -> Seq(Instructions)]
        /\ work'[t] = s /\ \A b \in Actors \ {t} : work'[b] = work[b]
    BY <1>1, <1>2, WorkOfOthers
  <1>4. Plain(work[t]) /\ \A u : ~HoldsIn(work[t], u)
    <2>1. work[t] \in Seq(Instructions) /\ Shape(work[t])
      BY <1>1, FirstInstr DEF Structure
    <2> QED BY <2>1, LastMove DEF First, LastOps
  <1>5. ShapeInv'
    BY <1>2, <1>3 DEF ShapeInv, Structure
  <1>6. LockInv'
    BY <1>2, <1>3 DEF LockInv, Structure, Plain
  <1>7. WriterInv'
    <2>1. mutator_writer # Nobody => mutator_writer \in Actors /\ mutator_writer # t
      BY <1>1, <1>4, PlainNotWriter DEF TypeOK, Structure
    <2> QED BY <1>3, <2>1 DEF WriterInv, Structure
  <1>8. HeldInv'
    BY <1>1, <1>2, <1>3 DEF HeldInv, Structure
  <1>9. CountInv'
    <2>1. suspend_new_count_ = Cardinality(StopSet(work'))
      <3>1. Stopping(work[t]) <=> Stopping(work'[t])
        BY <1>2, <1>3, <1>4 DEF Plain
      <3>2. Cardinality(StopSet(work')) = Cardinality(StopSet(work))
        <4> DEFINE f == work
                   g == work'
        <4>1. (\A b \in Actors \ {t} : g[b] = f[b]) /\ (Stopping(f[t]) <=> Stopping(g[t]))
          BY <1>3, <3>1
        <4> HIDE DEF f, g
        <4>2. Cardinality(StopSet(g)) = Cardinality(StopSet(f))
          BY <1>1, <4>1, RecountStops
        <4> QED BY <4>2 DEF f, g
      <3> QED BY <3>2 DEF CountInv, Structure
    <2>2. ASSUME NEW u \in Threads
          PROVE  /\ Cardinality(CoverSet(work', u, threads_))
                      = Cardinality(CoverSet(work, u, threads_))
                 /\ Cardinality(CoverSet(work, u, threads_)) \in Nat
                 /\ Cardinality(HoldSet(work, u)) \in Nat
                 /\ u # owner => Cardinality(HoldSet(work', u)) = Cardinality(HoldSet(work, u))
                 /\ u = owner => Cardinality(HoldSet(work', u))
                                   = Cardinality(HoldSet(work, u)) + 1
      <3> DEFINE f == work
                 g == work'
                 R == threads_
      <3>1. /\ \A b \in Actors \ {t} : g[b] = f[b]
            /\ ~CoversIn(f[t], t, u, R) /\ ~CoversIn(g[t], t, u, R)
            /\ ~HoldsIn(f[t], u) /\ (HoldsIn(g[t], u) <=> u = owner)
        BY <1>2, <1>3, <1>4 DEF Plain, CoversIn
      <3> HIDE DEF f, g, R
      <3>2. /\ Cardinality(CoverSet(g, u, R)) = Cardinality(CoverSet(f, u, R))
            /\ Cardinality(CoverSet(f, u, R)) \in Nat
        BY <1>1, <3>1, RecountCovers
      <3>3. /\ Cardinality(HoldSet(f, u)) \in Nat
            /\ u # owner => Cardinality(HoldSet(g, u)) = Cardinality(HoldSet(f, u))
            /\ u = owner => Cardinality(HoldSet(g, u)) = Cardinality(HoldSet(f, u)) + 1
        BY <1>1, <3>1, RecountHolds
      <3> QED BY <3>2, <3>3 DEF f, g, R
    <2>3. ASSUME NEW u \in Threads \ deleted
          PROVE  /\ suspend_count_'[u] = Cardinality(CoverSet(work', u, threads_))
                                       + Cardinality(HoldSet(work', u))
                 /\ suspend_request'[u] = (suspend_count_'[u] > 0)
      <3>1. /\ suspend_count_[u] = Cardinality(CoverSet(work, u, threads_))
                                 + Cardinality(HoldSet(work, u))
            /\ suspend_request[u] = (suspend_count_[u] > 0)
            /\ suspend_count_[u] \in Nat
        BY DEF CountInv, Structure, TypeOK
      <3>2. CASE u # owner
        <4>1. suspend_count_'[u] = suspend_count_[u] /\ suspend_request'[u] = suspend_request[u]
          BY <3>2 DEF Suspends, IncSuspended, TypeOK
        <4> QED BY <2>2, <3>1, <3>2, <4>1
      <3>3. CASE u = owner
        <4>1. suspend_count_'[u] = suspend_count_[u] + 1 /\ suspend_request'[u] = TRUE
          BY <3>3 DEF Suspends, IncSuspended, TypeOK
        <4>2. (suspend_count_'[u] > 0) = TRUE
          BY <3>1, <4>1
        <4>3. suspend_count_'[u] = Cardinality(CoverSet(work', u, threads_))
                                 + Cardinality(HoldSet(work', u))
          <5> HIDE DEF Structure
          <5>1. suspend_count_'[u] = suspend_count_[u] + 1
            BY <4>1
          <5>2. Cardinality(HoldSet(work', u)) = Cardinality(HoldSet(work, u)) + 1
            BY <2>2, <3>3
          <5> QED BY <2>2, <3>1, <5>1, <5>2
        <4> QED BY <4>1, <4>2, <4>3, Zenon
      <3> QED BY <3>2, <3>3
    <2> QED BY <2>1, <2>3 DEF CountInv
  <1> QED BY <1>3, <1>5, <1>6, <1>7, <1>8, <1>9 DEF Structure

(* DecSuspended of a thread that is suspended. *)
LEMMA DecSuspendedMeans ==
  ASSUME TypeOK, NEW t \in Threads, DecSuspended(t), suspend_count_[t] > 0,
         suspend_request[t] = (suspend_count_[t] > 0)
  PROVE  /\ suspend_count_'[t] + 1 = suspend_count_[t] /\ suspend_count_'[t] \in Nat
         /\ suspend_request'[t] = (suspend_count_'[t] > 0)
         /\ \A u \in Threads \ {t} : /\ suspend_count_'[u] = suspend_count_[u]
                                     /\ suspend_request'[u] = suspend_request[u]
         /\ suspend_count_' \in [Threads -> Nat] /\ suspend_request' \in [Threads -> BOOLEAN]
  <1>1. suspend_count_[t] \in Nat
    BY DEF TypeOK
  <1>2. /\ suspend_count_' = [suspend_count_ EXCEPT ![t] = suspend_count_[t] - 1]
        /\ suspend_request' = [suspend_request EXCEPT ![t] = @ /\ suspend_count_[t] # 1]
    BY <1>1 DEF DecSuspended
  <1>3. suspend_count_'[t] = suspend_count_[t] - 1
    BY <1>2 DEF TypeOK
  <1>4. suspend_request'[t] = (suspend_request[t] /\ suspend_count_[t] # 1)
    BY <1>2 DEF TypeOK
  <1>5. suspend_request[t] = TRUE
    BY Zenon
  <1>6. suspend_request'[t] = (suspend_count_'[t] > 0)
    <2>1. CASE suspend_count_[t] = 1
      <3>1. suspend_request'[t] = FALSE
        BY <1>4, <2>1, Zenon
      <3>2. (suspend_count_'[t] > 0) = FALSE
        BY <1>3, <2>1
      <3> QED BY <3>1, <3>2, Zenon
    <2>2. CASE suspend_count_[t] # 1
      <3>1. suspend_request'[t] = TRUE
        BY <1>4, <1>5, <2>2, Zenon
      <3>2. (suspend_count_'[t] > 0) = TRUE
        BY <1>1, <1>3, <2>2
      <3> QED BY <3>1, <3>2, Zenon
    <2> QED BY <2>1, <2>2
  <1>7. \A u \in Threads \ {t} : /\ suspend_count_'[u] = suspend_count_[u]
                                 /\ suspend_request'[u] = suspend_request[u]
    BY <1>2 DEF TypeOK
  <1>8. suspend_count_' \in [Threads -> Nat] /\ suspend_request' \in [Threads -> BOOLEAN]
    BY <1>1, <1>2 DEF TypeOK
  <1> QED BY <1>1, <1>3, <1>6, <1>7, <1>8

(* It ends: the owner's counter goes down. *)
LEMMA ResumeOwnerStep ==
  ASSUME SuspensionAssumption, TypeOK, Structure, NEW t \in Threads, ResumeOwner(t)
  PROVE  /\ work' \in [Actors -> Seq(Instructions)] /\ Structure'
         /\ suspend_count_' \in [Threads -> Nat] /\ suspend_request' \in [Threads -> BOOLEAN]
  <1> DEFINE owner == Arg(t).thread
             s == <<ResumeImplEnd(owner)>>
  <1>1. t \in Actors
    BY DEF Actors
  <1>2. /\ work[t] \in Seq(Instructions) /\ Shape(work[t]) /\ work[t] # <<>>
        /\ work[t][1].op = "resume" /\ Arg(t) = work[t][1] /\ work[t][1] \in Instructions
    BY <1>1, FirstInstr DEF ResumeOwner, First, Structure
  <1>3. owner \in Threads /\ owner = work[t][1].thread
    BY <1>2, InstrFields
  <1>4. /\ s \in Seq(Instructions)
        /\ Shape(s) /\ Plain(s) /\ ~Unregistering(s)
        /\ \A u : ~HoldsIn(s, u)
    BY <1>3, ResumeProgram
  <1>5. /\ Plain(work[t]) /\ \A u : HoldsIn(work[t], u) <=> u = owner
        /\ s \o Tail(work[t]) = s
    BY <1>2, <1>3, <1>4, LastMove DEF LastOps
  <1>6. /\ DecSuspended(owner) /\ work' = [work EXCEPT ![t] = s]
        /\ UNCHANGED <<suspend_new_count_, threads_, deleted, mutator_writer, mutator_readers,
                       thread_lock_>>
    BY <1>5 DEF ResumeOwner, Do, mutator, registry
  <1> HIDE DEF s, owner
  <1>7. /\ work' \in [Actors -> Seq(Instructions)]
        /\ work'[t] = s /\ \A b \in Actors \ {t} : work'[b] = work[b]
    BY <1>1, <1>4, <1>6, WorkOfOthers
  <1>8. ShapeInv'
    BY <1>4, <1>7 DEF ShapeInv, Structure
  <1>9. LockInv'
    BY <1>4, <1>6, <1>7 DEF LockInv, Structure, Plain
  <1>10. WriterInv'
    <2>1. mutator_writer # Nobody => mutator_writer \in Actors /\ mutator_writer # t
      BY <1>1, <1>5, PlainNotWriter DEF TypeOK, Structure
    <2> QED BY <1>6, <1>7, <2>1 DEF WriterInv, Structure
  <1>11. HeldInv'
    BY <1>4, <1>6, <1>7 DEF HeldInv, Structure
  <1>12. Cardinality(StopSet(work')) = Cardinality(StopSet(work))
    <2> DEFINE f == work
               g == work'
    <2>1. (\A b \in Actors \ {t} : g[b] = f[b]) /\ (Stopping(f[t]) <=> Stopping(g[t]))
      BY <1>4, <1>5, <1>7 DEF Plain
    <2> HIDE DEF f, g
    <2>2. Cardinality(StopSet(g)) = Cardinality(StopSet(f))
      BY <1>1, <2>1, RecountStops
    <2> QED BY <2>2 DEF f, g
  <1>13. ASSUME NEW u \in Threads
         PROVE  /\ Cardinality(CoverSet(work', u, threads_))
                     = Cardinality(CoverSet(work, u, threads_))
                /\ Cardinality(CoverSet(work, u, threads_)) \in Nat
                /\ Cardinality(HoldSet(work', u)) \in Nat
                /\ u # owner => Cardinality(HoldSet(work', u)) = Cardinality(HoldSet(work, u))
                /\ u = owner => Cardinality(HoldSet(work, u))
                                  = Cardinality(HoldSet(work', u)) + 1
    <2> DEFINE f == work
               g == work'
               R == threads_
    <2>1. /\ \A b \in Actors \ {t} : g[b] = f[b]
          /\ ~CoversIn(f[t], t, u, R) /\ ~CoversIn(g[t], t, u, R)
          /\ ~HoldsIn(g[t], u) /\ (HoldsIn(f[t], u) <=> u = owner)
      BY <1>4, <1>5, <1>7 DEF Plain, CoversIn
    <2> HIDE DEF f, g, R
    <2>2. /\ Cardinality(CoverSet(g, u, R)) = Cardinality(CoverSet(f, u, R))
          /\ Cardinality(CoverSet(f, u, R)) \in Nat
      BY <1>1, <2>1, RecountCovers
    <2>3. /\ Cardinality(HoldSet(g, u)) \in Nat
          /\ u # owner => Cardinality(HoldSet(g, u)) = Cardinality(HoldSet(f, u))
          /\ u = owner => Cardinality(HoldSet(f, u)) = Cardinality(HoldSet(g, u)) + 1
      <3>1. u # owner => (HoldsIn(f[t], u) <=> HoldsIn(g[t], u))
        BY <2>1
      <3>2. u = owner => HoldsIn(f[t], u) /\ ~HoldsIn(g[t], u)
        BY <2>1
      <3> QED BY <1>1, <2>1, <3>1, <3>2, RecountHolds
    <2> QED BY <2>2, <2>3 DEF f, g, R
  <1>14. owner \notin deleted
    BY <1>1, <1>3, <1>5 DEF HeldInv, Structure, TypeOK
  <1>15. /\ suspend_count_[owner] = Cardinality(CoverSet(work, owner, threads_))
                                  + Cardinality(HoldSet(work, owner))
         /\ suspend_request[owner] = (suspend_count_[owner] > 0)
    BY <1>3, <1>14 DEF CountInv, Structure
  <1>16. suspend_count_[owner] > 0
    BY <1>3, <1>13, <1>15
  <1>17. /\ suspend_count_'[owner] + 1 = suspend_count_[owner] /\ suspend_count_'[owner] \in Nat
         /\ suspend_request'[owner] = (suspend_count_'[owner] > 0)
         /\ \A u \in Threads \ {owner} : /\ suspend_count_'[u] = suspend_count_[u]
                                         /\ suspend_request'[u] = suspend_request[u]
         /\ suspend_count_' \in [Threads -> Nat] /\ suspend_request' \in [Threads -> BOOLEAN]
    BY <1>3, <1>6, <1>15, <1>16, DecSuspendedMeans
  <1>18. CountInv'
    <2>1. ASSUME NEW u \in Threads \ deleted
          PROVE  /\ suspend_count_'[u] = Cardinality(CoverSet(work', u, threads_))
                                       + Cardinality(HoldSet(work', u))
                 /\ suspend_request'[u] = (suspend_count_'[u] > 0)
      <3>1. CASE u = owner
        BY <1>13, <1>15, <1>17, <3>1
      <3>2. CASE u # owner
        BY <1>13, <1>17, <3>2 DEF CountInv, Structure
      <3> QED BY <3>1, <3>2
    <2> QED BY <1>6, <1>12, <2>1 DEF CountInv, Structure
  <1> QED BY <1>7, <1>8, <1>9, <1>10, <1>11, <1>17, <1>18 DEF Structure

(* A step of a safepoint: a's continuation goes from w to s, neither of which holds a
   suspension by id. *)
LEMMA SafepointSets ==
  ASSUME SuspensionAssumption, TypeOK, Structure, NEW a \in Actors,
         NEW s \in Seq(Instructions), work' = [work EXCEPT ![a] = s],
         work[a] # <<>>, work[a][1].op \in SafepointOps,
         Shape(s), \A u : ~HoldsIn(s, u), threads_' = threads_
  PROVE  /\ work' \in [Actors -> Seq(Instructions)] /\ ShapeInv' /\ HeldInv'
         /\ work'[a] = s /\ \A b \in Actors \ {a} : work'[b] = work[b]
         /\ Stopping(work[a]) <=> work[a][1].op \in {"writeLock", "writeUnlock", "resumeAllLock"}
         /\ Cardinality(StopSet(work)) \in Nat /\ Cardinality(StopSet(work')) \in Nat
         /\ (Stopping(work[a]) <=> Stopping(s)) =>
              Cardinality(StopSet(work')) = Cardinality(StopSet(work))
         /\ ~Stopping(work[a]) /\ Stopping(s) =>
              Cardinality(StopSet(work')) = Cardinality(StopSet(work)) + 1
         /\ Stopping(work[a]) /\ ~Stopping(s) =>
              Cardinality(StopSet(work)) = Cardinality(StopSet(work')) + 1
         /\ \A u \in Threads :
              LET c == CoversIn(work[a], a, u, threads_)
                  d == CoversIn(s, a, u, threads_)
                  C == Cardinality(CoverSet(work, u, threads_))
                  D == Cardinality(CoverSet(work', u, threads_))
              IN
              /\ Cardinality(HoldSet(work', u)) = Cardinality(HoldSet(work, u))
              /\ Cardinality(HoldSet(work, u)) \in Nat /\ C \in Nat /\ D \in Nat
              /\ (c <=> d) => D = C
              /\ ~c /\ d => D = C + 1
              /\ c /\ ~d => C = D + 1
  <1>1. /\ work' \in [Actors -> Seq(Instructions)]
        /\ work'[a] = s /\ \A b \in Actors \ {a} : work'[b] = work[b]
    BY WorkOfOthers
  <1>2. /\ \A u : ~HoldsIn(work[a], u)
        /\ Stopping(work[a]) <=> work[a][1].op \in {"writeLock", "writeUnlock", "resumeAllLock"}
    BY FirstInstr, InsideSafepoint DEF Structure
  <1>3. ShapeInv' /\ HeldInv'
    BY <1>1 DEF ShapeInv, HeldInv, Structure
  <1> DEFINE f == work
             g == work'
             R == threads_
  <1>4. g[a] = s /\ \A b \in Actors \ {a} : g[b] = f[b]
    BY <1>1
  <1>5. \A u : ~HoldsIn(f[a], u)
    BY <1>2
  <1> HIDE DEF f, g, R
  <1>6. /\ Cardinality(StopSet(f)) \in Nat /\ Cardinality(StopSet(g)) \in Nat
        /\ (Stopping(f[a]) <=> Stopping(s)) =>
             Cardinality(StopSet(g)) = Cardinality(StopSet(f))
        /\ ~Stopping(f[a]) /\ Stopping(s) =>
             Cardinality(StopSet(g)) = Cardinality(StopSet(f)) + 1
        /\ Stopping(f[a]) /\ ~Stopping(s) =>
             Cardinality(StopSet(f)) = Cardinality(StopSet(g)) + 1
    BY <1>4, RecountStops
  <1>7. ASSUME NEW t \in Threads
        PROVE  /\ Cardinality(HoldSet(g, t)) = Cardinality(HoldSet(f, t))
               /\ Cardinality(HoldSet(f, t)) \in Nat
    <2>1. /\ \A b \in Actors \ {a} : g[b] = f[b]
          /\ \A u \in Threads : HoldsIn(f[a], u) <=> HoldsIn(g[a], u)
      BY <1>4, <1>5
    <2>2. Cardinality(HoldSet(g, t)) = Cardinality(HoldSet(f, t))
      BY <2>1, RecountHolds
    <2>3. Cardinality(HoldSet(f, t)) \in Nat
      BY <2>1, RecountHolds
    <2> QED BY <2>2, <2>3
  <1>8. ASSUME NEW u \in Threads
        PROVE  LET c == CoversIn(f[a], a, u, R)
                   d == CoversIn(s, a, u, R)
                   C == Cardinality(CoverSet(f, u, R))
                   D == Cardinality(CoverSet(g, u, R))
               IN
               /\ C \in Nat /\ D \in Nat
               /\ (c <=> d) => D = C
               /\ ~c /\ d => D = C + 1
               /\ c /\ ~d => C = D + 1
    <2> DEFINE S == CoverSet(f, u, R)
               T == CoverSet(g, u, R)
    <2>1. /\ S \in SUBSET Actors /\ T \in SUBSET Actors
          /\ \A b \in Actors : b \in S <=> CoversIn(f[b], b, u, R)
          /\ \A b \in Actors : b \in T <=> CoversIn(g[b], b, u, R)
      BY DEF CoverSet
    <2> HIDE DEF S, T
    <2>2. S \ {a} = T \ {a}
      <3>1. \A b \in Actors \ {a} : b \in S <=> b \in T
        BY <1>4, <2>1
      <3> QED BY <2>1, <3>1
    <2>3. (a \in S <=> CoversIn(f[a], a, u, R)) /\ (a \in T <=> CoversIn(s, a, u, R))
      BY <1>4, <2>1
    <2>4. /\ Cardinality(S) \in Nat /\ Cardinality(T) \in Nat
          /\ (a \in S <=> a \in T) => Cardinality(T) = Cardinality(S)
          /\ a \notin S /\ a \in T => Cardinality(T) = Cardinality(S) + 1
          /\ a \in S /\ a \notin T => Cardinality(S) = Cardinality(T) + 1
      BY <2>1, <2>2, Recount
    <2> QED BY <2>3, <2>4 DEF S, T
  <1> QED BY <1>1, <1>2, <1>3, <1>6, <1>7, <1>8 DEF f, g, R

(* The counters, when the step changes the suspensions of thread t at most. *)
LEMMA SafepointCounts ==
  ASSUME SuspensionAssumption, TypeOK, Structure, NEW a \in Actors,
         NEW s \in Seq(Instructions), work' = [work EXCEPT ![a] = s],
         work[a] # <<>>, work[a][1].op \in SafepointOps,
         Shape(s), \A u : ~HoldsIn(s, u), UNCHANGED <<threads_, deleted>>,
         Stopping(work[a]) => Stopping(s) \/ suspend_new_count_' + 1 = suspend_new_count_,
         (Stopping(work[a]) <=> Stopping(s)) => suspend_new_count_' = suspend_new_count_,
         ~Stopping(work[a]) /\ Stopping(s) => suspend_new_count_' = suspend_new_count_ + 1,
         suspend_new_count_' \in Nat,
         NEW T \in SUBSET threads_,
         \A u \in Threads \ T :
           /\ CoversIn(work[a], a, u, threads_) <=> CoversIn(s, a, u, threads_)
           /\ suspend_count_'[u] = suspend_count_[u] /\ suspend_request'[u] = suspend_request[u],
         \A u \in T :
           \/ /\ ~CoversIn(work[a], a, u, threads_) /\ CoversIn(s, a, u, threads_)
              /\ suspend_count_'[u] = suspend_count_[u] + 1 /\ suspend_request'[u] = TRUE
           \/ /\ CoversIn(work[a], a, u, threads_) /\ ~CoversIn(s, a, u, threads_)
              /\ DecSuspended(u)
  PROVE  CountInv'
  <1>1. /\ (Stopping(work[a]) <=> Stopping(s)) =>
             Cardinality(StopSet(work')) = Cardinality(StopSet(work))
        /\ ~Stopping(work[a]) /\ Stopping(s) =>
             Cardinality(StopSet(work')) = Cardinality(StopSet(work)) + 1
        /\ Stopping(work[a]) /\ ~Stopping(s) =>
             Cardinality(StopSet(work)) = Cardinality(StopSet(work')) + 1
        /\ Cardinality(StopSet(work)) \in Nat /\ Cardinality(StopSet(work')) \in Nat
    BY SafepointSets
  <1>2. suspend_new_count_' = Cardinality(StopSet(work'))
    <2>1. suspend_new_count_ = Cardinality(StopSet(work))
      BY DEF CountInv, Structure
    <2> QED BY <1>1, <2>1
  <1>3. ASSUME NEW u \in Threads \ deleted
        PROVE  /\ suspend_count_'[u] = Cardinality(CoverSet(work', u, threads_))
                                     + Cardinality(HoldSet(work', u))
               /\ suspend_request'[u] = (suspend_count_'[u] > 0)
    <2> DEFINE c == CoversIn(work[a], a, u, threads_)
               d == CoversIn(s, a, u, threads_)
               C == Cardinality(CoverSet(work, u, threads_))
               D == Cardinality(CoverSet(work', u, threads_))
               H == Cardinality(HoldSet(work, u))
               I == Cardinality(HoldSet(work', u))
    <2>1. /\ I = H /\ H \in Nat /\ C \in Nat /\ D \in Nat
          /\ (c <=> d) => D = C
          /\ ~c /\ d => D = C + 1
          /\ c /\ ~d => C = D + 1
      BY SafepointSets, ZenonT(40)
    <2>2. /\ suspend_count_[u] = C + H
          /\ suspend_request[u] = (suspend_count_[u] > 0)
      BY DEF CountInv, Structure
    <2> HIDE DEF C, D, H, I
    <2>3. CASE u \notin T
      <3>1. /\ c <=> d
            /\ suspend_count_'[u] = suspend_count_[u]
            /\ suspend_request'[u] = suspend_request[u]
        BY <2>3
      <3>2. suspend_count_'[u] = D + I
        BY <2>1, <2>2, <3>1
      <3>3. suspend_request'[u] = (suspend_count_'[u] > 0)
        BY <2>2, <3>1, Zenon
      <3> QED BY <3>2, <3>3 DEF D, I
    <2>4. CASE /\ u \in T /\ ~c /\ d
               /\ suspend_count_'[u] = suspend_count_[u] + 1 /\ suspend_request'[u] = TRUE
      <3> HIDE DEF c, d
      <3>1. suspend_count_'[u] = D + I
        BY <2>1, <2>2, <2>4
      <3>2. (suspend_count_'[u] > 0) = TRUE
        BY <2>1, <2>2, <2>4
      <3>3. suspend_request'[u] = (suspend_count_'[u] > 0)
        BY <2>4, <3>2, Zenon
      <3> QED BY <3>1, <3>3 DEF D, I
    <2>5. CASE u \in T /\ c /\ ~d /\ DecSuspended(u)
      <3> HIDE DEF c, d
      <3>1. suspend_count_[u] > 0
        BY <2>1, <2>2, <2>5
      <3>2. /\ suspend_count_'[u] + 1 = suspend_count_[u] /\ suspend_count_'[u] \in Nat
            /\ suspend_request'[u] = (suspend_count_'[u] > 0)
        BY <2>2, <2>5, <3>1, DecSuspendedMeans
      <3>3. suspend_count_'[u] = D + I
        BY <2>1, <2>2, <2>5, <3>2
      <3> QED BY <3>2, <3>3 DEF D, I
    <2> QED BY <2>3, <2>4, <2>5
  <1> QED BY <1>2, <1>3 DEF CountInv

(* The step changes the suspensions of no thread, or of one. *)
LEMMA SafepointNoCount ==
  ASSUME SuspensionAssumption, TypeOK, Structure, NEW a \in Actors,
         NEW s \in Seq(Instructions), work' = [work EXCEPT ![a] = s],
         work[a] # <<>>, work[a][1].op \in SafepointOps,
         Shape(s), \A u : ~HoldsIn(s, u), UNCHANGED <<threads_, deleted>>,
         Stopping(work[a]) => Stopping(s) \/ suspend_new_count_' + 1 = suspend_new_count_,
         (Stopping(work[a]) <=> Stopping(s)) => suspend_new_count_' = suspend_new_count_,
         ~Stopping(work[a]) /\ Stopping(s) => suspend_new_count_' = suspend_new_count_ + 1,
         suspend_new_count_' \in Nat,
         UNCHANGED <<suspend_count_, suspend_request>>,
         \A u \in Threads : CoversIn(work[a], a, u, threads_) <=> CoversIn(s, a, u, threads_)
  PROVE  CountInv'
  <1>1. {} \in SUBSET threads_
    OBVIOUS
  <1>2. \A u \in Threads \ {} :
          /\ CoversIn(work[a], a, u, threads_) <=> CoversIn(s, a, u, threads_)
          /\ suspend_count_'[u] = suspend_count_[u] /\ suspend_request'[u] = suspend_request[u]
    OBVIOUS
  <1>3. \A u \in {} :
          \/ /\ ~CoversIn(work[a], a, u, threads_) /\ CoversIn(s, a, u, threads_)
             /\ suspend_count_'[u] = suspend_count_[u] + 1 /\ suspend_request'[u] = TRUE
          \/ /\ CoversIn(work[a], a, u, threads_) /\ ~CoversIn(s, a, u, threads_)
             /\ DecSuspended(u)
    OBVIOUS
  <1> QED BY <1>1, <1>2, <1>3, SafepointCounts

LEMMA SafepointCountUp ==
  ASSUME SuspensionAssumption, TypeOK, Structure, NEW a \in Actors,
         NEW s \in Seq(Instructions), work' = [work EXCEPT ![a] = s],
         work[a] # <<>>, work[a][1].op \in SafepointOps,
         Shape(s), \A u : ~HoldsIn(s, u), UNCHANGED <<threads_, deleted>>,
         ~Stopping(work[a]), ~Stopping(s), UNCHANGED suspend_new_count_,
         NEW t \in threads_,
         \A u \in Threads \ {t} :
           /\ CoversIn(work[a], a, u, threads_) <=> CoversIn(s, a, u, threads_)
           /\ suspend_count_'[u] = suspend_count_[u] /\ suspend_request'[u] = suspend_request[u],
         ~CoversIn(work[a], a, t, threads_), CoversIn(s, a, t, threads_),
         suspend_count_'[t] = suspend_count_[t] + 1, suspend_request'[t] = TRUE
  PROVE  CountInv'
  <1>1. {t} \in SUBSET threads_ /\ suspend_new_count_' \in Nat
    BY DEF TypeOK
  <1>2. \A u \in {t} :
          \/ /\ ~CoversIn(work[a], a, u, threads_) /\ CoversIn(s, a, u, threads_)
             /\ suspend_count_'[u] = suspend_count_[u] + 1 /\ suspend_request'[u] = TRUE
          \/ /\ CoversIn(work[a], a, u, threads_) /\ ~CoversIn(s, a, u, threads_)
             /\ DecSuspended(u)
    BY Zenon
  <1> QED BY <1>1, <1>2, SafepointCounts, ZenonT(40)

LEMMA SafepointCountDown ==
  ASSUME SuspensionAssumption, TypeOK, Structure, NEW a \in Actors,
         NEW s \in Seq(Instructions), work' = [work EXCEPT ![a] = s],
         work[a] # <<>>, work[a][1].op \in SafepointOps,
         Shape(s), \A u : ~HoldsIn(s, u), UNCHANGED <<threads_, deleted>>,
         ~Stopping(work[a]), ~Stopping(s), UNCHANGED suspend_new_count_,
         NEW t \in threads_,
         \A u \in Threads \ {t} :
           /\ CoversIn(work[a], a, u, threads_) <=> CoversIn(s, a, u, threads_)
           /\ suspend_count_'[u] = suspend_count_[u] /\ suspend_request'[u] = suspend_request[u],
         CoversIn(work[a], a, t, threads_), ~CoversIn(s, a, t, threads_), DecSuspended(t)
  PROVE  CountInv'
  <1>1. {t} \in SUBSET threads_ /\ suspend_new_count_' \in Nat
    BY DEF TypeOK
  <1>2. \A u \in {t} :
          \/ /\ ~CoversIn(work[a], a, u, threads_) /\ CoversIn(s, a, u, threads_)
             /\ suspend_count_'[u] = suspend_count_[u] + 1 /\ suspend_request'[u] = TRUE
          \/ /\ CoversIn(work[a], a, u, threads_) /\ ~CoversIn(s, a, u, threads_)
             /\ DecSuspended(u)
    BY Zenon
  <1> QED BY <1>1, <1>2, SafepointCounts

(* The locks, when a alone takes or releases them. *)
LEMMA SafepointLocks ==
  ASSUME SuspensionAssumption, TypeOK, Structure, NEW a \in Actors,
         NEW s \in Seq(Instructions), work' = [work EXCEPT ![a] = s],
         threads_' = threads_, LockFair(a), ~Unregistering(s),
         First(s, "suspendAll") \/ First(s, "resumeAll") =>
           thread_lock_' = a /\ s[1].todo \subseteq threads_ \ {a}
  PROVE  LockInv'
  <1>1. work'[a] = s /\ \A b \in Actors \ {a} : work'[b] = work[b]
    BY WorkOfOthers
  <1>2. \A b \in Actors : b # Nobody
    BY DEF Actors, SuspensionAssumption
  <1>3. ASSUME NEW b \in Actors
        PROVE  /\ First(work'[b], "suspendAll") \/ First(work'[b], "resumeAll") =>
                    thread_lock_' = b /\ work'[b][1].todo \subseteq threads_' \ {b}
               /\ Unregistering(work'[b]) => thread_lock_' = b
    <2>1. CASE b = a
      BY <1>1, <2>1
    <2>2. CASE b # a
      BY <1>1, <1>2, <2>2 DEF LockFair, LockInv, Structure
    <2> QED BY <2>1, <2>2
  <1> QED BY <1>3 DEF LockInv

(* A step that leaves the mutator lock alone is not the writer's. *)
LEMMA SafepointWriter ==
  ASSUME SuspensionAssumption, TypeOK, Structure, NEW a \in Actors,
         NEW s \in Seq(Instructions), work' = [work EXCEPT ![a] = s],
         UNCHANGED <<mutator_writer, mutator_readers>>, ~First(work[a], "writeUnlock")
  PROVE  WriterInv'
  <1>1. work'[a] = s /\ \A b \in Actors \ {a} : work'[b] = work[b]
    BY WorkOfOthers
  <1>2. mutator_writer # Nobody => mutator_writer \in Actors \ {a}
    BY DEF WriterInv, Structure, TypeOK
  <1> QED BY <1>1, <1>2 DEF WriterInv, Structure

(* What the first instruction of an actor inside a safepoint says. *)
LEMMA SafepointFirst ==
  ASSUME TypeOK, Structure, NEW a \in Actors, NEW op \in SafepointOps, At(a, op)
  PROVE  /\ work[a] \in Seq(Instructions) /\ Shape(work[a]) /\ work[a] # <<>>
         /\ work[a][1].op = op /\ work[a][1].op \in SafepointOps
         /\ Arg(a) = work[a][1] /\ work[a][1] \in Instructions
         /\ Stopping(work[a]) <=> op \in {"writeLock", "writeUnlock", "resumeAllLock"}
  <1>1. /\ work[a] \in Seq(Instructions) /\ Shape(work[a]) /\ work[a] # <<>>
        /\ work[a][1].op = op /\ Arg(a) = work[a][1] /\ work[a][1] \in Instructions
    BY FirstInstr DEF First, Structure
  <1> QED BY <1>1, InsideSafepoint

LEMMA SuspendAllBegins ==
  ASSUME SuspensionAssumption, TypeOK, Structure, NEW a \in Actors, SuspendAllThreads(a)
  PROVE  work' \in [Actors -> Seq(Instructions)] /\ Structure'
  <1> DEFINE todo == threads_ \ {a}
             s == <<SuspendAll(todo)>> \o Tail(work[a])
  <1>1. /\ work[a] \in Seq(Instructions) /\ Shape(work[a]) /\ work[a] # <<>>
        /\ work[a][1].op = "suspendAllLock" /\ work[a][1].op \in SafepointOps
        /\ ~Stopping(work[a])
    BY SafepointFirst DEF SuspendAllThreads, SafepointOps
  <1>2. /\ SuspendAll(todo) \in Instructions
        /\ SuspendAll(todo).op = "suspendAll" /\ SuspendAll(todo).todo = todo
    BY InstrMade DEF SuspendAll, TypeOK
  <1>3. s \in Seq(Instructions) /\ s # <<>> /\ s[1] = SuspendAll(todo) /\ Shape(s)
    BY <1>1, <1>2, SafepointTurn
  <1>4. /\ work' = [work EXCEPT ![a] = s]
        /\ thread_lock_ = Nobody /\ thread_lock_' = a
        /\ UNCHANGED <<suspend_count_, suspend_request, suspend_new_count_, threads_, deleted,
                       mutator_writer, mutator_readers>>
    BY DEF SuspendAllThreads, Do, fts, counters, mutator, registry
  <1> HIDE DEF s
  <1>5. /\ ~Stopping(s) /\ ~Unregistering(s) /\ \A u : ~HoldsIn(s, u)
        /\ First(s, "suspendAll") /\ ~First(s, "resumeAll")
    BY <1>2, <1>3, InsideSafepoint DEF SafepointOps, First
  <1>6. work' \in [Actors -> Seq(Instructions)] /\ ShapeInv' /\ HeldInv'
    BY <1>1, <1>3, <1>4, <1>5, SafepointSets
  <1>7. LockInv'
    BY <1>2, <1>3, <1>4, <1>5, SafepointLocks DEF LockFair
  <1>8. WriterInv'
    BY <1>1, <1>3, <1>4, SafepointWriter DEF First
  <1>9. \A u \in Threads : ~CoversIn(work[a], a, u, threads_) /\ ~CoversIn(s, a, u, threads_)
    BY <1>1, <1>2, <1>3, <1>5 DEF CoversIn, First
  <1>10. CountInv'
    <2>1. suspend_new_count_' \in Nat
      BY <1>4 DEF TypeOK
    <2> QED BY <1>1, <1>3, <1>4, <1>5, <1>9, <2>1, SafepointNoCount
  <1> QED BY <1>6, <1>7, <1>8, <1>10 DEF Structure

LEMMA SuspendNextStep ==
  ASSUME SuspensionAssumption, TypeOK, Structure, NEW a \in Actors, SuspendNext(a)
  PROVE  work' \in [Actors -> Seq(Instructions)] /\ Structure'
  <1> DEFINE todo == Arg(a).todo
  <1>1. /\ work[a] \in Seq(Instructions) /\ Shape(work[a]) /\ work[a] # <<>>
        /\ work[a][1].op = "suspendAll" /\ work[a][1].op \in SafepointOps
        /\ Arg(a) = work[a][1] /\ work[a][1] \in Instructions
        /\ ~Stopping(work[a])
    BY SafepointFirst DEF SuspendNext, SafepointOps
  <1>2. todo \subseteq Threads /\ todo \subseteq threads_ \ {a} /\ thread_lock_ = a
    BY <1>1, InstrFields DEF LockInv, First, Structure
  <1>3. \A u \in Threads :
          CoversIn(work[a], a, u, threads_) <=> u # a /\ u \in threads_ /\ u \notin todo
    BY <1>1 DEF CoversIn, First
  <1>4. UNCHANGED <<threads_, deleted, mutator_writer, mutator_readers>>
    BY DEF SuspendNext, mutator, registry
  <1>5. CASE /\ todo = {} /\ suspend_new_count_' = suspend_new_count_ + 1
             /\ thread_lock_' = Nobody /\ Return(a)
             /\ UNCHANGED <<suspend_count_, suspend_request>>
    <2> DEFINE s == <<>> \o Tail(work[a])
    <2>1. s \in Seq(Instructions) /\ Shape(s) /\ s # <<>> /\ s[1].op = "writeLock"
      BY <1>1, SafepointReturn
    <2>2. work' = [work EXCEPT ![a] = s]
      BY <1>5 DEF Return, Do
    <2> HIDE DEF s
    <2>3. /\ Stopping(s) /\ ~Unregistering(s) /\ \A u : ~HoldsIn(s, u)
          /\ ~First(s, "suspendAll") /\ ~First(s, "resumeAll")
      BY <2>1, InsideSafepoint DEF SafepointOps, First
    <2>4. work' \in [Actors -> Seq(Instructions)] /\ ShapeInv' /\ HeldInv'
      BY <1>1, <1>4, <2>1, <2>2, <2>3, SafepointSets
    <2>5. LockInv'
      BY <1>2, <1>4, <2>1, <2>2, <2>3, SafepointLocks DEF LockFair
    <2>6. WriterInv'
      BY <1>1, <1>4, <2>1, <2>2, SafepointWriter DEF First
    <2>7. \A u \in Threads : CoversIn(s, a, u, threads_) <=> u # a /\ u \in threads_
      BY <2>3 DEF CoversIn
    <2>8. CountInv'
      <3>1. suspend_new_count_' \in Nat
        BY <1>5 DEF TypeOK
      <3>2. \A u \in Threads : CoversIn(work[a], a, u, threads_) <=> CoversIn(s, a, u, threads_)
        BY <1>3, <1>5, <2>7
      <3> QED BY <1>1, <1>4, <1>5, <2>1, <2>2, <2>3, <3>1, <3>2, SafepointNoCount
    <2> QED BY <2>4, <2>5, <2>6, <2>8 DEF Structure
  <1>6. ASSUME NEW t \in todo, IncSuspended(t), Do(a, <<SuspendAll(todo \ {t})>>),
               UNCHANGED <<suspend_new_count_, thread_lock_>>
        PROVE  work' \in [Actors -> Seq(Instructions)] /\ Structure'
    <2> DEFINE x == SuspendAll(todo \ {t})
               s == <<x>> \o Tail(work[a])
    <2>1. x \in Instructions /\ x.op = "suspendAll" /\ x.todo = todo \ {t}
      BY <1>2, InstrMade DEF SuspendAll
    <2> HIDE DEF x
    <2>2. s \in Seq(Instructions) /\ s # <<>> /\ s[1] = x /\ Shape(s)
      BY <1>1, <2>1, SafepointTurn
    <2>3. work' = [work EXCEPT ![a] = s]
      BY <1>6 DEF Do, x
    <2> HIDE DEF s, todo
    <2>4. /\ ~Stopping(s) /\ ~Unregistering(s) /\ \A u : ~HoldsIn(s, u)
          /\ First(s, "suspendAll") /\ ~First(s, "resumeAll")
      BY <2>1, <2>2, InsideSafepoint DEF SafepointOps, First
    <2>5. work' \in [Actors -> Seq(Instructions)] /\ ShapeInv' /\ HeldInv'
      BY <1>1, <1>4, <2>2, <2>3, <2>4, SafepointSets
    <2>6. LockInv'
      BY <1>2, <1>4, <1>6, <2>1, <2>2, <2>3, <2>4, SafepointLocks DEF LockFair
    <2>7. WriterInv'
      BY <1>1, <1>4, <2>2, <2>3, SafepointWriter DEF First
    <2>8. \A u \in Threads :
            CoversIn(s, a, u, threads_) <=> u # a /\ u \in threads_ /\ (u \notin todo \/ u = t)
      BY <2>1, <2>2, <2>4 DEF CoversIn
    <2>9. CountInv'
      <3>2. \A u \in Threads \ {t} :
              /\ CoversIn(work[a], a, u, threads_) <=> CoversIn(s, a, u, threads_)
              /\ suspend_count_'[u] = suspend_count_[u]
              /\ suspend_request'[u] = suspend_request[u]
        BY <1>3, <1>6, <2>8 DEF IncSuspended, TypeOK
      <3>3. /\ t \in Threads /\ t \in threads_
            /\ ~CoversIn(work[a], a, t, threads_) /\ CoversIn(s, a, t, threads_)
            /\ suspend_count_'[t] = suspend_count_[t] + 1 /\ suspend_request'[t] = TRUE
        BY <1>2, <1>3, <1>6, <2>8 DEF IncSuspended, TypeOK
      <3> QED BY <1>1, <1>4, <1>6, <2>2, <2>3, <2>4, <3>2, <3>3, SafepointCountUp
    <2> QED BY <2>5, <2>6, <2>7, <2>9 DEF Structure
  <1> QED BY <1>5, <1>6 DEF SuspendNext

LEMMA WriteLockStep ==
  ASSUME SuspensionAssumption, TypeOK, Structure, NEW a \in Actors,
         MutatorWriteLock(a) \/ MutatorWriteUnlock(a)
  PROVE  work' \in [Actors -> Seq(Instructions)] /\ Structure'
  <1> DEFINE s == <<>> \o Tail(work[a])
  <1>1. /\ work[a] \in Seq(Instructions) /\ Shape(work[a]) /\ work[a] # <<>>
        /\ work[a][1].op \in {"writeLock", "writeUnlock"} /\ work[a][1].op \in SafepointOps
        /\ Stopping(work[a])
        /\ work[a][1].op = "writeLock" <=> MutatorWriteLock(a)
    <2>1. CASE MutatorWriteLock(a)
      BY <2>1, SafepointFirst DEF MutatorWriteLock, SafepointOps
    <2>2. CASE MutatorWriteUnlock(a)
      <3>1. At(a, "writeUnlock")
        BY <2>2 DEF MutatorWriteUnlock
      <3>2. ~MutatorWriteLock(a)
        BY <3>1 DEF MutatorWriteLock, At
      <3> QED BY <3>1, <3>2, SafepointFirst DEF SafepointOps
    <2> QED BY <2>1, <2>2
  <1>2. /\ s \in Seq(Instructions) /\ Shape(s) /\ s # <<>>
        /\ s[1].op \in {"writeUnlock", "resumeAllLock"}
        /\ MutatorWriteLock(a) => s[1].op = "writeUnlock"
    BY <1>1, SafepointReturn
  <1>3. /\ work' = [work EXCEPT ![a] = s]
        /\ UNCHANGED <<suspend_count_, suspend_request, suspend_new_count_, threads_, deleted,
                       mutator_readers, thread_lock_>>
    BY DEF MutatorWriteLock, MutatorWriteUnlock, Return, Do, fts, counters, registry
  <1> HIDE DEF s
  <1>4. /\ Stopping(s) /\ ~Unregistering(s) /\ \A u : ~HoldsIn(s, u)
        /\ ~First(s, "suspendAll") /\ ~First(s, "resumeAll")
    BY <1>2, InsideSafepoint DEF SafepointOps, First
  <1>5. /\ work' \in [Actors -> Seq(Instructions)] /\ ShapeInv' /\ HeldInv'
        /\ work'[a] = s /\ \A b \in Actors \ {a} : work'[b] = work[b]
    BY <1>1, <1>2, <1>3, <1>4, SafepointSets
  <1>6. LockInv'
    BY <1>2, <1>3, <1>4, SafepointLocks DEF LockFair
  <1>7. WriterInv'
    BY <1>1, <1>2, <1>5 DEF WriterInv, MutatorWriteLock, MutatorWriteUnlock, First
  <1>8. \A u \in Threads : CoversIn(work[a], a, u, threads_) <=> CoversIn(s, a, u, threads_)
    BY <1>1, <1>4 DEF CoversIn
  <1>9. CountInv'
    <2>1. suspend_new_count_' \in Nat
      BY <1>3 DEF TypeOK
    <2> QED BY <1>1, <1>2, <1>3, <1>4, <1>8, <2>1, SafepointNoCount
  <1> QED BY <1>5, <1>6, <1>7, <1>9 DEF Structure

LEMMA ResumeAllBegins ==
  ASSUME SuspensionAssumption, TypeOK, Structure, NEW a \in Actors, ResumeAllThreads(a)
  PROVE  work' \in [Actors -> Seq(Instructions)] /\ Structure'
  <1> DEFINE todo == threads_ \ {a}
             s == <<ResumeAll(todo)>> \o Tail(work[a])
  <1>1. /\ work[a] \in Seq(Instructions) /\ Shape(work[a]) /\ work[a] # <<>>
        /\ work[a][1].op = "resumeAllLock" /\ work[a][1].op \in SafepointOps
        /\ Stopping(work[a])
    BY SafepointFirst DEF ResumeAllThreads, SafepointOps
  <1>2. /\ ResumeAll(todo) \in Instructions
        /\ ResumeAll(todo).op = "resumeAll" /\ ResumeAll(todo).todo = todo
    BY InstrMade DEF ResumeAll, TypeOK
  <1>3. s \in Seq(Instructions) /\ s # <<>> /\ s[1] = ResumeAll(todo) /\ Shape(s)
    BY <1>1, <1>2, SafepointTurn
  <1>4. /\ work' = [work EXCEPT ![a] = s]
        /\ thread_lock_ = Nobody /\ thread_lock_' = a
        /\ suspend_new_count_' = IF suspend_new_count_ > 0 THEN suspend_new_count_ - 1
                                                          ELSE suspend_new_count_
        /\ UNCHANGED <<suspend_count_, suspend_request, threads_, deleted,
                       mutator_writer, mutator_readers>>
    BY DEF ResumeAllThreads, Do, fts, mutator, registry
  <1> HIDE DEF s
  <1>5. /\ ~Stopping(s) /\ ~Unregistering(s) /\ \A u : ~HoldsIn(s, u)
        /\ First(s, "resumeAll") /\ ~First(s, "suspendAll")
    BY <1>2, <1>3, InsideSafepoint DEF SafepointOps, First
  <1>6. work' \in [Actors -> Seq(Instructions)] /\ ShapeInv' /\ HeldInv'
    BY <1>1, <1>3, <1>4, <1>5, SafepointSets
  <1>7. LockInv'
    BY <1>2, <1>3, <1>4, <1>5, SafepointLocks DEF LockFair
  <1>8. WriterInv'
    BY <1>1, <1>3, <1>4, SafepointWriter DEF First
  <1>9. \A u \in Threads : CoversIn(work[a], a, u, threads_) <=> CoversIn(s, a, u, threads_)
    BY <1>1, <1>2, <1>3, <1>5 DEF CoversIn, First
  <1>10. suspend_new_count_' + 1 = suspend_new_count_ /\ suspend_new_count_' \in Nat
    <2>1. suspend_new_count_ = Cardinality(StopSet(work)) /\ suspend_new_count_ \in Nat
      BY DEF CountInv, Structure, TypeOK
    <2>2. StopSet(work) \in SUBSET Actors /\ StopSet(work) # {}
      BY <1>1 DEF StopSet
    <2>3. suspend_new_count_ > 0
      BY <2>1, <2>2, Positive
    <2> QED BY <1>4, <2>1, <2>3
  <1>11. CountInv'
    BY <1>1, <1>3, <1>4, <1>5, <1>9, <1>10, SafepointNoCount
  <1> QED BY <1>6, <1>7, <1>8, <1>11 DEF Structure

LEMMA ResumeNextStep ==
  ASSUME SuspensionAssumption, TypeOK, Structure, NEW a \in Actors, ResumeNext(a)
  PROVE  work' \in [Actors -> Seq(Instructions)] /\ Structure'
  <1> DEFINE todo == Arg(a).todo
  <1>1. /\ work[a] \in Seq(Instructions) /\ Shape(work[a]) /\ work[a] # <<>>
        /\ work[a][1].op = "resumeAll" /\ work[a][1].op \in SafepointOps
        /\ Arg(a) = work[a][1] /\ work[a][1] \in Instructions
        /\ ~Stopping(work[a])
    BY SafepointFirst DEF ResumeNext, SafepointOps
  <1>2. todo \subseteq Threads /\ todo \subseteq threads_ \ {a} /\ thread_lock_ = a
    BY <1>1, InstrFields DEF LockInv, First, Structure
  <1>3. \A u \in Threads :
          CoversIn(work[a], a, u, threads_) <=> u # a /\ u \in threads_ /\ u \in todo
    BY <1>1 DEF CoversIn, First
  <1>4. UNCHANGED <<suspend_new_count_, threads_, deleted, mutator_writer, mutator_readers>>
    BY DEF ResumeNext, mutator, registry
  <1>5. CASE /\ todo = {} /\ thread_lock_' = Nobody /\ Return(a)
             /\ UNCHANGED <<suspend_count_, suspend_request>>
    <2> DEFINE s == <<>> \o Tail(work[a])
    <2>1. s \in Seq(Instructions) /\ Shape(s)
      BY <1>1, SafepointReturn
    <2>2. work' = [work EXCEPT ![a] = s]
      BY <1>5 DEF Return, Do
    <2>3. /\ ~Stopping(s) /\ ~Unregistering(s) /\ \A u : ~HoldsIn(s, u)
          /\ ~First(s, "suspendAll") /\ ~First(s, "resumeAll")
      BY <1>1, SafepointReturn DEF Plain
    <2> HIDE DEF s
    <2>4. work' \in [Actors -> Seq(Instructions)] /\ ShapeInv' /\ HeldInv'
      BY <1>1, <1>4, <2>1, <2>2, <2>3, SafepointSets
    <2>5. LockInv'
      BY <1>2, <1>4, <2>1, <2>2, <2>3, SafepointLocks DEF LockFair
    <2>6. WriterInv'
      BY <1>1, <1>4, <2>1, <2>2, SafepointWriter DEF First
    <2>7. \A u \in Threads : ~CoversIn(s, a, u, threads_)
      BY <2>3 DEF CoversIn
    <2>8. CountInv'
      <3>1. suspend_new_count_' \in Nat
        BY <1>4 DEF TypeOK
      <3>2. \A u \in Threads : CoversIn(work[a], a, u, threads_) <=> CoversIn(s, a, u, threads_)
        BY <1>3, <1>5, <2>7
      <3> QED BY <1>1, <1>4, <1>5, <2>1, <2>2, <2>3, <3>1, <3>2, SafepointNoCount
    <2> QED BY <2>4, <2>5, <2>6, <2>8 DEF Structure
  <1>6. ASSUME NEW t \in todo, DecSuspended(t), Do(a, <<ResumeAll(todo \ {t})>>),
               UNCHANGED thread_lock_
        PROVE  work' \in [Actors -> Seq(Instructions)] /\ Structure'
    <2> DEFINE x == ResumeAll(todo \ {t})
               s == <<x>> \o Tail(work[a])
    <2>1. x \in Instructions /\ x.op = "resumeAll" /\ x.todo = todo \ {t}
      BY <1>2, InstrMade DEF ResumeAll
    <2> HIDE DEF x
    <2>2. s \in Seq(Instructions) /\ s # <<>> /\ s[1] = x /\ Shape(s)
      BY <1>1, <2>1, SafepointTurn
    <2>3. work' = [work EXCEPT ![a] = s]
      BY <1>6 DEF Do, x
    <2> HIDE DEF s, todo
    <2>4. /\ ~Stopping(s) /\ ~Unregistering(s) /\ \A u : ~HoldsIn(s, u)
          /\ First(s, "resumeAll") /\ ~First(s, "suspendAll")
      BY <2>1, <2>2, InsideSafepoint DEF SafepointOps, First
    <2>5. work' \in [Actors -> Seq(Instructions)] /\ ShapeInv' /\ HeldInv'
      BY <1>1, <1>4, <2>2, <2>3, <2>4, SafepointSets
    <2>6. LockInv'
      BY <1>2, <1>4, <1>6, <2>1, <2>2, <2>3, <2>4, SafepointLocks DEF LockFair
    <2>7. WriterInv'
      BY <1>1, <1>4, <2>2, <2>3, SafepointWriter DEF First
    <2>8. \A u \in Threads :
            CoversIn(s, a, u, threads_) <=> u # a /\ u \in threads_ /\ u \in todo /\ u # t
      BY <2>1, <2>2, <2>4 DEF CoversIn
    <2>9. CountInv'
      <3>2. \A u \in Threads \ {t} :
              /\ CoversIn(work[a], a, u, threads_) <=> CoversIn(s, a, u, threads_)
              /\ suspend_count_'[u] = suspend_count_[u]
              /\ suspend_request'[u] = suspend_request[u]
        BY <1>3, <1>6, <2>8 DEF DecSuspended, TypeOK
      <3>3. /\ t \in Threads /\ t \in threads_
            /\ CoversIn(work[a], a, t, threads_) /\ ~CoversIn(s, a, t, threads_)
        BY <1>2, <1>3, <1>6, <2>8
      <3>4. DecSuspended(t)
        BY <1>6
      <3>5. t \in threads_ /\ UNCHANGED suspend_new_count_ /\ UNCHANGED <<threads_, deleted>>
        BY <1>4, <3>3
      <3> QED BY <1>1, <2>2, <2>3, <2>4, <3>2, <3>3, <3>4, <3>5, SafepointCountDown
    <2> QED BY <2>5, <2>6, <2>7, <2>9 DEF Structure
  <1> QED BY <1>5, <1>6 DEF ResumeNext

(* An actor that is in a safepoint, or has just left it, holds no suspension by id. *)
LEMMA SafepointHoldsNothing ==
  ASSUME TypeOK, Structure, NEW a \in Actors, RendezvousStep(a)
  PROVE  \E s \in Seq(Instructions) :
           work' = [work EXCEPT ![a] = s] /\ \A u : ~HoldsIn(s, u)
  <1>1. PICK op \in SafepointOps : At(a, op)
    BY DEF RendezvousStep, SuspendAllThreads, SuspendNext, MutatorWriteLock,
           MutatorWriteUnlock, ResumeAllThreads, ResumeNext, SafepointOps
  <1> DEFINE w == work[a]
  <1>2. /\ w \in Seq(Instructions) /\ Shape(w) /\ w # <<>>
        /\ w[1].op \in SafepointOps
        /\ Arg(a) = w[1] /\ w[1] \in Instructions
    BY <1>1, SafepointFirst
  <1>3. \A i \in 2..Len(w) : w[i].op # "resume"
    BY <1>2, InsideSafepoint
  <1> HIDE DEF w
  <1>4. ASSUME NEW p \in Seq(Instructions), \A i \in 1..Len(p) : p[i].op # "resume",
               Do(a, p)
        PROVE  \E s \in Seq(Instructions) :
                 work' = [work EXCEPT ![a] = s] /\ \A u : ~HoldsIn(s, u)
    <2> DEFINE s == p \o Tail(w)
    <2>1. /\ s \in Seq(Instructions)
          /\ Len(s) = Len(p) + Len(w) - 1
          /\ Len(w) \in Nat \ {0} /\ Len(p) \in Nat
          /\ \A i \in 1..Len(p) : s[i] = p[i]
          /\ \A i \in 1..Len(s) : i > Len(p) => s[i] = w[i - Len(p) + 1]
      BY <1>2, Replaced
    <2>2. work' = [work EXCEPT ![a] = s]
      BY <1>4 DEF Do, w
    <2> HIDE DEF s
    <2>3. \A i \in DOMAIN s : s[i].op # "resume"
      <3> TAKE i \in DOMAIN s
      <3>1. i \in 1..Len(s)
        BY <2>1
      <3>2. CASE i <= Len(p)
        BY <1>4, <2>1, <3>1, <3>2
      <3>3. CASE i > Len(p)
        <4>1. i - Len(p) + 1 \in 2..Len(w)
          BY <2>1, <3>1, <3>3
        <4>2. s[i] = w[i - Len(p) + 1]
          BY <2>1, <3>1, <3>3
        <4> QED BY <1>3, <4>1, <4>2
      <3> QED BY <2>1, <3>1, <3>2, <3>3
    <2> QED BY <2>1, <2>2, <2>3 DEF HoldsIn
  <1>5. ASSUME Return(a)
        PROVE  \E s \in Seq(Instructions) :
                 work' = [work EXCEPT ![a] = s] /\ \A u : ~HoldsIn(s, u)
    <2>1. <<>> \in Seq(Instructions) /\ \A i \in 1..Len(<<>>) : <<>>[i].op # "resume"
      OBVIOUS
    <2> QED BY <1>4, <1>5, <2>1 DEF Return
  <1>6. ASSUME NEW x \in SUBSET Threads, Do(a, <<SuspendAll(x)>>) \/ Do(a, <<ResumeAll(x)>>)
        PROVE  \E s \in Seq(Instructions) :
                 work' = [work EXCEPT ![a] = s] /\ \A u : ~HoldsIn(s, u)
    <2>1. SuspendAll(x) \in Instructions /\ ResumeAll(x) \in Instructions
      BY InstrMade
    <2>2. SuspendAll(x).op # "resume" /\ ResumeAll(x).op # "resume"
      BY DEF SuspendAll, ResumeAll
    <2>3. /\ <<SuspendAll(x)>> \in Seq(Instructions)
          /\ \A i \in 1..Len(<<SuspendAll(x)>>) : <<SuspendAll(x)>>[i].op # "resume"
      BY <2>1, <2>2
    <2>4. /\ <<ResumeAll(x)>> \in Seq(Instructions)
          /\ \A i \in 1..Len(<<ResumeAll(x)>>) : <<ResumeAll(x)>>[i].op # "resume"
      BY <2>1, <2>2
    <2> QED BY <1>4, <1>6, <2>3, <2>4
  <1>7. CASE SuspendAllThreads(a) \/ ResumeAllThreads(a)
    <2>1. threads_ \ {a} \in SUBSET Threads
      BY DEF TypeOK
    <2> QED BY <1>6, <1>7, <2>1 DEF SuspendAllThreads, ResumeAllThreads
  <1>8. CASE MutatorWriteLock(a) \/ MutatorWriteUnlock(a)
    BY <1>5, <1>8 DEF MutatorWriteLock, MutatorWriteUnlock
  <1>9. CASE SuspendNext(a) \/ ResumeNext(a)
    <2>1. w[1].op \in {"suspendAll", "resumeAll"}
      BY <1>9, SafepointFirst DEF SuspendNext, ResumeNext, SafepointOps, w
    <2>2. \A t : Arg(a).todo \ {t} \in SUBSET Threads
      BY <1>2, <2>1, InstrFields
    <2>3. CASE Return(a)
      BY <1>5, <2>3
    <2>4. CASE \E t : Do(a, <<SuspendAll(Arg(a).todo \ {t})>>)
                      \/ Do(a, <<ResumeAll(Arg(a).todo \ {t})>>)
      <3>1. PICK t : Do(a, <<SuspendAll(Arg(a).todo \ {t})>>)
                     \/ Do(a, <<ResumeAll(Arg(a).todo \ {t})>>)
        BY <2>4
      <3> DEFINE x == Arg(a).todo \ {t}
      <3>2. x \in SUBSET Threads
        BY <2>2
      <3>3. Do(a, <<SuspendAll(x)>>) \/ Do(a, <<ResumeAll(x)>>)
        BY <3>1
      <3> HIDE DEF x
      <3> QED BY <1>6, <3>2, <3>3
    <2>5. Return(a) \/ \E t : Do(a, <<SuspendAll(Arg(a).todo \ {t})>>)
                              \/ Do(a, <<ResumeAll(Arg(a).todo \ {t})>>)
      BY <1>9, Zenon DEF SuspendNext, ResumeNext
    <2> QED BY <2>3, <2>4, <2>5
  <1> QED BY <1>7, <1>8, <1>9 DEF RendezvousStep

(* Every step keeps the shapes, the locks and the counters. *)
LEMMA StructureStep ==
  ASSUME SuspensionAssumption, TypeOK, Structure, CreatedInv, NEW a \in Actors,
         Step(a) \/ Call(a)
  PROVE  work' \in [Actors -> Seq(Instructions)] /\ Structure'
  <1> USE DEF fts, counters, mutator, registry
  <1>1. CASE RendezvousStep(a)
    BY <1>1, SuspendAllBegins, SuspendNextStep, WriteLockStep, ResumeAllBegins,
       ResumeNextStep DEF RendezvousStep
  <1>2. CASE a \in Threads /\ NeutralStep(a)
    <2>1. Calm(a)
      BY <1>2, NeutralStepCalm DEF Structure
    <2>2. /\ LockFair(a)
          /\ UNCHANGED <<suspend_count_, suspend_request, suspend_new_count_, threads_, deleted,
                         mutator_writer>>
          /\ mutator_writer # Nobody => mutator_readers' \subseteq mutator_readers
      BY <1>2 DEF NeutralStep, LockFair, Update, Store, StoreIfNoFlags, MutatorReadLock, Poll,
                  Resumed, ThreadIsSuspended, UnregisterEnter
    <2> QED BY <2>1, <2>2, CalmStep
  <1>3. CASE a \in Threads /\ SuspendThreadById(a)
    <2>1. UNCHANGED <<suspend_new_count_, threads_, deleted, mutator_writer, mutator_readers,
                      thread_lock_>>
      BY <1>3 DEF SuspendThreadById
    <2>2. CASE Calm(a) /\ UNCHANGED <<suspend_count_, suspend_request>>
      BY <2>1, <2>2, CalmStep DEF LockFair
    <2>3. ASSUME NEW owner \in Threads, Suspends(a, owner)
          PROVE  work' \in [Actors -> Seq(Instructions)] /\ Structure'
      <3>1. First(work[a], "suspendThread")
        BY <1>3, SuspendThreadSplit DEF Structure
      <3> QED BY <1>3, <2>1, <2>3, <3>1, SuspendStep
    <2> QED BY <1>3, <2>2, <2>3, SuspendThreadSplit DEF Structure
  <1>4. CASE a \in Threads /\ ResumeOwner(a)
    BY <1>4, ResumeOwnerStep
  <1>5. CASE a \in Threads /\ ResumeOwnerEnd(a)
    <2>1. /\ LockFair(a)
          /\ UNCHANGED <<suspend_count_, suspend_request, suspend_new_count_, threads_, deleted,
                         mutator_writer, mutator_readers>>
      BY <1>5 DEF LockFair, ResumeOwnerEnd
    <2> QED BY <1>5, <2>1, ResumeEndCalm, CalmStep DEF Structure
  <1>6. CASE a \in Threads /\ UnregisterExitedThread(a)
    BY <1>6, UnregisterExitStep
  <1>7. CASE a \in Threads /\ RegisterThread(a)
    BY <1>7, RegisterStep
  <1>8. CASE Call(a) /\ ~(a \in Threads /\ RegisterThread(a))
    <2>1. /\ LockFair(a)
          /\ UNCHANGED <<suspend_count_, suspend_request, suspend_new_count_, threads_, deleted,
                         mutator_writer>>
          /\ mutator_readers' \subseteq mutator_readers
      BY <1>8 DEF LockFair, Call, StartSafepoint, ManagedCodePolls, SwitchCode, Destroy,
                  SuspendOwner
    <2> QED BY <1>8, <2>1, CallCalm, CalmStep
  <1> QED
    BY <1>1, <1>2, <1>3, <1>4, <1>5, <1>6, <1>7, <1>8
       DEF Step, StatusStep, SuspendThreadStep, UnregisterStep, NeutralStep

(* Only its own steps change the status of a thread; none makes it CREATED, and it
   becomes RUNNING only when nobody asks it to suspend. *)
StatusKept(a) ==
  \/ UNCHANGED status
  \/ /\ a \in Threads /\ NeutralStep(a)
     /\ \E x \in Statuses \ {"CREATED"} :
          /\ status' = [status EXCEPT ![a] = x]
          /\ x = "RUNNING" => ~suspend_request[a]

LEMMA StatusSteps ==
  ASSUME TypeOK, ShapeInv, NEW a \in Actors, Step(a) \/ Call(a)
  PROVE  StatusKept(a)
  <1> USE DEF fts
  <1>1. /\ \A op : At(a, op) <=> First(work[a], op)
        /\ work[a] # <<>> => /\ Arg(a) = work[a][1] /\ work[a][1] \in Instructions
                             /\ InstrShape(work[a], 1)
    BY FirstInstr
  <1>2. ASSUME a \in Threads, work[a] # <<>>, work[a][1].op \in StatusOps
        PROVE  /\ Arg(a).status \in Statuses \ {"CREATED"}
               /\ work[a][1].op = "store" => Arg(a).status # "RUNNING"
    BY <1>1, <1>2, InstrFields DEF InstrShape
  <1>3. CASE a \in Threads /\ Update(a)
    <2>1. work[a] # <<>> /\ work[a][1].op \in StatusOps
      BY <1>1, <1>3 DEF Update, First, StatusOps
    <2>2. Arg(a).status \in Statuses \ {"CREATED"}
      BY <1>2, <1>3, <2>1
    <2>3. \/ UNCHANGED status
          \/ Arg(a).status # "RUNNING" /\ status' = [status EXCEPT ![a] = Arg(a).status]
      BY <1>3 DEF Update
    <2> QED BY <1>3, <2>2, <2>3 DEF StatusKept, NeutralStep
  <1>4. CASE a \in Threads /\ Store(a)
    <2>1. work[a] # <<>> /\ work[a][1].op \in StatusOps /\ work[a][1].op = "store"
      BY <1>1, <1>4 DEF Store, First, StatusOps
    <2>2. Arg(a).status \in Statuses \ {"CREATED"} /\ Arg(a).status # "RUNNING"
      BY <1>2, <1>4, <2>1
    <2>3. status' = [status EXCEPT ![a] = Arg(a).status]
      BY <1>4 DEF Store
    <2> QED BY <1>4, <2>2, <2>3 DEF StatusKept, NeutralStep
  <1>5. CASE a \in Threads /\ StoreIfNoFlags(a)
    <2>1. work[a] # <<>> /\ work[a][1].op \in StatusOps
      BY <1>1, <1>5 DEF StoreIfNoFlags, First, StatusOps
    <2>2. Arg(a).status \in Statuses \ {"CREATED"}
      BY <1>2, <1>5, <2>1
    <2>3. \/ UNCHANGED status
          \/ ~suspend_request[a] /\ status' = [status EXCEPT ![a] = Arg(a).status]
      BY <1>5, Zenon DEF StoreIfNoFlags
    <2> QED BY <1>5, <2>2, <2>3, Zenon DEF StatusKept, NeutralStep
  <1>6. CASE ~(a \in Threads /\ (Update(a) \/ Store(a) \/ StoreIfNoFlags(a)))
    BY <1>6 DEF StatusKept, Step, Call, RendezvousStep, StatusStep, SuspendThreadStep,
                UnregisterStep, SuspendAllThreads, SuspendNext, MutatorWriteLock,
                MutatorWriteUnlock, ResumeAllThreads, ResumeNext, MutatorReadLock, Poll, Resumed,
                SuspendThreadById, ThreadIsSuspended, ResumeOwner, ResumeOwnerEnd,
                UnregisterEnter, UnregisterExitedThread, StartSafepoint, RegisterThread,
                ManagedCodePolls, SwitchCode, Destroy, SuspendOwner
  <1> QED BY <1>3, <1>4, <1>5, <1>6

(* A step changes its own actor's continuation, and registers or deletes its own thread. *)
LEMMA OwnWork ==
  ASSUME TypeOK, NEW a \in Actors, Step(a) \/ Call(a)
  PROVE  /\ \A b \in Actors \ {a} : work'[b] = work[b]
         /\ threads_' \subseteq threads_ \cup {a} /\ deleted' \subseteq deleted \cup {a}
  <1>1. \E s : work' = [work EXCEPT ![a] = s]
    BY DEF Step, Call, RendezvousStep, StatusStep, SuspendThreadStep, UnregisterStep,
           SuspendAllThreads, SuspendNext, MutatorWriteLock, MutatorWriteUnlock,
           ResumeAllThreads, ResumeNext, Update, Store, StoreIfNoFlags, MutatorReadLock, Poll,
           Resumed, SuspendThreadById, ThreadIsSuspended, ResumeOwner, ResumeOwnerEnd,
           UnregisterEnter, UnregisterExitedThread, StartSafepoint, RegisterThread,
           ManagedCodePolls, SwitchCode, Destroy, SuspendOwner, Begin, Do, Return
  <1>2. /\ threads_' \subseteq threads_ \cup {a} /\ deleted' \subseteq deleted \cup {a}
    BY DEF Step, Call, RendezvousStep, StatusStep, SuspendThreadStep, UnregisterStep,
           SuspendAllThreads, SuspendNext, MutatorWriteLock, MutatorWriteUnlock,
           ResumeAllThreads, ResumeNext, Update, Store, StoreIfNoFlags, MutatorReadLock, Poll,
           Resumed, SuspendThreadById, ThreadIsSuspended, ResumeOwner, ResumeOwnerEnd,
           UnregisterEnter, UnregisterExitedThread, StartSafepoint, RegisterThread,
           ManagedCodePolls, SwitchCode, Destroy, SuspendOwner, registry
  <1> QED BY <1>1, <1>2 DEF TypeOK

(* A step executes the first instruction, a call begins without one. *)
LEMMA StepNeedsInstr ==
  ASSUME TypeOK, ShapeInv, NEW a \in Actors
  PROVE  /\ Step(a) => work[a] # <<>>
         /\ Step(a) /\ work[a][1].op = "update" => a \in Threads /\ Update(a)
         /\ Call(a) => work[a] = <<>>
  <1>1. \A op : At(a, op) <=> First(work[a], op)
    BY FirstInstr
  <1>2. Call(a) => work[a] = <<>>
    BY CallCalm DEF Idle
  <1>3. Step(a) => (a \in Threads /\ Update(a)) \/
                   \E op \in SafepointOps \cup LastOps \cup
                             {"store", "storeWithSafepoint", "readLock", "poll", "awaitResume",
                              "waitNotRunning", "unregisterLock"} : At(a, op)
    BY DEF Step, RendezvousStep, StatusStep, SuspendThreadStep, UnregisterStep,
           SuspendAllThreads, SuspendNext, MutatorWriteLock, MutatorWriteUnlock,
           ResumeAllThreads, ResumeNext, Store, StoreIfNoFlags, MutatorReadLock, Poll,
           Resumed, SuspendThreadById, ThreadIsSuspended, ResumeOwner, ResumeOwnerEnd,
           UnregisterEnter, UnregisterExitedThread, SafepointOps, LastOps
  <1>4. Update(a) => At(a, "update")
    BY DEF Update
  <1> QED BY <1>1, <1>2, <1>3, <1>4 DEF First, SafepointOps, LastOps

LEMMA CreatedStep ==
  ASSUME SuspensionAssumption, TypeOK, ShapeInv, CreatedInv, NEW a \in Actors,
         Step(a) \/ Call(a)
  PROVE  CreatedInv'
  <1>1. SUFFICES ASSUME NEW u \in Threads, status'[u] = "CREATED"
                 PROVE  IF work'[u] = <<>> THEN u \notin threads_' \cup deleted'
                        ELSE /\ Len(work'[u]) = 1 /\ work'[u][1].op = "update"
                             /\ work'[u][1].status = "NATIVE"
    BY DEF CreatedInv
  <1>2. u \in Actors
    BY DEF Actors
  <1>3. status[u] = "CREATED"
    <2>1. StatusKept(a)
      BY StatusSteps
    <2> QED BY <1>1, <2>1 DEF StatusKept, TypeOK
  <1>4. /\ \A b \in Actors \ {a} : work'[b] = work[b]
        /\ threads_' \subseteq threads_ \cup {a} /\ deleted' \subseteq deleted \cup {a}
    BY OwnWork
  <1>5. CASE u # a
    BY <1>2, <1>3, <1>4, <1>5 DEF CreatedInv
  <1>6. CASE u = a /\ work[u] = <<>>
    <2>1. Call(a)
      BY <1>6, StepNeedsInstr
    <2>2. RegisterThread(a)
      BY <1>3, <1>6, <2>1 DEF Call, StartSafepoint, ManagedCodePolls, SwitchCode, Destroy,
                              SuspendOwner, SuspensionAssumption
    <2>3. work'[u] = <<UpdateStatus("NATIVE")>>
      BY <1>2, <1>6, <2>2 DEF RegisterThread, Begin, TypeOK
    <2> QED BY <2>3 DEF UpdateStatus
  <1>7. CASE u = a /\ work[u] # <<>>
    <2>1. work[a][1].op = "update" /\ work[a][1].status = "NATIVE"
      BY <1>3, <1>7 DEF CreatedInv
    <2>2. Update(a) /\ Arg(a) = work[a][1]
      BY <1>7, <2>1, StepNeedsInstr, FirstInstr
    <2>3. status' = [status EXCEPT ![a] = "NATIVE"]
      BY <1>3, <1>7, <2>1, <2>2 DEF Update
    <2>4. status'[u] = "NATIVE"
      BY <1>7, <2>3 DEF TypeOK
    <2> QED BY <1>1, <2>4
  <1> QED BY <1>5, <1>6, <1>7

(* Who waits for a thread to stop running waits for the one it resumes afterwards. *)
LEMMA WaitsForHeld ==
  ASSUME NEW w \in Seq(Instructions), w # <<>>, Shape(w), w[1].op = "waitNotRunning",
         NEW t, HoldsIn(w, t)
  PROVE  w[1].thread = t
  <1>1. DOMAIN w = 1..Len(w) /\ Len(w) \in Nat \ {0}
    BY EmptySeq
  <1>2. PICK i \in 1..Len(w) : w[i].op = "resume" /\ w[i].thread = t
    BY <1>1 DEF HoldsIn
  <1>3. InstrShape(w, 1) /\ InstrShape(w, i)
    BY <1>1 DEF Shape
  <1> QED BY <1>2, <1>3 DEF InstrShape, LastOps

LEMMA OwnerStep ==
  ASSUME SuspensionAssumption, TypeOK, Structure, CreatedInv, OwnerInv, NEW a \in Actors,
         Step(a) \/ Call(a)
  PROVE  OwnerInv'
  <1>1. SUFFICES ASSUME NEW b \in Actors, NEW t \in Threads, HoldsIn(work'[b], t),
                        ~Has(work'[b], "waitNotRunning"), status'[t] = "RUNNING"
                 PROVE  FALSE
    BY DEF OwnerInv
  <1>2. ShapeInv /\ HeldInv /\ CountInv /\ LockInv
    BY DEF Structure
  <1>3. StatusKept(a) /\ \A c \in Actors \ {a} : work'[c] = work[c]
    BY <1>2, StatusSteps, OwnWork
  <1>4. CASE a \in Threads /\ NeutralStep(a)
    <2>1. /\ work[a] # <<>>
          /\ work[a][1].op \in StatusOps \cup {"readLock", "poll", "awaitResume",
                                               "waitNotRunning", "unregisterLock"}
          /\ work[a][1].op = "waitNotRunning" => ThreadIsSuspended(a)
      BY <1>2, <1>4, NeutralStepProgram
    <2>2. PICK prog \in Seq(Instructions) :
            /\ \A i \in 1..Len(prog) : Neutral(prog[i])
            /\ work' = [work EXCEPT ![a] = prog \o Tail(@)]
      BY <1>2, <1>4, NeutralStepProgram
    <2>3. work[a] \in Seq(Instructions) /\ Shape(work[a])
      BY <1>2, FirstInstr
    <2> DEFINE s == prog \o Tail(work[a])
    <2>4. /\ s \in Seq(Instructions)
          /\ \A u : HoldsIn(s, u) <=> HoldsIn(work[a], u)
          /\ Has(work[a], "waitNotRunning") =>
               work[a][1].op = "waitNotRunning" \/ Has(s, "waitNotRunning")
      BY <2>1, <2>2, <2>3, NeutralMove
    <2>5. work'[a] = s
      BY <2>2 DEF TypeOK
    <2> HIDE DEF s
    <2>6. HoldsIn(work[b], t)
      BY <1>1, <1>3, <2>4, <2>5
    <2>7. suspend_request[t]
      <3>1. t \in Threads \ deleted
        BY <1>2, <2>6 DEF HeldInv, TypeOK
      <3> QED BY <1>2, <2>6, <3>1, RequestMeans
    <2>8. status[t] = "RUNNING"
      BY <1>1, <1>3, <2>7 DEF StatusKept, TypeOK
    <2>9. Has(work[b], "waitNotRunning")
      BY <2>6, <2>8 DEF OwnerInv
    <2>10. b = a /\ work[a][1].op = "waitNotRunning"
      BY <1>1, <1>3, <2>4, <2>5, <2>9
    <2>11. work[a][1].thread = t
      BY <2>1, <2>3, <2>6, <2>10, WaitsForHeld
    <2>12. status[work[a][1].thread] # "RUNNING"
      <3>1. ThreadIsSuspended(a) /\ Arg(a) = work[a][1]
        BY <1>2, <2>1, <2>10, FirstInstr
      <3> QED BY <3>1 DEF ThreadIsSuspended
    <2> QED BY <2>8, <2>11, <2>12
  <1>5. CASE ~(a \in Threads /\ NeutralStep(a))
    <2>1. status[t] = "RUNNING"
      BY <1>1, <1>3, <1>5 DEF StatusKept
    <2>2. CASE b # a
      BY <1>1, <1>3, <2>1, <2>2 DEF OwnerInv
    <2>3. CASE b = a
      <3>1. CASE RendezvousStep(a)
        <4>1. PICK s \in Seq(Instructions) :
                work' = [work EXCEPT ![a] = s] /\ \A u : ~HoldsIn(s, u)
          BY <3>1, SafepointHoldsNothing
        <4>2. work'[a] = s
          BY <4>1 DEF TypeOK
        <4> QED BY <1>1, <2>3, <4>1, <4>2
      <3>2. CASE a \in Threads /\ SuspendThreadById(a)
        <4>1. CASE Calm(a)
          <5>1. ~HoldsIn(work[a], t)
            <6>1. First(work[a], "suspendThread") /\ work[a] \in Seq(Instructions) /\ Shape(work[a])
              BY <1>2, <3>2, SuspendThreadSplit, FirstInstr
            <6> QED BY <6>1, LastMove DEF First, LastOps
          <5> QED BY <1>1, <2>3, <4>1, <5>1, WorkOfOthers DEF Calm
        <4>2. ASSUME NEW owner \in Threads, Suspends(a, owner)
              PROVE  FALSE
          <5>1. Has(Suspended(owner), "waitNotRunning")
            BY SuspendedProgram
          <5>2. work'[a] = Suspended(owner)
            BY <4>2 DEF Suspends, TypeOK
          <5> QED BY <1>1, <2>3, <5>1, <5>2
        <4> QED BY <1>2, <3>2, <4>1, <4>2, SuspendThreadSplit
      <3>3. CASE a \in Threads /\ ResumeOwner(a)
        <4>1. /\ First(work[a], "resume") /\ work[a] \in Seq(Instructions) /\ Shape(work[a])
              /\ work[a] # <<>> /\ Arg(a) = work[a][1] /\ work[a][1] \in Instructions
          BY <1>2, <3>3, FirstInstr DEF ResumeOwner, First
        <4>2. Arg(a).thread \in Threads
          BY <4>1, InstrFields DEF First
        <4> DEFINE s == <<ResumeImplEnd(Arg(a).thread)>>
        <4>3. s \in Seq(Instructions) /\ \A u : ~HoldsIn(s, u)
          BY <4>2, ResumeProgram
        <4>4. s \o Tail(work[a]) = s
          BY <4>1, <4>3, LastMove DEF First, LastOps
        <4>5. work'[a] = s
          BY <3>3, <4>4 DEF ResumeOwner, Do, TypeOK
        <4> QED BY <1>1, <2>3, <4>3, <4>5
      <3>4. CASE Calm(a) /\ ~HoldsIn(work[a], t)
        BY <1>1, <2>3, <3>4, WorkOfOthers DEF Calm
      <3>5. CASE a \in Threads /\ ResumeOwnerEnd(a)
        <4>1. Calm(a) /\ First(work[a], "resumeEnd") /\ work[a] \in Seq(Instructions)
              /\ Shape(work[a])
          BY <1>2, <3>5, ResumeEndCalm, FirstInstr
        <4>2. ~HoldsIn(work[a], t)
          BY <4>1, LastMove DEF First, LastOps
        <4> QED BY <3>4, <4>1, <4>2
      <3>6. CASE a \in Threads /\ UnregisterExitedThread(a)
        <4>1. Calm(a) /\ First(work[a], "unregisterCheck") /\ work[a] \in Seq(Instructions)
              /\ Shape(work[a])
          BY <1>2, <3>6, UnregisterCalm, FirstInstr
        <4>2. ~HoldsIn(work[a], t)
          BY <4>1, LastMove DEF First, LastOps
        <4> QED BY <3>4, <4>1, <4>2
      <3>7. CASE Call(a)
        <4>1. Calm(a) /\ work[a] = <<>>
          BY <3>7, CallCalm DEF Idle
        <4>2. ~HoldsIn(work[a], t)
          BY <4>1 DEF HoldsIn
        <4> QED BY <3>4, <4>1, <4>2
      <3> QED
        BY <1>5, <3>1, <3>2, <3>3, <3>5, <3>6, <3>7
           DEF Step, StatusStep, SuspendThreadStep, UnregisterStep, NeutralStep
    <2> QED BY <2>2, <2>3
  <1> QED BY <1>4, <1>5

LEMMA ExceptTyped ==
  ASSUME NEW S, NEW T, NEW f \in [S -> T], NEW x, NEW y, x \in S => y \in T
  PROVE  [f EXCEPT ![x] = y] \in [S -> T]
  OBVIOUS

(* A counter goes up by one, down by one, or by suspend_new_count_. *)
LEMMA CountersTyped ==
  ASSUME TypeOK, NEW a \in Actors, Step(a) \/ Call(a)
  PROVE  /\ suspend_request' \in [Threads -> BOOLEAN]
         /\ suspend_count_' \in [Threads -> Nat]
         /\ suspend_new_count_' \in Nat
  <1> USE DEF fts, counters
  <1>1. ASSUME NEW t, IncSuspended(t) \/ DecSuspended(t)
        PROVE  /\ suspend_request' \in [Threads -> BOOLEAN]
               /\ suspend_count_' \in [Threads -> Nat]
    <2>1. /\ suspend_count_ \in [Threads -> Nat] /\ suspend_request \in [Threads -> BOOLEAN]
          /\ t \in Threads => suspend_count_[t] \in Nat
      BY DEF TypeOK
    <2>2. CASE IncSuspended(t)
      <3>1. /\ t \in Threads => suspend_count_[t] + 1 \in Nat
            /\ t \in Threads => TRUE \in BOOLEAN
        BY <2>1
      <3> QED BY <2>1, <2>2, <3>1, ExceptTyped, Zenon DEF IncSuspended
    <2>3. CASE DecSuspended(t)
      <3>1. /\ t \in Threads => (IF suspend_count_[t] > 0 THEN suspend_count_[t] - 1
                                                         ELSE suspend_count_[t]) \in Nat
            /\ t \in Threads => (suspend_request[t] /\ suspend_count_[t] # 1) \in BOOLEAN
        BY <2>1
      <3> DEFINE c == IF suspend_count_[t] > 0 THEN suspend_count_[t] - 1
                                               ELSE suspend_count_[t]
                 r == suspend_request[t] /\ suspend_count_[t] # 1
      <3>2. /\ suspend_count_' = [suspend_count_ EXCEPT ![t] = c]
            /\ suspend_request' = [suspend_request EXCEPT ![t] = r]
        BY <2>3, Zenon DEF DecSuspended
      <3> HIDE DEF c, r
      <3>3. (t \in Threads => c \in Nat) /\ (t \in Threads => r \in BOOLEAN)
        BY <3>1, Zenon DEF c, r
      <3> QED BY <2>1, <3>2, <3>3, ExceptTyped, Zenon
    <2> QED BY <1>1, <2>2, <2>3
  <1>2. \/ UNCHANGED <<suspend_count_, suspend_request>>
        \/ \E t : IncSuspended(t) \/ DecSuspended(t)
        \/ RegisterThread(a)
    BY DEF Step, Call, RendezvousStep, StatusStep, SuspendThreadStep, UnregisterStep,
           SuspendAllThreads, SuspendNext, MutatorWriteLock, MutatorWriteUnlock,
           ResumeAllThreads, ResumeNext, Update, Store, StoreIfNoFlags, MutatorReadLock, Poll,
           Resumed, SuspendThreadById, ThreadIsSuspended, ResumeOwner, ResumeOwnerEnd,
           UnregisterEnter, UnregisterExitedThread, StartSafepoint,
           ManagedCodePolls, SwitchCode, Destroy, SuspendOwner
  <1>3. suspend_new_count_' \in {suspend_new_count_, suspend_new_count_ + 1}
        \/ (suspend_new_count_ > 0 /\ suspend_new_count_' = suspend_new_count_ - 1)
    BY DEF Step, Call, RendezvousStep, StatusStep, SuspendThreadStep, UnregisterStep,
           SuspendAllThreads, SuspendNext, MutatorWriteLock, MutatorWriteUnlock,
           ResumeAllThreads, ResumeNext, Update, Store, StoreIfNoFlags, MutatorReadLock, Poll,
           Resumed, SuspendThreadById, ThreadIsSuspended, ResumeOwner, ResumeOwnerEnd,
           UnregisterEnter, UnregisterExitedThread, StartSafepoint, RegisterThread,
           ManagedCodePolls, SwitchCode, Destroy, SuspendOwner
  <1>4. CASE RegisterThread(a)
    <2>1. suspend_count_' = [suspend_count_ EXCEPT ![a] = suspend_count_[a] + suspend_new_count_]
      BY <1>4 DEF RegisterThread
    <2>2. suspend_request' = [suspend_request EXCEPT ![a] = suspend_new_count_ > 0]
      BY <1>4 DEF RegisterThread
    <2>3. /\ a \in Threads => suspend_count_[a] + suspend_new_count_ \in Nat
          /\ a \in Threads => (suspend_new_count_ > 0) \in BOOLEAN
          /\ suspend_count_ \in [Threads -> Nat] /\ suspend_request \in [Threads -> BOOLEAN]
      BY DEF TypeOK
    <2>4. suspend_count_' \in [Threads -> Nat]
      BY <2>1, <2>3, ExceptTyped, Zenon
    <2>5. suspend_request' \in [Threads -> BOOLEAN]
      BY <2>2, <2>3, ExceptTyped, Zenon
    <2> QED BY <1>3, <2>4, <2>5 DEF TypeOK
  <1> QED BY <1>1, <1>2, <1>3, <1>4 DEF TypeOK

(* A step takes locks for its own actor, and moves its own thread out of the registry. *)
LEMMA LocksTyped ==
  ASSUME SuspensionAssumption, TypeOK, ShapeInv, CreatedInv, NEW a \in Actors,
         Step(a) \/ Call(a)
  PROVE  /\ suspend_lock_' \in [Threads -> Threads \cup {Nobody}]
         /\ mutator_readers' \subseteq Threads
         /\ mutator_writer' \in Actors \cup {Nobody}
         /\ thread_lock_' \in Actors \cup {Nobody}
         /\ threads_' \subseteq Threads
         /\ deleted' \subseteq Threads \ threads_'
         /\ rounds' \in 0 .. MaxRounds
  <1> USE DEF mutator, registry
  <1>1. /\ mutator_writer' \in {mutator_writer, a, Nobody}
        /\ thread_lock_' \in {thread_lock_, a, Nobody}
    BY DEF Step, Call, RendezvousStep, StatusStep, SuspendThreadStep, UnregisterStep,
           SuspendAllThreads, SuspendNext, MutatorWriteLock, MutatorWriteUnlock,
           ResumeAllThreads, ResumeNext, Update, Store, StoreIfNoFlags, MutatorReadLock, Poll,
           Resumed, SuspendThreadById, ThreadIsSuspended, ResumeOwner, ResumeOwnerEnd,
           UnregisterEnter, UnregisterExitedThread, StartSafepoint, RegisterThread,
           ManagedCodePolls, SwitchCode, Destroy, SuspendOwner
  <1>2. /\ mutator_readers' \in {mutator_readers, mutator_readers \ {a}}
             \/ (a \in Threads /\ mutator_readers' = mutator_readers \cup {a})
        /\ rounds' = rounds \/ (rounds < MaxRounds /\ rounds' = rounds + 1)
    BY DEF Step, Call, RendezvousStep, StatusStep, SuspendThreadStep, UnregisterStep,
           SuspendAllThreads, SuspendNext, MutatorWriteLock, MutatorWriteUnlock,
           ResumeAllThreads, ResumeNext, Update, Store, StoreIfNoFlags, MutatorReadLock, Poll,
           Resumed, SuspendThreadById, ThreadIsSuspended, ResumeOwner, ResumeOwnerEnd,
           UnregisterEnter, UnregisterExitedThread, StartSafepoint, RegisterThread,
           ManagedCodePolls, SwitchCode, Destroy, SuspendOwner, StartRound
  <1>3. \/ suspend_lock_' = suspend_lock_
        \/ a \in Threads /\ \E t : suspend_lock_' = [suspend_lock_ EXCEPT ![t] = a]
        \/ \E t : suspend_lock_' = [suspend_lock_ EXCEPT ![t] = Nobody]
    BY DEF Step, Call, RendezvousStep, StatusStep, SuspendThreadStep, UnregisterStep,
           SuspendAllThreads, SuspendNext, MutatorWriteLock, MutatorWriteUnlock,
           ResumeAllThreads, ResumeNext, Update, Store, StoreIfNoFlags, MutatorReadLock, Poll,
           Resumed, SuspendThreadById, ThreadIsSuspended, ResumeOwner, ResumeOwnerEnd,
           UnregisterEnter, UnregisterExitedThread, StartSafepoint, RegisterThread,
           ManagedCodePolls, SwitchCode, Destroy, SuspendOwner
  <1>4. \/ threads_' = threads_ /\ deleted' = deleted
        \/ a \in Threads /\ threads_' = threads_ \ {a} /\ deleted' = deleted \cup {a}
        \/ a \in Threads /\ RegisterThread(a)
    BY DEF Step, Call, RendezvousStep, StatusStep, SuspendThreadStep, UnregisterStep,
           SuspendAllThreads, SuspendNext, MutatorWriteLock, MutatorWriteUnlock,
           ResumeAllThreads, ResumeNext, Update, Store, StoreIfNoFlags, MutatorReadLock, Poll,
           Resumed, SuspendThreadById, ThreadIsSuspended, ResumeOwner, ResumeOwnerEnd,
           UnregisterEnter, UnregisterExitedThread, StartSafepoint,
           ManagedCodePolls, SwitchCode, Destroy, SuspendOwner
  <1>5. threads_' \subseteq Threads /\ deleted' \subseteq Threads \ threads_'
    <2>1. CASE a \in Threads /\ RegisterThread(a)
      <3>1. a \notin threads_ \cup deleted
        BY <2>1 DEF RegisterThread, Idle, CreatedInv
      <3>2. threads_' = threads_ \cup {a} /\ deleted' = deleted
        BY <2>1 DEF RegisterThread
      <3> QED BY <2>1, <3>1, <3>2 DEF TypeOK
    <2> QED BY <1>4, <2>1 DEF TypeOK
  <1>6. suspend_lock_' \in [Threads -> Threads \cup {Nobody}]
    <2>1. /\ suspend_lock_ \in [Threads -> Threads \cup {Nobody}]
          /\ Nobody \in Threads \cup {Nobody}
          /\ a \in Threads => a \in Threads \cup {Nobody}
      BY DEF TypeOK
    <2>2. ASSUME NEW t, NEW y \in Threads \cup {Nobody},
                 suspend_lock_' = [suspend_lock_ EXCEPT ![t] = y]
          PROVE  suspend_lock_' \in [Threads -> Threads \cup {Nobody}]
      BY <2>1, <2>2, ExceptTyped, Zenon
    <2> QED BY <1>3, <2>1, <2>2
  <1>7. rounds' \in 0 .. MaxRounds
    BY <1>2 DEF TypeOK, SuspensionAssumption
  <1> QED BY <1>1, <1>2, <1>5, <1>6, <1>7 DEF TypeOK

LEMMA TypeStep ==
  ASSUME SuspensionAssumption, TypeOK, Structure, CreatedInv, NEW a \in Actors,
         Step(a) \/ Call(a)
  PROVE  TypeOK'
  <1>1. work' \in [Actors -> Seq(Instructions)]
    BY StructureStep
  <1>2. ShapeInv
    BY DEF Structure
  <1>3. status' \in [Threads -> Statuses]
    <2>1. StatusKept(a)
      BY <1>2, StatusSteps
    <2>2. status \in [Threads -> Statuses]
      BY DEF TypeOK
    <2>3. CASE UNCHANGED status
      BY <2>2, <2>3
    <2>4. ASSUME NEW x \in Statuses \ {"CREATED"}, status' = [status EXCEPT ![a] = x]
          PROVE  status' \in [Threads -> Statuses]
      BY <2>2, <2>4, ExceptTyped, Zenon
    <2> QED BY <2>1, <2>3, <2>4 DEF StatusKept
  <1> QED BY <1>1, <1>2, <1>3, CountersTyped, LocksTyped DEF TypeOK

(***************************************************************************)
(* The invariant                                                           *)
(***************************************************************************)
LEMMA InitInv == SuspensionAssumption /\ Init => Inv
  <1> SUFFICES ASSUME SuspensionAssumption, Init PROVE Inv
    OBVIOUS
  <1>1. \A a \in Actors : work[a] = <<>>
    BY DEF Init
  <1>2. TypeOK
    <2>1. work \in [Actors -> Seq(Instructions)]
      BY DEF Init
    <2> QED BY <2>1 DEF Init, TypeOK, Statuses, SuspensionAssumption
  <1>3. \A a \in Actors : /\ \A op : ~First(work[a], op) /\ ~Has(work[a], op)
                          /\ \A t : ~HoldsIn(work[a], t)
    BY <1>1 DEF First, Has, HoldsIn
  <1>4. ShapeInv /\ LockInv /\ HeldInv /\ OwnerInv
    BY <1>1, <1>3 DEF ShapeInv, Shape, LockInv, Unregistering, HeldInv, OwnerInv
  <1>5. WriterInv /\ CreatedInv
    BY <1>1 DEF Init, WriterInv, CreatedInv, Actors
  <1>6. CountInv
    <2>1. StopSet(work) = {}
      BY <1>3 DEF StopSet, Stopping
    <2>2. \A t \in Threads : CoverSet(work, t, threads_) = {} /\ HoldSet(work, t) = {}
      BY <1>3 DEF CoverSet, CoversIn, Stopping, HoldSet
    <2>3. Cardinality({}) = 0
      BY FS_EmptySet
    <2>4. /\ suspend_new_count_ = 0
          /\ \A t \in Threads : suspend_count_[t] = 0 /\ suspend_request[t] = FALSE
      BY DEF Init
    <2>5. \A t \in Threads : Cardinality(CoverSet(work, t, threads_))
                           + Cardinality(HoldSet(work, t)) = 0
      BY <2>2, <2>3
    <2>6. \A t \in Threads : (suspend_count_[t] > 0) = FALSE
      BY <2>4
    <2> QED BY <2>1, <2>3, <2>4, <2>5, <2>6 DEF CountInv
  <1> QED BY <1>2, <1>4, <1>5, <1>6 DEF Inv

LEMMA InvNext == SuspensionAssumption /\ Inv /\ [Next]_vars => Inv'
  <1> SUFFICES ASSUME SuspensionAssumption, Inv, [Next]_vars PROVE Inv'
    OBVIOUS
  <1>1. ASSUME NEW a \in Actors, Step(a) \/ Call(a)
        PROVE  Inv'
    <2>1. TypeOK /\ Structure /\ CreatedInv /\ OwnerInv /\ ShapeInv
      BY DEF Inv, Structure
    <2>2. TypeOK' /\ Structure' /\ CreatedInv' /\ OwnerInv'
      BY <1>1, <2>1, TypeStep, StructureStep, CreatedStep, OwnerStep
    <2> QED BY <2>2 DEF Inv, Structure
  <1>2. CASE UNCHANGED vars
    BY <1>2 DEF vars, Inv, TypeOK, ShapeInv, LockInv, WriterInv, HeldInv, CreatedInv,
                CountInv, OwnerInv
  <1> QED BY <1>1, <1>2 DEF Next

(* The inductive invariant holds in every state the Rendezvous, SuspendImpl and ResumeImpl,
   UpdateStatus and UnregisterExitedThread can reach. *)
THEOREM Invariance == Spec => []Inv
  <1>1. Inv /\ [Next]_vars => Inv'
    BY InvNext, SuspensionAssumption
  <1>2. Init => Inv
    BY InitInv, SuspensionAssumption
  <1> QED BY <1>1, <1>2, PTL DEF Spec

(* Flags, counters, owners of locks and continuations keep their types; a deleted thread
   is never registered again. *)
THEOREM TypeCorrectness == Spec => []TypeOK
  <1>1. Inv => TypeOK
    BY DEF Inv
  <1> QED BY <1>1, Invariance, PTL

(* What the module says of an actor is what its continuation says. *)
LEMMA InContinuations ==
  ASSUME TypeOK, ShapeInv, NEW a \in Actors
  PROVE  /\ InSafepoint(a) <=> Stopping(work[a])
         /\ \A t : Covers(a, t) <=> CoversIn(work[a], a, t, threads_)
         /\ \A t : Holds(a, t) <=> HoldsIn(work[a], t)
         /\ \A op : Pending(a, op) <=> Has(work[a], op)
         /\ At(a, "resumeAll") <=> First(work[a], "resumeAll")
         /\ First(work[a], "resumeAll") => Arg(a) = work[a][1]
  <1>1. \A op : At(a, op) <=> First(work[a], op)
    BY FirstInstr
  <1>2. \A op : First(work[a], op) => Arg(a) = work[a][1]
    BY FirstInstr DEF First
  <1>3. \A op : Pending(a, op) <=> Has(work[a], op)
    BY DEF Pending, Has
  <1>4. InSafepoint(a) <=> Stopping(work[a])
    BY <1>1, <1>3 DEF InSafepoint, Stopping
  <1>5. \A t : Covers(a, t) <=> CoversIn(work[a], a, t, threads_)
    BY <1>1, <1>2, <1>3 DEF Covers, CoversIn, Stopping
  <1>6. \A t : Holds(a, t) <=> HoldsIn(work[a], t)
    BY DEF Holds, HoldsIn
  <1> QED BY <1>1, <1>2, <1>3, <1>4, <1>5, <1>6

(* SuspendImpl, ResumeImpl, SuspendAllThreads, ResumeAllThreads and RegisterThread together
   keep suspend_count_, SUSPEND_REQUEST and suspend_new_count_ exact. *)
THEOREM Counted == Spec => []SuspensionsCounted
  <1>1. Inv => SuspensionsCounted
    <2> SUFFICES ASSUME Inv PROVE SuspensionsCounted
      OBVIOUS
    <2>1. TypeOK /\ ShapeInv /\ CountInv
      BY DEF Inv
    <2>2. {a \in Actors : InSafepoint(a)} = StopSet(work)
      BY <2>1, InContinuations DEF StopSet
    <2>3. \A t : {a \in Actors : Covers(a, t)} = CoverSet(work, t, threads_)
      BY <2>1, InContinuations DEF CoverSet
    <2>4. \A t : {a \in Actors : Holds(a, t)} = HoldSet(work, t)
      BY <2>1, InContinuations DEF HoldSet
    <2> QED BY <2>1, <2>2, <2>3, <2>4 DEF CountInv, SuspensionsCounted
  <1> QED BY <1>1, Invariance, PTL

(* While Rendezvous::SafepointBegin has the mutator lock for its caller, every other
   registered thread is asked to suspend and is outside of the lock, also one that
   RegisterThread let in after SuspendAllThreads. *)
THEOREM StoppedWorld == Spec => []WorldStopped
  <1>1. Inv => WorldStopped
    <2> SUFFICES ASSUME Inv, mutator_writer # Nobody, NEW t \in threads_ \ {mutator_writer}
                 PROVE  suspend_request[t] /\ t \notin mutator_readers
      BY DEF WorldStopped
    <2> DEFINE a == mutator_writer
    <2>1. a \in Actors /\ t \in Threads \ deleted /\ t # a /\ t \in threads_
      BY DEF Inv, TypeOK
    <2>2. First(work[a], "writeUnlock") /\ mutator_readers = {}
      BY DEF Inv, WriterInv
    <2>3. work[a] \in Seq(Instructions) /\ Shape(work[a])
      BY <2>1, FirstInstr DEF Inv
    <2>4. Stopping(work[a])
      <3>1. work[a] # <<>> /\ work[a][1].op = "writeUnlock"
        BY <2>2 DEF First
      <3> QED BY <2>3, <3>1, InsideSafepoint DEF SafepointOps
    <2>5. CoversIn(work[a], a, t, threads_)
      BY <2>1, <2>4 DEF CoversIn
    <2>6. suspend_request[t]
      BY <2>1, <2>5, RequestMeans, SuspensionAssumption DEF Inv
    <2> QED BY <2>2, <2>6
  <1> QED BY <1>1, Invariance, PTL

(* From the end of SuspendAndWaitThreadByInternalThreadId to ResumeImpl the owner whose
   monitor is inflated on its behalf does not run managed code. *)
THEOREM OwnerSuspended == Spec => []OwnerStaysSuspended
  <1>1. Inv => OwnerStaysSuspended
    <2> SUFFICES ASSUME Inv, NEW a \in Actors, NEW t \in Threads, Holds(a, t),
                        ~Pending(a, "waitNotRunning")
                 PROVE  status[t] # "RUNNING"
      BY DEF OwnerStaysSuspended
    <2>1. HoldsIn(work[a], t) /\ ~Has(work[a], "waitNotRunning")
      BY InContinuations DEF Inv
    <2> QED BY <2>1 DEF Inv, OwnerInv
  <1> QED BY <1>1, Invariance, PTL

(* UnregisterExitedThread deletes no thread that somebody has suspended by id or that
   ResumeAllThreads has still to resume. *)
THEOREM NotDeletedWhileSuspended == Spec => []SuspendedNotDeleted
  <1>1. Inv => SuspendedNotDeleted
    <2> SUFFICES ASSUME Inv, NEW a \in Actors, NEW t \in Threads,
                        Holds(a, t) \/ (At(a, "resumeAll") /\ t \in Arg(a).todo)
                 PROVE  t \notin deleted
      BY DEF SuspendedNotDeleted
    <2>1. CASE Holds(a, t)
      <3>1. HoldsIn(work[a], t)
        BY <2>1, InContinuations DEF Inv
      <3> QED BY <3>1 DEF Inv, HeldInv, TypeOK
    <2>2. CASE At(a, "resumeAll") /\ t \in Arg(a).todo
      <3>1. First(work[a], "resumeAll") /\ t \in work[a][1].todo
        BY <2>2, InContinuations DEF Inv
      <3> QED BY <3>1 DEF Inv, LockInv, TypeOK
    <2> QED BY <2>1, <2>2
  <1> QED BY <1>1, Invariance, PTL

=============================================================================
