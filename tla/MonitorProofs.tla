----------------------------- MODULE MonitorProofs -----------------------------
(***************************************************************************)
(* Proofs about Monitor, for any finite set of threads, any of them        *)
(* waiting, hashing or being interrupted, any recursion, any maximum of    *)
(* the light lock and any pool with more ids than there are threads.       *)
(*                                                                         *)
(* Inv is the inductive invariant.  PlaceInv and PoolInv say which thread  *)
(* can know which Monitor: an id of the pool is the object's, or belongs   *)
(* to the one thread that created it and has not published it, and every   *)
(* thread inside Acquire, Release or Wait is inside the object's.  So all  *)
(* that is said of owner, lists, counter and wakeups (HeavyInv) is said of *)
(* one Monitor.  Deflation is possible only when waiters_counter_ is zero  *)
(* in a stopped world; by CountOK no thread is then inside the Monitor,    *)
(* which is what PlaceInv needs to survive it.                             *)
(*                                                                         *)
(* LevelsInv holds when nobody calls GetHashCode: that call enters the     *)
(* monitor and may leave with a level it did not give back (run            *)
(* monitor_hashlock).                                                      *)
(***************************************************************************)
EXTENDS Monitor, Integers, FunctionTheorems, FiniteSetTheorems, SequenceTheorems, WellFoundedInduction, TLAPS

UsingPcs == {"acquire", "blocked", "owning", "release", "signal", "unlock", "condWait",
             "waiting", "waitEnd"}
InflatingPcs == {"inflateCas", "inflateOtherCas"}
EnterOps == {"enter", "tryEnter"}
HashOps  == {"hash", "hashEnter", "hashExit"}

(* What the locals of a thread can be, by where it is. *)
Shape(t, l) ==
  /\ l.pc \in {"idle", "stopped"} => l.op = "none"
  /\ l.pc = "enter" => l.op \in EnterOps \cup {"hashEnter"}
  /\ l.pc \in {"cas", "suspendOwner", "waitOwner", "inflateOther", "inflateOtherCas", "resume"} =>
       l.op \in EnterOps
  /\ l.pc \in {"inflate", "inflateCas"} =>
       \/ l.op \in EnterOps /\ l.after \in {"entered", "enter"}
       \/ l.op = "wait" /\ l.after = "wait"
       \/ l.op = "hash" /\ l.after = "hash"
  /\ l.pc \in {"acquire", "blocked", "owning"} => l.op \in EnterOps \cup {"hashEnter", "wait"}
  /\ l.pc = "exit" => l.op \in {"exit", "hashExit"}
  /\ l.pc = "exitCas" => l.op = "exit"
  /\ l.pc \in {"release", "signal", "unlock"} => l.op \in {"exit", "hashExit", "wait"}
  /\ l.pc \in {"wait", "condWait", "waiting", "waitEnd"} => l.op = "wait"
  /\ l.pc \in {"hash", "hashCas", "sleep", "hashMonitor", "hashSet", "hashReturn"} => l.op = "hash"
  /\ l.monitor_p # NoId <=>
       l.op \in {"hashEnter", "hashExit"} \/ l.pc \in {"hashMonitor", "hashSet", "hashReturn"}
  /\ l.op \in HashOps => t \in Hashers
  /\ l.pc \in {"suspendOwner", "waitOwner", "inflateOther", "inflateOtherCas", "resume", "signal"} =>
       l.other \in Threads
  /\ l.op = "wait" /\ l.pc \in UsingPcs => l.counter > 0
  /\ l.pc = "cas" => \/ l.old_mark = Unlocked
                     \/ IsLightOf(l.old_mark, t) /\ l.old_mark.count + 1 < LightLockMax
  /\ l.pc = "exitCas" => IsLightOf(l.old_mark, t)
  /\ l.pc = "inflateCas" => l.old_mark.state \in {"UNLOCKED", "HASHED"} \/ IsLightOf(l.old_mark, t)
  /\ l.pc = "inflateOtherCas" => IsLightOf(l.old_mark, l.other)

(* Where a thread is about to give up a level it entered. *)
NeedsDepth(l) ==
  \/ l.pc = "hashSet"
  \/ l.op \in {"exit", "hashExit"} /\ l.pc \in {"exit", "exitCas", "release"}

ShapeInv ==
  \A t \in Threads : Shape(t, local[t]) /\ (NeedsDepth(local[t]) => depth[t] > 0)

(* The Monitor that a thread has created and not published yet. *)
MarkHash(mark)  == IF mark.state = "HASHED" THEN mark.hash ELSE NoHash
MarkCount(mark) == IF mark.state = "LIGHT_LOCKED" THEN mark.count ELSE 1
Fresh(owner, count, hash) ==
  [NewMonitor EXCEPT !.owner_ = owner, !.lock_ = owner, !.recursive_counter_ = count,
                     !.hash_code_ = hash]
PrivateFor(l, t) ==
  Fresh(IF l.pc = "inflateCas" THEN t ELSE l.other, MarkCount(l.old_mark), MarkHash(l.old_mark))

Inflating(t) == local[t].pc \in InflatingPcs

PlaceInv ==
  \A t \in Threads :
    /\ local[t].pc \in UsingPcs => markWord_ = Heavy(local[t].id)
    /\ local[t].monitor_p # NoId => markWord_ = Heavy(local[t].monitor_p)
    /\ Inflating(t) => /\ local[t].id \in monitors_ /\ markWord_ # Heavy(local[t].id)
                       /\ monitor[local[t].id] = PrivateFor(local[t], t)

PoolInv ==
  /\ \A i \in Ids : markWord_ = Heavy(i) => i \in monitors_
  /\ \A i \in monitors_ :
       markWord_ = Heavy(i) \/ \E t \in Threads : Inflating(t) /\ local[t].id = i
  /\ \A t, u \in Threads : Inflating(t) /\ Inflating(u) /\ local[t].id = local[u].id => t = u
  /\ \A i \in Ids \ monitors_ : monitor[i] = NewMonitor

(* A thread inside Wait, from its enlisting to the end of the call. *)
WaitsIn(l) == l.op = "wait" /\ l.pc \in UsingPcs
BlocksIn(l) == l.pc \in {"blocked", "owning"}

WaitInv ==
  \A t \in Threads :
    /\ waiting_monitor_[t] = IF WaitsIn(local[t]) THEN local[t].id ELSE NoId
    /\ t \in cond_lock_ <=>
         WaitsIn(local[t]) /\ local[t].pc \in {"release", "signal", "unlock", "condWait"}
    /\ t \in signalled => WaitsIn(local[t]) /\ local[t].pc = "waiting"

(* What is said of the object's Monitor m.  All the threads that use a Monitor use this
   one (PlaceInv), so nothing need be said of the others. *)
CountOK(m) ==
  m.waiters_counter_ = Cardinality({t \in Threads : WaitsIn(local[t])})
                     + Cardinality({t \in Threads : BlocksIn(local[t])})

OwnerOK(t, l, m) ==
  /\ l.pc \in {"signal", "unlock"} => m.lock_ = t /\ m.owner_ = NoThread
  /\ l.pc \in {"owning", "waitEnd"} => m.owner_ = t
  /\ l.pc = "release" /\ l.op = "wait" => m.owner_ = t /\ m.recursive_counter_ = 1
  /\ l.pc = "blocked" => m.owner_ # t
  /\ l.pc \in {"condWait", "waiting", "acquire"} /\ l.op = "wait" => m.owner_ # t

OwnersOK(m) ==
  /\ m.owner_ # NoThread => m.lock_ = m.owner_ /\ m.recursive_counter_ > 0
  /\ m.owner_ = NoThread => m.recursive_counter_ = 0
  /\ \A t \in Threads : OwnerOK(t, local[t], m)

In(t, list) == \E k \in 1 .. Len(list) : list[k] = t
NoDup(list) == \A j, k \in 1 .. Len(list) : list[j] = list[k] => j = k
Listed(t, m) == In(t, m.waiters_) \/ In(t, m.to_wakeup_)

(* A thread that is to be signalled. *)
ToBeSignalled(t) == \E u \in Threads : At(u, "signal") /\ local[u].other = t

ListsOK(m) ==
  /\ NoDup(m.waiters_) /\ NoDup(m.to_wakeup_)
  /\ \A t \in Threads :
       /\ ~(In(t, m.waiters_) /\ In(t, m.to_wakeup_))
       /\ Listed(t, m) => WaitsIn(local[t])
       /\ local[t].op = "wait" /\ local[t].pc = "release" => In(t, m.waiters_)
       /\ local[t].op = "wait" /\ local[t].pc \in {"signal", "unlock", "condWait", "waiting"} =>
            Listed(t, m) \/ t \in signalled \/ ToBeSignalled(t)

Coming(t) == WaitsIn(local[t]) /\ (t \in signalled \/ local[t].pc \in {"acquire", "blocked"})

WakesOK(m) ==
  /\ \A t \in Threads : At(t, "signal") => local[t].other # t /\ WaitsIn(local[local[t].other])
  /\ m.to_wakeup_ # <<>> /\ (m.lock_ = NoThread \/ \E u \in Threads : At(u, "unlock")) =>
       \E t \in Threads : Coming(t)

IsHeavy == markWord_.state = "HEAVY_LOCKED"
TheMonitor == monitor[markWord_.id]

HeavyInv ==
  IsHeavy => CountOK(TheMonitor) /\ OwnersOK(TheMonitor) /\ ListsOK(TheMonitor) /\ WakesOK(TheMonitor)

CurrentHash ==
  IF markWord_.state = "HEAVY_LOCKED" THEN monitor[markWord_.id].hash_code_ ELSE MarkHash(markWord_)

HashInv ==
  /\ hashes \subseteq {CurrentHash}
  /\ \A t \in Threads : local[t].op = "hashExit" \/ local[t].pc = "hashReturn" =>
       monitor[local[t].monitor_p].hash_code_ # NoHash

LevelsOK(l, levels, d) ==
  /\ WaitsIn(l) => l.counter = d /\ levels = IF l.pc \in {"release", "owning", "waitEnd"} THEN 1 ELSE 0
  /\ ~WaitsIn(l) => levels = IF l.pc = "owning" THEN d + 1 ELSE d
  /\ l.pc \in {"inflate", "inflateCas"} /\ l.after = "entered" => d = 0
  /\ l.pc \in {"inflate", "inflateCas"} /\ l.after \in {"enter", "wait"} => d > 0

LevelsInv == \A t \in Threads : LevelsOK(local[t], Levels(t), depth[t])

Inv == TypeOK /\ ShapeInv /\ PlaceInv /\ PoolInv /\ WaitInv /\ HeavyInv /\ HashInv
       /\ (Hashers = {} => LevelsInv)

-----------------------------------------------------------------------------
(* Marks, ids and lists *)

(* A mark says by its state which of its fields there are. *)
LEMMA MarkFields ==
  ASSUME NEW m \in Marks
  PROVE  /\ m.state \in {"UNLOCKED", "HASHED", "LIGHT_LOCKED", "HEAVY_LOCKED"}
         /\ m.state = "UNLOCKED" <=> m = Unlocked
         /\ m.state = "HASHED" => m = Hashed(m.hash) /\ m.hash \in Hashes
         /\ m.state = "LIGHT_LOCKED" =>
              /\ m = Light(m.thread, m.count) /\ m.thread \in Threads
              /\ m.count \in Nat /\ m.count >= 1 /\ m.count < LightLockMax
         /\ m.state = "HEAVY_LOCKED" => m = Heavy(m.id) /\ m.id \in Ids
  <1>1. CASE m = Unlocked
    BY <1>1 DEF Unlocked
  <1>2. ASSUME NEW h \in Hashes, m = Hashed(h)
        PROVE  m.state = "HASHED" /\ m.hash = h
    BY <1>2 DEF Hashed
  <1>3. ASSUME NEW t \in Threads, NEW n \in 1 .. LightLockMax - 1, m = Light(t, n)
        PROVE  m.state = "LIGHT_LOCKED" /\ m.thread = t /\ m.count = n
    BY <1>3 DEF Light
  <1>4. ASSUME NEW i \in Ids, m = Heavy(i)
        PROVE  m.state = "HEAVY_LOCKED" /\ m.id = i
    BY <1>4 DEF Heavy
  <1>5. \/ m = Unlocked
        \/ \E h \in Hashes : m = Hashed(h)
        \/ \E t \in Threads, n \in 1 .. LightLockMax - 1 : m = Light(t, n)
        \/ \E i \in Ids : m = Heavy(i)
    BY DEF Marks
  <1>6. Unlocked.state = "UNLOCKED"
    BY DEF Unlocked
  <1>7. \A n \in 1 .. LightLockMax - 1 : n \in Nat /\ n >= 1 /\ n < LightLockMax
    BY MonitorAssumption DEF MonitorAssumption
  <1>8. CASE \E h \in Hashes : m = Hashed(h)
    BY <1>2, <1>6, <1>8
  <1>9. CASE \E t \in Threads, n \in 1 .. LightLockMax - 1 : m = Light(t, n)
    BY <1>3, <1>6, <1>7, <1>9
  <1>10. CASE \E i \in Ids : m = Heavy(i)
    BY <1>4, <1>6, <1>10
  <1> QED BY <1>1, <1>5, <1>6, <1>8, <1>9, <1>10

(* The constructors of marks, and their fields. *)
LEMMA MarksMade ==
  /\ Unlocked \in Marks /\ Unlocked.state = "UNLOCKED"
  /\ \A h \in Hashes : Hashed(h) \in Marks /\ Hashed(h).state = "HASHED" /\ Hashed(h).hash = h
  /\ \A t \in Threads, n \in Nat : n >= 1 /\ n < LightLockMax => Light(t, n) \in Marks
  /\ \A t, n : /\ Light(t, n).state = "LIGHT_LOCKED"
               /\ Light(t, n).thread = t /\ Light(t, n).count = n
  /\ \A i \in Ids : Heavy(i) \in Marks
  /\ \A i : Heavy(i).state = "HEAVY_LOCKED" /\ Heavy(i).id = i
  /\ \A i, j : Heavy(i) = Heavy(j) <=> i = j
  <1>1. \A t \in Threads, n \in Nat : n >= 1 /\ n < LightLockMax => Light(t, n) \in Marks
    <2>1. \A n \in Nat : n >= 1 /\ n < LightLockMax => n \in 1 .. LightLockMax - 1
      BY MonitorAssumption DEF MonitorAssumption
    <2> QED BY <2>1 DEF Marks
  <1>2. /\ Unlocked \in Marks
        /\ \A h \in Hashes : Hashed(h) \in Marks
        /\ \A i \in Ids : Heavy(i) \in Marks
    BY DEF Marks
  <1>3. /\ Unlocked.state = "UNLOCKED"
        /\ \A h \in Hashes : Hashed(h).state = "HASHED" /\ Hashed(h).hash = h
    BY DEF Unlocked, Hashed
  <1>4. \A t, n : /\ Light(t, n).state = "LIGHT_LOCKED"
                  /\ Light(t, n).thread = t /\ Light(t, n).count = n
    BY DEF Light
  <1>5. /\ \A i : Heavy(i).state = "HEAVY_LOCKED" /\ Heavy(i).id = i
        /\ \A i, j : Heavy(i) = Heavy(j) <=> i = j
    BY DEF Heavy
  <1> QED BY <1>1, <1>2, <1>3, <1>4, <1>5

(* The ids of the pool; NoId is none of them. *)
LEMMA IdsAre ==
  /\ Ids = 0 .. MaxMonitorId - 1 /\ NoId \notin Ids
  /\ MaxMonitorId \in Nat /\ MaxMonitorId > 0
  <1>1. IsFiniteSet(Threads) /\ Cardinality(Threads) \in Nat
    BY MonitorAssumption, FS_CardinalityType DEF MonitorAssumption
  <1> QED BY <1>1, MonitorAssumption DEF MonitorAssumption, Ids, NoId

(* A nonempty set of naturals has a least element. *)
LEMMA Least ==
  ASSUME NEW T \in SUBSET Nat, T # {}
  PROVE  \E x \in T : \A y \in T : x <= y
  <1> DEFINE R == OpToRel(<, Nat)
  <1>1. IsWellFoundedOn(R, Nat)
    BY NatLessThanWellFounded
  <1>2. \A x, y \in Nat : <<y, x>> \in R <=> y < x
    BY DEF OpToRel
  <1> HIDE DEF R
  <1>3. \E x \in T : \A y \in T : ~(<<y, x>> \in R)
    BY <1>1, WFMin
  <1>4. PICK x \in T : \A y \in T : ~(<<y, x>> \in R)
    BY <1>3
  <1>5. ASSUME NEW y \in T
        PROVE  x <= y
    <2>1. x \in Nat /\ y \in Nat
      OBVIOUS
    <2>2. ~(y < x)
      BY <1>2, <1>4, <2>1
    <2> QED BY <2>1, <2>2
  <1> QED BY <1>5

(* Remainders of numbers below the divisor, *)
LEMMA ModSmall == \A n \in Nat, a \in Nat : n > 0 /\ a < n => a % n = a
  OBVIOUS
(* below its double, *)
LEMMA ModOnce == \A n \in Nat, a \in Nat : n > 0 /\ n <= a /\ a < n + n => a % n = a - n
  OBVIOUS
(* and of all of them. *)
LEMMA ModRange == \A n \in Nat, a \in Nat : n > 0 => a % n \in 0 .. n - 1
  OBVIOUS

(* CreateMonitor finds a free id when there is one. *)
LEMMA NextIdFree ==
  ASSUME last_id_ \in Ids, monitors_ \subseteq Ids, monitors_ # Ids
  PROVE  NextId \in Ids \ monitors_
  <1> DEFINE N == MaxMonitorId
             at(k) == (last_id_ + k) % N
             Found(k) == at(k) \notin monitors_ /\ \A j \in 1 .. k - 1 : at(j) \in monitors_
             T == {k \in 1 .. N : at(k) \notin monitors_}
  <1>1. N \in Nat /\ N > 0 /\ Ids = 0 .. N - 1 /\ last_id_ \in Nat /\ last_id_ < N
    BY IdsAre
  <1>2. \A k \in 1 .. N : at(k) \in Ids
    BY <1>1, ModRange
  <1>3. \E k \in 1 .. N : at(k) \notin monitors_
    <2>1. PICK i \in Ids : i \notin monitors_
      OBVIOUS
    <2>2. i \in Nat /\ i < N
      BY <1>1
    <2>3. CASE i > last_id_
      <3> DEFINE k == i - last_id_
      <3>1. k \in 1 .. N /\ last_id_ + k = i
        BY <1>1, <2>2, <2>3
      <3>2. at(k) = i
        BY <1>1, <2>2, <3>1, ModSmall
      <3> QED BY <2>1, <3>1, <3>2
    <2>4. CASE i <= last_id_
      <3> DEFINE k == i + N - last_id_
      <3>1. k \in 1 .. N /\ last_id_ + k = i + N
        BY <1>1, <2>2, <2>4
      <3>2. at(k) = i
        BY <1>1, <2>2, <3>1, ModOnce
      <3> QED BY <2>1, <3>1, <3>2
    <2> QED BY <1>1, <2>2, <2>3, <2>4
  <1> HIDE DEF at
  <1>4. T \in SUBSET Nat /\ T # {}
    BY <1>1, <1>3
  <1>5. PICK k \in T : \A y \in T : k <= y
    BY <1>4, Least
  <1>6. k \in 1 .. N /\ Found(k)
    <2>1. \A j \in 1 .. k - 1 : j \in 1 .. N /\ ~(k <= j)
      BY <1>1
    <2> QED BY <1>5, <2>1
  <1>7. NextId = at(CHOOSE j \in 1 .. N : Found(j))
    BY DEF NextId, at
  <1>8. (CHOOSE j \in 1 .. N : Found(j)) \in 1 .. N /\ Found(CHOOSE j \in 1 .. N : Found(j))
    BY <1>6
  <1> QED BY <1>2, <1>7, <1>8

(* Two lists of threads one after the other. *)
LEMMA InBoth ==
  ASSUME NEW r \in Seq(Threads), NEW s \in Seq(Threads)
  PROVE  /\ r \o s \in Seq(Threads)
         /\ \A u : In(u, r \o s) <=> In(u, r) \/ In(u, s)
         /\ NoDup(r) /\ NoDup(s) /\ (\A u \in Threads : ~(In(u, r) /\ In(u, s))) => NoDup(r \o s)
  <1> DEFINE m == Len(r)
             n == Len(s)
             c == r \o s
  <1>1. /\ c \in Seq(Threads) /\ Len(c) = m + n
        /\ \A i \in 1 .. m + n : c[i] = IF i <= m THEN r[i] ELSE s[i - m]
    BY ConcatProperties
  <1>2. m \in Nat /\ n \in Nat
    OBVIOUS
  <1> HIDE DEF m, n, c
  <1>3. /\ \A i \in 1 .. m : i \in 1 .. m + n /\ c[i] = r[i]
        /\ \A i \in 1 .. n : i + m \in 1 .. m + n /\ c[i + m] = s[i]
        /\ \A i \in 1 .. m + n : (i <= m => i \in 1 .. m) /\ (~(i <= m) => i - m \in 1 .. n)
    BY <1>1, <1>2
  <1>4. ASSUME NEW u
        PROVE  In(u, c) <=> In(u, r) \/ In(u, s)
    <2>1. In(u, c) => In(u, r) \/ In(u, s)
      BY <1>1, <1>3 DEF In, m, n
    <2>2. In(u, r) => In(u, c)
      BY <1>1, <1>3 DEF In, m, n
    <2>3. In(u, s) => In(u, c)
      BY <1>1, <1>3 DEF In, m, n
    <2> QED BY <2>1, <2>2, <2>3
  <1>5. ASSUME NoDup(r), NoDup(s), \A u \in Threads : ~(In(u, r) /\ In(u, s))
        PROVE  NoDup(c)
    <2> SUFFICES ASSUME NEW j \in 1 .. m + n, NEW k \in 1 .. m + n, c[j] = c[k]
                 PROVE  j = k
      BY <1>1 DEF NoDup
    <2>0. j \in Nat /\ k \in Nat
      BY <1>2
    <2>1. \A i \in 1 .. m : r[i] \in Threads /\ In(r[i], r)
      BY DEF m, In
    <2>2. \A i \in 1 .. n : In(s[i], s)
      BY DEF n, In
    <2>3. CASE j <= m /\ k <= m
      BY <1>1, <1>3, <1>5, <2>3 DEF NoDup, m
    <2>4. CASE ~(j <= m) /\ ~(k <= m)
      <3>1. j - m = k - m
        BY <1>1, <1>3, <1>5, <2>4, SMTT(30) DEF NoDup, n
      <3> QED BY <1>2, <2>0, <3>1
    <2>5. CASE j <= m /\ ~(k <= m)
      BY <1>1, <1>3, <1>5, <2>1, <2>2, <2>5
    <2>6. CASE ~(j <= m) /\ k <= m
      BY <1>1, <1>3, <1>5, <2>1, <2>2, <2>6
    <2> QED BY <2>3, <2>4, <2>5, <2>6
  <1> QED BY <1>1, <1>4, <1>5 DEF c

(* One thread as a list. *)
LEMMA InOne ==
  ASSUME NEW t \in Threads
  PROVE  <<t>> \in Seq(Threads) /\ NoDup(<<t>>) /\ \A u : In(u, <<t>>) <=> u = t
  <1>1. <<t>> \in Seq(Threads) /\ Len(<<t>>) = 1 /\ <<t>>[1] = t
    OBVIOUS
  <1> QED BY <1>1 DEF NoDup, In

(* The empty list. *)
LEMMA InNone == NoDup(<<>>) /\ \A u : ~In(u, <<>>)
  BY DEF NoDup, In

(* The front of a list is taken off. *)
LEMMA InTail ==
  ASSUME NEW s \in Seq(Threads), s # <<>>, NoDup(s)
  PROVE  /\ Head(s) \in Threads /\ In(Head(s), s)
         /\ Tail(s) \in Seq(Threads) /\ NoDup(Tail(s))
         /\ \A u : In(u, Tail(s)) <=> In(u, s) /\ u # Head(s)
  <1> DEFINE n == Len(s)
             v == Tail(s)
  <1>1. /\ Head(s) \in Threads /\ v \in Seq(Threads) /\ Len(v) = n - 1
        /\ \A i \in 1 .. Len(v) : v[i] = s[i + 1]
    BY HeadTailProperties
  <1>2. n \in Nat \ {0} /\ Head(s) = s[1]
    BY EmptySeq
  <1> HIDE DEF n, v
  <1>3. \A j, k \in 1 .. n : s[j] = s[k] => j = k
    BY DEF NoDup, n
  <1>4. \A i \in 1 .. n - 1 : i + 1 \in 1 .. n /\ i + 1 # 1 /\ v[i] = s[i + 1]
    BY <1>1, <1>2
  <1>5. 1 \in 1 .. n /\ \A i \in 1 .. n : i # 1 => i - 1 \in 1 .. n - 1 /\ v[i - 1] = s[i]
    BY <1>1, <1>2
  <1>6. NoDup(v)
    <2>1. ASSUME NEW j \in 1 .. n - 1, NEW k \in 1 .. n - 1, v[j] = v[k]
          PROVE  j = k
      <3>1. j + 1 = k + 1
        BY <1>3, <1>4, <2>1
      <3> QED BY <1>2, <3>1
    <2> QED BY <1>1, <2>1 DEF NoDup
  <1>7. In(Head(s), s)
    BY <1>2, <1>5 DEF In, n
  <1>8. ASSUME NEW u
        PROVE  In(u, v) <=> In(u, s) /\ u # Head(s)
    <2>1. In(u, v) => In(u, s) /\ u # Head(s)
      BY <1>1, <1>2, <1>3, <1>4, <1>5 DEF In, n
    <2>2. In(u, s) /\ u # Head(s) => In(u, v)
      BY <1>1, <1>2, <1>5 DEF In, n
    <2> QED BY <2>1, <2>2
  <1> QED BY <1>1, <1>6, <1>7, <1>8 DEF v

(* A thread leaves a list it is in once at most. *)
LEMMA InRemove ==
  ASSUME NEW s \in Seq(Threads), NoDup(s), NEW t
  PROVE  /\ Remove(s, t) \in Seq(Threads) /\ NoDup(Remove(s, t))
         /\ \A u : In(u, Remove(s, t)) <=> In(u, s) /\ u # t
  <1> DEFINE n == Len(s)
  <1>1. n \in Nat /\ DOMAIN s = 1 .. n /\ \A i \in 1 .. n : s[i] \in Threads
    OBVIOUS
  <1>2. CASE ~In(t, s)
    <2>1. Remove(s, t) = s
      BY <1>1, <1>2 DEF Remove, In
    <2> QED BY <1>2, <2>1
  <1>3. CASE In(t, s)
    <2> DEFINE k == CHOOSE k \in DOMAIN s : s[k] = t
               v == [j \in 1 .. n - 1 |-> IF j < k THEN s[j] ELSE s[j + 1]]
    <2>1. Remove(s, t) = v
      BY <1>1, <1>3 DEF Remove, In
    <2>2. k \in 1 .. n /\ s[k] = t
      BY <1>1, <1>3 DEF In
    <2> HIDE DEF k, n
    <2>3. n - 1 \in Nat /\ k \in Nat
      BY <1>1, <2>2
    <2>4. \A j \in 1 .. n - 1 : /\ j < k => j \in 1 .. n /\ v[j] = s[j]
                                /\ ~(j < k) => j + 1 \in 1 .. n /\ v[j] = s[j + 1]
      BY <1>1, <2>2
    <2>5. v \in Seq(Threads) /\ Len(v) = n - 1
      <3>1. \A j \in 1 .. n - 1 : v[j] \in Threads
        BY <1>1, <2>4
      <3> QED BY <2>3, <3>1
    <2>6. \A i \in 1 .. n : i # k => \E j \in 1 .. n - 1 : v[j] = s[i]
      <3> SUFFICES ASSUME NEW i \in 1 .. n, i # k
                   PROVE  \E j \in 1 .. n - 1 : v[j] = s[i]
        OBVIOUS
      <3>1. CASE i < k
        BY <1>1, <2>2, <2>4, <3>1
      <3>2. CASE ~(i < k)
        <4>1. i - 1 \in 1 .. n - 1 /\ ~(i - 1 < k) /\ (i - 1) + 1 = i
          BY <1>1, <2>2, <3>2
        <4> HIDE DEF v
        <4>2. v[i - 1] = s[i]
          BY <2>4, <4>1
        <4> QED BY <4>1, <4>2
      <3> QED BY <3>1, <3>2
    <2> HIDE DEF v
    <2>7. \A i, j \in 1 .. n : s[i] = s[j] => i = j
      BY DEF NoDup, n
    <2>8. NoDup(v)
      <3>1. ASSUME NEW i \in 1 .. n - 1, NEW j \in 1 .. n - 1, v[i] = v[j]
            PROVE  i = j
        <4>1. i \in Nat /\ j \in Nat
          BY <2>3
        <4>2. CASE i < k /\ j < k
          BY <2>4, <2>7, <3>1, <4>2
        <4>3. CASE ~(i < k) /\ ~(j < k)
          <5>1. i + 1 = j + 1
            BY <2>4, <2>7, <3>1, <4>3
          <5> QED BY <4>1, <5>1
        <4>4. CASE i < k /\ ~(j < k)
          <5>1. i = j + 1
            BY <2>4, <2>7, <3>1, <4>4
          <5> QED BY <2>3, <4>1, <4>4, <5>1
        <4>5. CASE ~(i < k) /\ j < k
          <5>1. i + 1 = j
            BY <2>4, <2>7, <3>1, <4>5
          <5> QED BY <2>3, <4>1, <4>5, <5>1
        <4> QED BY <4>2, <4>3, <4>4, <4>5
      <3> QED BY <2>5, <3>1 DEF NoDup
    <2>9. ASSUME NEW u
          PROVE  In(u, v) <=> In(u, s) /\ u # t
      <3>1. ASSUME In(u, v)
            PROVE  In(u, s) /\ u # t
        <4>1. PICK j \in 1 .. n - 1 : v[j] = u
          BY <2>5, <3>1 DEF In
        <4>2. j \in Nat
          BY <2>3
        <4>3. CASE j < k
          BY <2>2, <2>3, <2>4, <2>7, <4>1, <4>2, <4>3 DEF In, n
        <4>4. CASE ~(j < k)
          <5>1. j + 1 # k
            BY <2>3, <4>2, <4>4
          <5> QED BY <2>2, <2>4, <2>7, <4>1, <4>4, <5>1 DEF In, n
        <4> QED BY <4>3, <4>4
      <3>2. ASSUME In(u, s), u # t
            PROVE  In(u, v)
        <4>1. PICK i \in 1 .. n : s[i] = u
          BY <3>2 DEF In, n
        <4> QED BY <2>2, <2>5, <2>6, <3>2, <4>1 DEF In
      <3> QED BY <3>1, <3>2
    <2> QED BY <2>1, <2>5, <2>8, <2>9
  <1> QED BY <1>2, <1>3

(* Two sets of threads that differ in one thread at most. *)
LEMMA Recount ==
  ASSUME NEW S \in SUBSET Threads, NEW T \in SUBSET Threads, NEW t \in Threads,
         S \ {t} = T \ {t}
  PROVE  /\ Cardinality(S) \in Nat /\ Cardinality(T) \in Nat
         /\ (t \in S <=> t \in T) => Cardinality(T) = Cardinality(S)
         /\ t \notin S /\ t \in T => Cardinality(T) = Cardinality(S) + 1
         /\ t \in S /\ t \notin T => Cardinality(S) = Cardinality(T) + 1
  <1>1. IsFiniteSet(S) /\ IsFiniteSet(T)
    BY MonitorAssumption, FS_Subset DEF MonitorAssumption
  <1>2. Cardinality(S) \in Nat /\ Cardinality(T) \in Nat
    BY <1>1, FS_CardinalityType
  <1>3. ASSUME t \in S <=> t \in T
        PROVE  Cardinality(T) = Cardinality(S)
    <2>1. S = T
      BY <1>3
    <2> QED BY <2>1
  <1>4. ASSUME t \notin S, t \in T
        PROVE  Cardinality(T) = Cardinality(S) + 1
    <2>1. T = S \cup {t}
      BY <1>4
    <2> QED BY <1>1, <1>4, <2>1, FS_AddElement
  <1>5. ASSUME t \in S, t \notin T
        PROVE  Cardinality(S) = Cardinality(T) + 1
    <2>1. S = T \cup {t}
      BY <1>5
    <2> QED BY <1>1, <1>5, <2>1, FS_AddElement
  <1> QED BY <1>2, <1>3, <1>4, <1>5

Num(p) == IF p THEN 1 ELSE 0

(* Only t's locals change: how the threads that waiters_counter_ counts change. *)
LEMMA RecountWaiters ==
  ASSUME NEW t \in Threads, \A u \in Threads \ {t} : local'[u] = local[u],
         NEW m, CountOK(m), NEW n,
         n.waiters_counter_ = m.waiters_counter_
                              + Num(WaitsIn(local'[t])) - Num(WaitsIn(local[t]))
                              + Num(BlocksIn(local'[t])) - Num(BlocksIn(local[t]))
  PROVE  CountOK(n)'
  <1> DEFINE W == {u \in Threads : WaitsIn(local[u])}
             B == {u \in Threads : BlocksIn(local[u])}
             W1 == {u \in Threads : WaitsIn(local'[u])}
             B1 == {u \in Threads : BlocksIn(local'[u])}
  <1>1. W \ {t} = W1 \ {t} /\ B \ {t} = B1 \ {t}
    OBVIOUS
  <1>2. /\ W \in SUBSET Threads /\ W1 \in SUBSET Threads
        /\ B \in SUBSET Threads /\ B1 \in SUBSET Threads
        /\ t \in W <=> WaitsIn(local[t])
        /\ t \in W1 <=> WaitsIn(local'[t])
        /\ t \in B <=> BlocksIn(local[t])
        /\ t \in B1 <=> BlocksIn(local'[t])
    OBVIOUS
  <1>3. m.waiters_counter_ = Cardinality(W) + Cardinality(B)
    BY DEF CountOK
  <1> HIDE DEF W, B, W1, B1
  <1>4. /\ Cardinality(W) \in Nat /\ Cardinality(W1) \in Nat
        /\ (t \in W <=> t \in W1) => Cardinality(W1) = Cardinality(W)
        /\ t \notin W /\ t \in W1 => Cardinality(W1) = Cardinality(W) + 1
        /\ t \in W /\ t \notin W1 => Cardinality(W) = Cardinality(W1) + 1
    BY <1>1, <1>2, Recount
  <1>5. /\ Cardinality(B) \in Nat /\ Cardinality(B1) \in Nat
        /\ (t \in B <=> t \in B1) => Cardinality(B1) = Cardinality(B)
        /\ t \notin B /\ t \in B1 => Cardinality(B1) = Cardinality(B) + 1
        /\ t \in B /\ t \notin B1 => Cardinality(B) = Cardinality(B1) + 1
    BY <1>1, <1>2, Recount
  <1>6. Cardinality(W1) = Cardinality(W) + Num(WaitsIn(local'[t])) - Num(WaitsIn(local[t]))
    BY <1>2, <1>4 DEF Num
  <1>7. Cardinality(B1) = Cardinality(B) + Num(BlocksIn(local'[t])) - Num(BlocksIn(local[t]))
    BY <1>2, <1>5 DEF Num
  <1>8. /\ Num(WaitsIn(local'[t])) \in Int /\ Num(WaitsIn(local[t])) \in Int
        /\ Num(BlocksIn(local'[t])) \in Int /\ Num(BlocksIn(local[t])) \in Int
    BY DEF Num
  <1>9. n.waiters_counter_ = Cardinality(W1) + Cardinality(B1)
    BY <1>3, <1>4, <1>5, <1>6, <1>7, <1>8
  <1> QED BY <1>9 DEF CountOK, W1, B1

(* waiters_counter_ is a natural number. *)
LEMMA CountNat ==
  ASSUME NEW m, CountOK(m)
  PROVE  m.waiters_counter_ \in Nat
  <1> DEFINE W == {u \in Threads : WaitsIn(local[u])}
             B == {u \in Threads : BlocksIn(local[u])}
  <1>1. W \in SUBSET Threads /\ B \in SUBSET Threads
    OBVIOUS
  <1>2. m.waiters_counter_ = Cardinality(W) + Cardinality(B)
    BY DEF CountOK
  <1> HIDE DEF W, B
  <1>3. IsFiniteSet(W) /\ IsFiniteSet(B)
    BY <1>1, MonitorAssumption, FS_Subset DEF MonitorAssumption
  <1>4. Cardinality(W) \in Nat /\ Cardinality(B) \in Nat
    BY <1>3, FS_CardinalityType
  <1> QED BY <1>2, <1>4

-----------------------------------------------------------------------------
(* Steps that change the locals of one thread, and of the Monitors at most the one
   that the mark refers to *)

Rest == ShapeInv /\ PlaceInv /\ PoolInv /\ WaitInv /\ HeavyInv /\ HashInv
        /\ (Hashers = {} => LevelsInv)

Others(t) == \A u \in Threads \ {t} : local'[u] = local[u]

Calm(t) ==
  /\ Others(t)
  /\ markWord_' = markWord_ /\ monitors_' = monitors_
  /\ \A i \in Ids : markWord_ # Heavy(i) => monitor'[i] = monitor[i]
  /\ local[t].pc \notin InflatingPcs /\ local'[t].pc \notin InflatingPcs

Placed(l) ==
  /\ l.pc \in UsingPcs => markWord_ = Heavy(l.id)
  /\ l.monitor_p # NoId => markWord_ = Heavy(l.monitor_p)

(* What a calm step of t leaves to be shown of each part: only what it says of t. *)
LEMMA CalmShape ==
  ASSUME ShapeInv, NEW t \in Threads, Others(t),
         \A u \in Threads \ {t} : depth'[u] = depth[u],
         Shape(t, local'[t]), NeedsDepth(local'[t]) => depth'[t] > 0
  PROVE  ShapeInv'
  <1> SUFFICES ASSUME NEW u \in Threads
               PROVE  Shape(u, local'[u]) /\ (NeedsDepth(local'[u]) => depth'[u] > 0)
    BY DEF ShapeInv
  <1>1. CASE u = t
    BY <1>1
  <1>2. CASE u # t
    BY <1>2 DEF ShapeInv, Others
  <1> QED BY <1>1, <1>2

(* Places and pool. *)
LEMMA CalmPlace ==
  ASSUME TypeOK, PlaceInv, PoolInv, NEW t \in Threads, Calm(t), Placed(local'[t])
  PROVE  PlaceInv' /\ PoolInv'
  <1>1. \A u \in Threads \ {t} : local'[u] = local[u]
    BY DEF Calm, Others
  <1>2. markWord_' = markWord_ /\ monitors_' = monitors_ /\ monitors_ \subseteq Ids
    BY DEF Calm, TypeOK
  <1>3. ASSUME NEW u \in Threads, local'[u].pc \in InflatingPcs
        PROVE  /\ u # t /\ local'[u] = local[u] /\ Inflating(u)
               /\ local[u].id \in monitors_ /\ markWord_ # Heavy(local[u].id)
               /\ monitor'[local[u].id] = PrivateFor(local[u], u)
    <2>1. u # t /\ local'[u] = local[u] /\ Inflating(u)
      BY <1>1, <1>3 DEF Calm, Inflating
    <2>2. local[u].id \in monitors_ /\ markWord_ # Heavy(local[u].id)
          /\ monitor[local[u].id] = PrivateFor(local[u], u)
      BY <2>1 DEF PlaceInv
    <2> QED BY <1>2, <2>1, <2>2 DEF Calm
  <1>4. ASSUME NEW u \in Threads, Inflating(u)
        PROVE  Inflating(u)' /\ local'[u] = local[u]
    BY <1>1, <1>4 DEF Calm, Inflating
  <1>5. PlaceInv'
    <2> SUFFICES ASSUME NEW u \in Threads
                 PROVE  /\ local'[u].pc \in UsingPcs => markWord_' = Heavy(local'[u].id)
                        /\ local'[u].monitor_p # NoId => markWord_' = Heavy(local'[u].monitor_p)
                        /\ local'[u].pc \in InflatingPcs =>
                             /\ local'[u].id \in monitors_' /\ markWord_' # Heavy(local'[u].id)
                             /\ monitor'[local'[u].id] = PrivateFor(local'[u], u)
      BY DEF PlaceInv, Inflating
    <2>1. Placed(local'[u])
      <3>1. CASE u = t
        BY <3>1
      <3>2. CASE u # t
        BY <1>1, <3>2 DEF PlaceInv, Placed
      <3> QED BY <3>1, <3>2
    <2> QED BY <1>2, <1>3, <2>1 DEF Placed
  <1>6. PoolInv'
    <2>1. \A i \in Ids : markWord_' = Heavy(i) => i \in monitors_'
      BY <1>2 DEF PoolInv
    <2>2. \A i \in monitors_' :
            markWord_' = Heavy(i) \/ \E u \in Threads : Inflating(u)' /\ local'[u].id = i
      BY <1>2, <1>4 DEF PoolInv
    <2>3. \A u, v \in Threads :
            Inflating(u)' /\ Inflating(v)' /\ local'[u].id = local'[v].id => u = v
      BY <1>3 DEF PoolInv, Inflating
    <2>4. \A i \in Ids \ monitors_' : monitor'[i] = NewMonitor
      BY <1>2 DEF PoolInv, Calm
    <2> QED BY <2>1, <2>2, <2>3, <2>4 DEF PoolInv
  <1> QED BY <1>5, <1>6

(* Waits. *)
LEMMA CalmWait ==
  ASSUME WaitInv, NEW t \in Threads, Others(t), ~WaitsIn(local[t]), ~WaitsIn(local'[t]),
         UNCHANGED <<waiting_monitor_, cond_lock_, signalled>>
  PROVE  WaitInv'
  <1> SUFFICES ASSUME NEW u \in Threads
               PROVE  /\ waiting_monitor_[u] = IF WaitsIn(local'[u]) THEN local'[u].id ELSE NoId
                      /\ u \in cond_lock_ <=>
                           WaitsIn(local'[u])
                           /\ local'[u].pc \in {"release", "signal", "unlock", "condWait"}
                      /\ u \in signalled => WaitsIn(local'[u]) /\ local'[u].pc = "waiting"
    BY DEF WaitInv
  <1>1. CASE u = t
    BY <1>1 DEF WaitInv
  <1>2. CASE u # t
    BY <1>2 DEF WaitInv, Others
  <1> QED BY <1>1, <1>2

(* A thread that does not wait and is not between two steps on the Monitor. *)
Neutral(l) == ~WaitsIn(l) /\ l.pc \notin {"signal", "unlock", "blocked", "owning"}

(* What a step of t may do to who owns the Monitor. *)
OwnerMove(t, m, n) ==
  \/ n.owner_ = m.owner_ /\ n.lock_ = m.lock_ /\ n.recursive_counter_ = m.recursive_counter_
  \/ m.lock_ \in {NoThread, t} /\ n.owner_ = t /\ n.lock_ = t /\ n.recursive_counter_ > 0

SameLists(m, n) == n.waiters_ = m.waiters_ /\ n.to_wakeup_ = m.to_wakeup_

(* A step of a thread that neither waits nor stops doing so. *)
LEMMA QuietHeavy ==
  ASSUME ShapeInv, HeavyInv, IsHeavy, markWord_' = markWord_, NEW t \in Threads, Others(t),
         Neutral(local[t]), Neutral(local'[t]),
         NEW m, m = TheMonitor, NEW n, n = monitor'[markWord_.id],
         n.waiters_counter_ = m.waiters_counter_, SameLists(m, n), OwnerMove(t, m, n),
         local'[t].pc # "waitEnd", local[t].pc # "waitEnd",
         UNCHANGED signalled
  PROVE  HeavyInv'
  <1>1. CountOK(m) /\ OwnersOK(m) /\ ListsOK(m) /\ WakesOK(m)
    BY DEF HeavyInv
  <1>2. TheMonitor' = n
    BY DEF TheMonitor
  <1>3. t # NoThread
    BY MonitorAssumption DEF MonitorAssumption
  <1>4. \A u \in Threads : u # t => local'[u] = local[u]
    BY DEF Others
  <1>5. CountOK(n)'
    <2>1. /\ ~WaitsIn(local[t]) /\ ~WaitsIn(local'[t])
          /\ ~BlocksIn(local[t]) /\ ~BlocksIn(local'[t])
      BY DEF Neutral, BlocksIn
    <2>2. m.waiters_counter_ = m.waiters_counter_ + 0 - 0 + 0 - 0
      BY <1>1, CountNat
    <2> QED BY <1>1, <1>4, <2>1, <2>2, RecountWaiters DEF Num
  <1>6. OwnersOK(n)'
    <2>1. ASSUME NEW u \in Threads
          PROVE  OwnerOK(u, local'[u], n)
      <3>1. CASE u = t
        BY <3>1 DEF Neutral, OwnerOK, WaitsIn, UsingPcs
      <3>2. CASE u # t
        <4>1. local'[u] = local[u] /\ OwnerOK(u, local[u], m)
          BY <1>1, <1>4, <3>2 DEF OwnersOK
        <4>2. m.owner_ # NoThread => m.lock_ = m.owner_
          BY <1>1 DEF OwnersOK
        <4>3. u # NoThread
          BY MonitorAssumption DEF MonitorAssumption
        <4> QED BY <3>2, <4>1, <4>2, <4>3 DEF OwnerOK, OwnerMove
      <3> QED BY <3>1, <3>2
    <2> QED BY <1>1, <1>3, <2>1 DEF OwnersOK, OwnerMove
  <1>7. \A u \in Threads : /\ At(u, "signal")' <=> At(u, "signal")
                           /\ At(u, "unlock")' <=> At(u, "unlock")
                           /\ At(u, "signal") => local'[u] = local[u]
                           /\ WaitsIn(local'[u]) <=> WaitsIn(local[u])
                           /\ WaitsIn(local[u]) => local'[u] = local[u]
    BY <1>4 DEF At, Neutral
  <1>8. ListsOK(n)'
    <2>1. ASSUME NEW u \in Threads
          PROVE  /\ ~(In(u, n.waiters_) /\ In(u, n.to_wakeup_))
                 /\ Listed(u, n) => WaitsIn(local'[u])
                 /\ local'[u].op = "wait" /\ local'[u].pc = "release" => In(u, n.waiters_)
                 /\ local'[u].op = "wait" /\ local'[u].pc \in {"signal", "unlock", "condWait", "waiting"} =>
                      Listed(u, n) \/ u \in signalled \/ ToBeSignalled(u)'
      <3>1. Listed(u, n) <=> Listed(u, m)
        BY DEF Listed, SameLists
      <3>2. ToBeSignalled(u) => ToBeSignalled(u)'
        BY <1>7 DEF ToBeSignalled
      <3>3. local'[u].op = "wait" /\ local'[u].pc \in {"release", "signal", "unlock", "condWait", "waiting"} =>
               local'[u] = local[u]
        BY <1>7 DEF WaitsIn, UsingPcs
      <3> QED BY <1>1, <1>7, <3>1, <3>2, <3>3 DEF ListsOK, SameLists
    <2> QED BY <1>1, <2>1 DEF ListsOK, SameLists
  <1>9. WakesOK(n)'
    <2>1. \A u \in Threads : At(u, "signal")' => local'[u].other # u /\ WaitsIn(local'[local'[u].other])
      <3>1. \A u \in Threads : At(u, "signal") => local[u].other \in Threads
        BY DEF ShapeInv, Shape, At
      <3> QED BY <1>1, <1>7, <3>1 DEF WakesOK
    <2>2. ASSUME n.to_wakeup_ # <<>>, n.lock_ = NoThread \/ \E u \in Threads : At(u, "unlock")'
          PROVE  \E u \in Threads : Coming(u)'
      <3>1. m.lock_ = NoThread \/ \E u \in Threads : At(u, "unlock")
        BY <1>3, <1>7, <2>2 DEF OwnerMove
      <3>2. PICK u \in Threads : Coming(u)
        BY <1>1, <2>2, <3>1 DEF WakesOK, SameLists
      <3>3. Coming(u)'
        BY <1>7, <3>2 DEF Coming
      <3> QED BY <3>3
    <2> QED BY <2>1, <2>2 DEF WakesOK
  <1> QED BY <1>2, <1>5, <1>6, <1>8, <1>9 DEF HeavyInv

HashKnown(l) == l.op = "hashExit" \/ l.pc = "hashReturn"

(* Hashes. *)
LEMMA CalmHash ==
  ASSUME ShapeInv, PlaceInv, HashInv, NEW t \in Threads, Others(t),
         markWord_' = markWord_, IsHeavy => monitor'[markWord_.id].hash_code_ = TheMonitor.hash_code_,
         hashes' \subseteq hashes \cup {CurrentHash},
         HashKnown(local'[t]) => monitor'[local'[t].monitor_p].hash_code_ # NoHash
  PROVE  HashInv'
  <1>1. CurrentHash' = CurrentHash
    BY DEF CurrentHash, IsHeavy, TheMonitor
  <1>2. ASSUME NEW u \in Threads, u # t, HashKnown(local'[u])
        PROVE  monitor'[local'[u].monitor_p].hash_code_ # NoHash
    <2>1. local'[u] = local[u]
      BY <1>2 DEF Others
    <2>2. local[u].monitor_p # NoId
      BY <1>2, <2>1 DEF ShapeInv, Shape, HashKnown
    <2>3. markWord_ = Heavy(local[u].monitor_p)
      BY <2>2 DEF PlaceInv
    <2>4. markWord_.state = "HEAVY_LOCKED" /\ markWord_.id = local[u].monitor_p
      BY <2>3, MarksMade
    <2> QED BY <1>2, <2>1, <2>4 DEF HashInv, HashKnown, IsHeavy, TheMonitor
  <1> QED BY <1>1, <1>2 DEF HashInv, HashKnown

(* The levels of the others do not change with the owner. *)
LEMMA OthersLevels ==
  ASSUME HeavyInv, markWord_' = markWord_, NEW t \in Threads,
         IsHeavy => OwnerMove(t, TheMonitor, monitor'[markWord_.id])
  PROVE  \A u \in Threads : u # t => Levels(u)' = Levels(u)
  <1> SUFFICES ASSUME NEW u \in Threads, u # t
               PROVE  Levels(u)' = Levels(u)
    OBVIOUS
  <1>1. u # NoThread
    BY MonitorAssumption DEF MonitorAssumption
  <1>2. IsLightOf(markWord_, u)' <=> IsLightOf(markWord_, u)
    OBVIOUS
  <1>3. CASE IsHeavy
    <2>1. TheMonitor.owner_ # NoThread => TheMonitor.lock_ = TheMonitor.owner_
      BY <1>3 DEF HeavyInv, OwnersOK
    <2> QED BY <1>1, <1>2, <1>3, <2>1 DEF OwnerMove, Levels, IsHeavy, TheMonitor
  <1>4. CASE ~IsHeavy
    BY <1>2, <1>4 DEF Levels, IsHeavy
  <1> QED BY <1>3, <1>4

(* Levels. *)
LEMMA CalmLevels ==
  ASSUME LevelsInv, NEW t \in Threads, Others(t),
         \A u \in Threads \ {t} : depth'[u] = depth[u] /\ Levels(u)' = Levels(u),
         LevelsOK(local'[t], Levels(t)', depth'[t])
  PROVE  LevelsInv'
  <1> SUFFICES ASSUME NEW u \in Threads
               PROVE  LevelsOK(local'[u], Levels(u)', depth'[u])
    BY DEF LevelsInv
  <1>1. CASE u = t
    BY <1>1
  <1>2. CASE u # t
    BY <1>2 DEF LevelsInv, Others
  <1> QED BY <1>1, <1>2

(* A step that does nothing but look: only t's locals change, and hashes may take the
   hash there is. *)
LEMMA LookStep ==
  ASSUME Inv, NEW t \in Threads, Others(t),
         UNCHANGED <<markWord_, monitors_, monitor, depth, waiting_monitor_, cond_lock_, signalled>>,
         hashes' \subseteq hashes \cup {CurrentHash},
         local[t].pc \notin InflatingPcs, local'[t].pc \notin InflatingPcs,
         local[t].pc # "waitEnd", local'[t].pc # "waitEnd",
         Neutral(local[t]), Neutral(local'[t]),
         Shape(t, local'[t]), NeedsDepth(local'[t]) => depth[t] > 0,
         Placed(local'[t]),
         HashKnown(local'[t]) => monitor[local'[t].monitor_p].hash_code_ # NoHash,
         Hashers = {} => LevelsOK(local'[t], Levels(t), depth[t])
  PROVE  Rest'
  <1>1. ShapeInv'
    BY CalmShape DEF Inv
  <1>2. PlaceInv' /\ PoolInv'
    <2>1. Calm(t)
      BY DEF Calm
    <2> QED BY <2>1, CalmPlace DEF Inv
  <1>3. WaitInv'
    BY CalmWait DEF Inv, Neutral
  <1>4. IsHeavy => OwnerMove(t, TheMonitor, monitor'[markWord_.id])
    BY DEF OwnerMove, TheMonitor
  <1>5. HeavyInv'
    <2>1. CASE IsHeavy
      <3> DEFINE m == TheMonitor
      <3>1. m = monitor'[markWord_.id] /\ SameLists(m, m) /\ OwnerMove(t, m, m)
        BY DEF SameLists, OwnerMove, TheMonitor
      <3> HIDE DEF m
      <3>2. m = TheMonitor
        BY DEF m
      <3> QED BY <2>1, <3>1, <3>2, QuietHeavy DEF Inv
    <2>2. CASE ~IsHeavy
      BY <2>2 DEF HeavyInv, IsHeavy
    <2> QED BY <2>1, <2>2
  <1>6. HashInv'
    BY CalmHash DEF Inv, TheMonitor
  <1>7. Hashers = {} => LevelsInv'
    <2>1. \A u \in Threads : Levels(u)' = Levels(u)
      BY DEF Levels, IsLightOf
    <2> QED BY <2>1, CalmLevels DEF Inv
  <1> QED BY <1>1, <1>2, <1>3, <1>5, <1>6, <1>7 DEF Rest

(* Nothing but locals and the known hashes changes. *)
Still ==
  /\ UNCHANGED <<markWord_, monitors_, monitor, depth, waiting_monitor_, cond_lock_, signalled>>
  /\ hashes' \subseteq hashes \cup {CurrentHash}

(* Locals k with which t may go on when it used no Monitor before. *)
Arrives(t, k) ==
  /\ k.pc \notin InflatingPcs \cup (UsingPcs \ {"acquire", "release"})
  /\ k.pc \in {"acquire", "release"} => k.op # "wait"
  /\ Shape(t, k)
  /\ NeedsDepth(k) => depth[t] > 0
  /\ Placed(k)
  /\ HashKnown(k) => monitor[k.monitor_p].hash_code_ # NoHash
  /\ Hashers = {} /\ Levels(t) = depth[t] /\ k.pc = "inflate" =>
       /\ k.after = "entered" => depth[t] = 0
       /\ k.after \in {"enter", "wait"} => depth[t] > 0

(* A step that changes the locals of t only, and promises what Arrives asks of the new ones. *)
LEMMA Look ==
  ASSUME Inv, NEW t \in Threads, Others(t), Still,
         Neutral(local[t]), local[t].pc \notin InflatingPcs \cup {"waitEnd"}, Arrives(t, local'[t])
  PROVE  Rest'
  <1> DEFINE l == local[t]
             k == local'[t]
  <1>0. l = local[t] /\ k = local'[t]
    OBVIOUS
  <1> HIDE DEF l, k
  <1>1. Neutral(l) /\ Neutral(k)
    BY <1>0 DEF Neutral, WaitsIn, UsingPcs, Arrives
  <1>2. l.pc \notin InflatingPcs /\ k.pc \notin InflatingPcs /\ l.pc # "waitEnd" /\ k.pc # "waitEnd"
    BY <1>0 DEF UsingPcs, Arrives
  <1>3. Hashers = {} => LevelsOK(k, Levels(t), depth[t])
    <2> SUFFICES ASSUME Hashers = {}
                 PROVE  LevelsOK(k, Levels(t), depth[t])
      OBVIOUS
    <2>1. LevelsOK(l, Levels(t), depth[t])
      BY <1>0 DEF Inv, LevelsInv
    <2>2. Levels(t) = depth[t]
      BY <1>1, <2>1 DEF LevelsOK, Neutral
    <2> QED BY <1>0, <1>1, <2>2 DEF LevelsOK, Neutral, InflatingPcs, Arrives
  <1> QED BY <1>0, <1>1, <1>2, <1>3, LookStep DEF Still, Arrives

(* What Goto, Return and Loop make of the locals. *)
LEMMA Moves ==
  ASSUME TypeOK, NEW t \in Threads
  PROVE  LET l == local[t]
             k == local'[t]
         IN  /\ \A p : Goto(t, p) => /\ Others(t) /\ k.pc = p /\ k.op = l.op /\ k.after = l.after
                                     /\ k.old_mark = l.old_mark /\ k.id = l.id
                                     /\ k.other = l.other /\ k.counter = l.counter
                                     /\ k.monitor_p = l.monitor_p
             /\ Return(t) => Others(t) /\ k = IdleLocal
             /\ \A p : Loop(t, p) => /\ Others(t) /\ k.pc = p /\ k.op = l.op /\ k.after = "none"
                                     /\ k.id = NoId /\ k.counter = 0
                                     /\ k.monitor_p = l.monitor_p
  <1>1. local \in [Threads -> Locals]
    BY DEF TypeOK
  <1>2. ASSUME NEW p, Goto(t, p)
        PROVE  LET l == local[t]
                   k == local'[t]
               IN  /\ Others(t) /\ k.pc = p /\ k.op = l.op /\ k.after = l.after
                   /\ k.old_mark = l.old_mark /\ k.id = l.id
                   /\ k.other = l.other /\ k.counter = l.counter
                   /\ k.monitor_p = l.monitor_p
    BY <1>1, <1>2 DEF Goto, Others, Locals
  <1>3. ASSUME Return(t)
        PROVE  Others(t) /\ local'[t] = IdleLocal
    BY <1>1, <1>3 DEF Return, Others
  <1>4. ASSUME NEW p, Loop(t, p)
        PROVE  LET l == local[t]
                   k == local'[t]
               IN  /\ Others(t) /\ k.pc = p /\ k.op = l.op /\ k.after = "none"
                   /\ k.id = NoId /\ k.counter = 0
                   /\ k.monitor_p = l.monitor_p
    BY <1>1, <1>4 DEF Loop, Others, IdleLocal
  <1> QED BY <1>2, <1>3, <1>4

(* Where a call begins or begins again. *)
LEMMA ArrivesAt ==
  ASSUME NEW t \in Threads, NEW k
  PROVE  /\ k = IdleLocal => Arrives(t, k)
         /\ k.pc = "enter" /\ k.op \in EnterOps /\ k.monitor_p = NoId => Arrives(t, k)
         /\ k.pc = "exit" /\ k.op = "exit" /\ k.monitor_p = NoId /\ depth[t] > 0 => Arrives(t, k)
         /\ k.pc = "wait" /\ k.op = "wait" /\ k.monitor_p = NoId => Arrives(t, k)
         /\ k.pc \in {"hash", "sleep", "hashCas"} /\ k.op = "hash" /\ k.monitor_p = NoId
            /\ t \in Hashers => Arrives(t, k)
  <1> USE DEF Arrives, InflatingPcs, UsingPcs, Shape, NeedsDepth, Placed, HashKnown, HashOps, EnterOps
  <1>1. ASSUME k = IdleLocal
        PROVE  Arrives(t, k)
    <2>1. k.pc = "idle" /\ k.op = "none" /\ k.monitor_p = NoId
      BY <1>1 DEF IdleLocal
    <2> QED BY <2>1
  <1>2. ASSUME k.pc = "enter", k.op \in EnterOps, k.monitor_p = NoId
        PROVE  Arrives(t, k)
    BY <1>2
  <1>3. ASSUME k.pc = "exit", k.op = "exit", k.monitor_p = NoId, depth[t] > 0
        PROVE  Arrives(t, k)
    BY <1>3
  <1>4. ASSUME k.pc = "wait", k.op = "wait", k.monitor_p = NoId
        PROVE  Arrives(t, k)
    BY <1>4
  <1>5. ASSUME k.pc \in {"hash", "sleep", "hashCas"}, k.op = "hash", k.monitor_p = NoId, t \in Hashers
        PROVE  Arrives(t, k)
    BY <1>5
  <1> QED BY <1>1, <1>2, <1>3, <1>4, <1>5

(* A thread outside of a Monitor is neutral. *)
LEMMA NeutralAt ==
  ASSUME NEW l, l.pc \notin UsingPcs \cup InflatingPcs
  PROVE  Neutral(l) /\ l.pc \notin InflatingPcs \cup {"waitEnd"}
  BY DEF Neutral, WaitsIn, UsingPcs

(* The calls of managed code. *)
LEMMA CallRest ==
  ASSUME Inv, NEW t \in Threads,
         \/ \E trylock \in BOOLEAN : MonitorEnter(t, trylock)
         \/ MonitorExit(t) \/ Wait(t) \/ GetHashCode(t)
  PROVE  Rest'
  <1> DEFINE l == local[t]
             k == local'[t]
  <1>1. local \in [Threads -> Locals] /\ Shape(t, l)
    BY DEF Inv, TypeOK, ShapeInv
  <1>2. l.pc = "idle" /\ l.op = "none" /\ l.monitor_p = NoId
    BY <1>1 DEF MonitorEnter, MonitorExit, Wait, GetHashCode, At, Shape
  <1>3. Others(t) /\ k.monitor_p = NoId
    BY <1>1, <1>2 DEF MonitorEnter, MonitorExit, Wait, GetHashCode, Others, Locals
  <1>4. Still
    BY DEF MonitorEnter, MonitorExit, Wait, GetHashCode, pool, waits, Still
  <1>5. Arrives(t, k)
    <2>1. ASSUME NEW trylock \in BOOLEAN, MonitorEnter(t, trylock)
          PROVE  k.pc = "enter" /\ k.op \in EnterOps
      BY <1>1, <2>1 DEF MonitorEnter, EnterOps, Locals
    <2>2. MonitorExit(t) => k.pc = "exit" /\ k.op = "exit" /\ depth[t] > 0
      BY <1>1 DEF MonitorExit, Locals
    <2>3. Wait(t) => k.pc = "wait" /\ k.op = "wait"
      BY <1>1 DEF Wait, Locals
    <2>4. GetHashCode(t) => k.pc = "hash" /\ k.op = "hash" /\ t \in Hashers
      BY <1>1 DEF GetHashCode, Locals
    <2> QED BY <1>3, <2>1, <2>2, <2>3, <2>4, ArrivesAt
  <1>6. Neutral(l) /\ l.pc \notin InflatingPcs \cup {"waitEnd"}
    BY <1>2, NeutralAt DEF UsingPcs, InflatingPcs
  <1> QED BY <1>3, <1>4, <1>5, <1>6, Look

(* MonitorEnter looks at the mark. *)
LEMMA EnterLoadRest ==
  ASSUME Inv, NEW t \in Threads, EnterLoad(t)
  PROVE  Rest'
  <1> DEFINE l == local[t]
             k == local'[t]
             mark == markWord_
  <1>1. /\ local \in [Threads -> Locals] /\ Shape(t, l) /\ Placed(l) /\ mark \in Marks
        /\ Hashers = {} => LevelsOK(l, Levels(t), depth[t])
    BY DEF Inv, TypeOK, ShapeInv, PlaceInv, Placed, LevelsInv
  <1>2. l.pc = "enter" /\ l.op \in EnterOps \cup {"hashEnter"}
    BY <1>1 DEF EnterLoad, At, Shape
  <1>3. mark.state # "HEAVY_LOCKED" => l.monitor_p = NoId /\ l.op \in EnterOps
    BY <1>1, <1>2, MarksMade DEF Placed, Shape
  <1>4. Still
    BY DEF EnterLoad, pool, waits, Still
  <1>5. Others(t) /\ Arrives(t, k)
    <2>1. CASE /\ mark.state = "HEAVY_LOCKED"
               /\ local' = [local EXCEPT ![t].pc = "acquire", ![t].id = mark.id]
      <3>1. /\ Others(t) /\ k.pc = "acquire" /\ k.op = l.op /\ k.id = mark.id
            /\ k.monitor_p = l.monitor_p
        BY <1>1, <2>1 DEF Others, Locals
      <3>2. mark = Heavy(mark.id)
        BY <1>1, <2>1, MarkFields
      <3> HIDE DEF k, l
      <3> QED BY <1>1, <1>2, <3>1, <3>2
             DEF Arrives, InflatingPcs, UsingPcs, Shape, NeedsDepth, Placed, HashKnown, HashOps, EnterOps
    <2>2. CASE /\ mark.state = "UNLOCKED"
               /\ local' = [local EXCEPT ![t].pc = "cas", ![t].old_mark = mark]
      <3>1. /\ Others(t) /\ k.pc = "cas" /\ k.op = l.op /\ k.old_mark = mark
            /\ k.monitor_p = l.monitor_p
        BY <1>1, <2>2 DEF Others, Locals
      <3>2. mark = Unlocked
        BY <1>1, <2>2, MarkFields
      <3> HIDE DEF k, l
      <3> QED BY <1>1, <1>2, <1>3, <2>2, <3>1, <3>2
             DEF Arrives, InflatingPcs, UsingPcs, Shape, NeedsDepth, Placed, HashKnown, HashOps, EnterOps
    <2>3. CASE /\ mark.state = "HASHED"
               /\ local' = [local EXCEPT ![t].pc = "inflate", ![t].after = "entered"]
      <3>1. /\ Others(t) /\ k.pc = "inflate" /\ k.op = l.op /\ k.after = "entered"
            /\ k.monitor_p = l.monitor_p
        BY <1>1, <2>3 DEF Others, Locals
      <3>2. Levels(t) = 0
        BY <2>3 DEF Levels, IsLightOf
      <3> HIDE DEF k, l
      <3> QED BY <1>1, <1>2, <1>3, <2>3, <3>1, <3>2
             DEF Arrives, InflatingPcs, UsingPcs, Shape, NeedsDepth, Placed, HashKnown, HashOps, EnterOps
    <2>4. CASE /\ IsLightOf(mark, t)
               /\ mark.count + 1 < LightLockMax
               /\ local' = [local EXCEPT ![t].pc = "cas", ![t].old_mark = mark]
      <3>1. /\ Others(t) /\ k.pc = "cas" /\ k.op = l.op /\ k.old_mark = mark
            /\ k.monitor_p = l.monitor_p
        BY <1>1, <2>4 DEF Others, Locals
      <3>2. mark.state # "HEAVY_LOCKED"
        BY <2>4 DEF IsLightOf
      <3> HIDE DEF k, l
      <3> QED BY <1>1, <1>2, <1>3, <2>4, <3>1, <3>2
             DEF Arrives, InflatingPcs, UsingPcs, Shape, NeedsDepth, Placed, HashKnown, HashOps, EnterOps
    <2>5. CASE /\ IsLightOf(mark, t)
               /\ local' = [local EXCEPT ![t].pc = "inflate", ![t].after = "enter"]
      <3>1. /\ Others(t) /\ k.pc = "inflate" /\ k.op = l.op /\ k.after = "enter"
            /\ k.monitor_p = l.monitor_p
        BY <1>1, <2>5 DEF Others, Locals
      <3>2. mark.state # "HEAVY_LOCKED" /\ Levels(t) = mark.count /\ mark.count \in Nat /\ mark.count >= 1
        BY <1>1, <2>5, MarkFields DEF IsLightOf, Levels
      <3> HIDE DEF k, l
      <3> QED BY <1>1, <1>2, <1>3, <2>5, <3>1, <3>2
             DEF Arrives, InflatingPcs, UsingPcs, Shape, NeedsDepth, Placed, HashKnown, HashOps, EnterOps
    <2>6. CASE mark.state = "LIGHT_LOCKED" /\ Return(t)
      BY <2>6, Moves, ArrivesAt DEF Inv
    <2>7. CASE /\ mark.state = "LIGHT_LOCKED"
               /\ local' = [local EXCEPT ![t].pc = "suspendOwner", ![t].other = mark.thread]
      <3>1. /\ Others(t) /\ k.pc = "suspendOwner" /\ k.op = l.op /\ k.other = mark.thread
            /\ k.monitor_p = l.monitor_p
        BY <1>1, <2>7 DEF Others, Locals
      <3>2. mark.thread \in Threads
        BY <1>1, <2>7, MarkFields
      <3> HIDE DEF k, l
      <3> QED BY <1>1, <1>2, <1>3, <2>7, <3>1, <3>2
             DEF Arrives, InflatingPcs, UsingPcs, Shape, NeedsDepth, Placed, HashKnown, HashOps, EnterOps
    <2> QED BY <2>1, <2>2, <2>3, <2>4, <2>5, <2>6, <2>7 DEF EnterLoad
  <1>6. Neutral(l) /\ l.pc \notin InflatingPcs \cup {"waitEnd"}
    BY <1>2, NeutralAt DEF UsingPcs, InflatingPcs
  <1> QED BY <1>4, <1>5, <1>6, Look

(* MonitorEnter or Inflate failed: the call begins again or returns. *)
LEMMA AgainArrives ==
  ASSUME Inv, NEW t \in Threads, local[t].op \in EnterOps, local[t].monitor_p = NoId, EnterAgain(t)
  PROVE  Others(t) /\ Arrives(t, local'[t])
  <1>1. CASE Return(t)
    BY <1>1, Moves, ArrivesAt DEF Inv
  <1>2. CASE Loop(t, "enter")
    BY <1>2, Moves, ArrivesAt DEF Inv
  <1> QED BY <1>1, <1>2 DEF EnterAgain

(* InflateFailed goes back to the head of the loop of its caller. *)
LEMMA FailedArrives ==
  ASSUME Inv, NEW t \in Threads, local[t].pc \in {"inflate", "inflateCas"}, InflateFailed(t)
  PROVE  Others(t) /\ Arrives(t, local'[t])
  <1>1. /\ local[t].op \in EnterOps \cup {"wait", "hash"} /\ local[t].monitor_p = NoId
        /\ local[t].op = "hash" => t \in Hashers
    BY DEF Inv, ShapeInv, Shape, EnterOps, HashOps
  <1>2. CASE local[t].op \in EnterOps /\ EnterAgain(t)
    BY <1>1, <1>2, AgainArrives
  <1>3. CASE local[t].op = "wait" /\ Loop(t, "wait")
    BY <1>1, <1>3, Moves, ArrivesAt DEF Inv
  <1>4. CASE local[t].op = "hash" /\ Loop(t, IF t \in is_interrupted_ THEN "hash" ELSE "sleep")
    BY <1>1, <1>4, Moves, ArrivesAt DEF Inv
  <1> QED BY <1>1, <1>2, <1>3, <1>4 DEF InflateFailed, EnterOps

(* The exchange failed, or the owner is being suspended or resumed. *)
LEMMA EnterRest ==
  ASSUME Inv, NEW t \in Threads,
         \/ EnterCasFail(t) \/ SuspendOwner(t) \/ OwnerSuspended(t)
         \/ InflateOtherLoad(t) /\ Goto(t, "resume") /\ UNCHANGED <<pool, monitor>>
         \/ ResumeOwner(t)
  PROVE  Rest'
  <1> DEFINE l == local[t]
             k == local'[t]
  <1>1. Shape(t, l) /\ TypeOK
    BY DEF Inv, ShapeInv
  <1>2. /\ l.pc \in {"cas", "suspendOwner", "waitOwner", "inflateOther", "resume"}
        /\ l.op \in EnterOps /\ l.monitor_p = NoId
        /\ l.pc # "cas" => l.other \in Threads
    BY <1>1 DEF Shape, EnterCasFail, SuspendOwner, OwnerSuspended, InflateOtherLoad,
                ResumeOwner, At, EnterOps
  <1>3. Still
    BY DEF EnterCasFail, SuspendOwner, OwnerSuspended, InflateOtherLoad, ResumeOwner, pool,
           waits, Still
  <1>4. Others(t) /\ Arrives(t, k)
    <2>1. CASE EnterAgain(t)
      BY <1>2, <2>1, AgainArrives
    <2>2. CASE Loop(t, "enter")
      BY <1>1, <1>2, <2>2, Moves, ArrivesAt
    <2>3. ASSUME NEW p \in {"waitOwner", "inflateOther", "resume"}, Goto(t, p), l.pc # "cas"
          PROVE  Others(t) /\ Arrives(t, k)
      <3>1. /\ Others(t) /\ k.pc = p /\ k.op = l.op /\ k.other = l.other
            /\ k.monitor_p = l.monitor_p
        BY <1>1, <2>3, Moves
      <3> HIDE DEF k, l
      <3> QED BY <1>2, <2>3, <3>1
             DEF Arrives, InflatingPcs, UsingPcs, Shape, NeedsDepth, Placed, HashKnown, HashOps, EnterOps
    <2> QED BY <2>1, <2>2, <2>3
           DEF EnterCasFail, SuspendOwner, OwnerSuspended, InflateOtherLoad, ResumeOwner, At
  <1>5. Neutral(l) /\ l.pc \notin InflatingPcs \cup {"waitEnd"}
    BY <1>2, NeutralAt DEF UsingPcs, InflatingPcs
  <1> QED BY <1>3, <1>4, <1>5, Look

(* Inflate finds a lock that it cannot inflate. *)
LEMMA InflateFailedRest ==
  ASSUME Inv, NEW t \in Threads, InflateLoad(t), InflateFailed(t), UNCHANGED <<monitors_, monitor>>
  PROVE  Rest'
  <1>1. local[t].pc = "inflate" /\ Still
    BY DEF InflateLoad, At, waits, Still
  <1>2. Others(t) /\ Arrives(t, local'[t])
    BY <1>1, FailedArrives
  <1>3. Neutral(local[t]) /\ local[t].pc \notin InflatingPcs \cup {"waitEnd"}
    BY <1>1, NeutralAt DEF UsingPcs, InflatingPcs
  <1> QED BY <1>1, <1>2, <1>3, Look

(* MonitorExit looks at the mark. *)
LEMMA ExitRest ==
  ASSUME Inv, NEW t \in Threads, ExitLoad(t) \/ ExitCasFail(t)
  PROVE  Rest'
  <1> DEFINE l == local[t]
             k == local'[t]
             mark == markWord_
  <1>1. /\ local \in [Threads -> Locals] /\ Shape(t, l) /\ Placed(l) /\ mark \in Marks /\ TypeOK
        /\ HashKnown(l) => monitor[l.monitor_p].hash_code_ # NoHash
        /\ NeedsDepth(l) => depth[t] > 0
    BY DEF Inv, TypeOK, ShapeInv, PlaceInv, Placed, HashInv, HashKnown
  <1>2. /\ l.pc \in {"exit", "exitCas"} /\ l.op \in {"exit", "hashExit"} /\ depth[t] > 0
        /\ l.pc = "exitCas" => l.op = "exit"
    BY <1>1 DEF ExitLoad, ExitCasFail, At, Shape, NeedsDepth
  <1>3. Still
    BY DEF ExitLoad, ExitCasFail, pool, waits, Still
  <1>4. Others(t) /\ Arrives(t, k)
    <2>1. CASE /\ mark.state = "HEAVY_LOCKED"
               /\ local' = [local EXCEPT ![t].pc = "release", ![t].id = mark.id]
      <3>1. /\ Others(t) /\ k.pc = "release" /\ k.op = l.op /\ k.id = mark.id
            /\ k.monitor_p = l.monitor_p
        BY <1>1, <2>1 DEF Others, Locals
      <3>2. mark = Heavy(mark.id)
        BY <1>1, <2>1, MarkFields
      <3> HIDE DEF k, l
      <3> QED BY <1>1, <1>2, <3>1, <3>2
             DEF Arrives, InflatingPcs, UsingPcs, Shape, NeedsDepth, Placed, HashKnown, HashOps, EnterOps
    <2>2. CASE /\ IsLightOf(mark, t)
               /\ local' = [local EXCEPT ![t].pc = "exitCas", ![t].old_mark = mark]
      <3>1. /\ Others(t) /\ k.pc = "exitCas" /\ k.op = l.op /\ k.old_mark = mark
            /\ k.monitor_p = l.monitor_p
        BY <1>1, <2>2 DEF Others, Locals
      <3>2. mark.state # "HEAVY_LOCKED"
        BY <2>2 DEF IsLightOf
      <3>3. l.monitor_p = NoId /\ l.op = "exit"
        BY <1>1, <1>2, <3>2, MarksMade DEF Placed, Shape
      <3> HIDE DEF k, l
      <3> QED BY <1>1, <1>2, <2>2, <3>1, <3>3
             DEF Arrives, InflatingPcs, UsingPcs, Shape, NeedsDepth, Placed, HashKnown, HashOps, EnterOps
    <2>3. CASE Return(t)
      BY <1>1, <2>3, Moves, ArrivesAt
    <2>4. CASE l.pc = "exitCas" /\ Loop(t, "exit")
      <3>1. l.monitor_p = NoId /\ l.op = "exit"
        BY <1>1, <2>4 DEF Shape
      <3> QED BY <1>1, <1>2, <2>4, <3>1, Moves, ArrivesAt
    <2> QED BY <2>1, <2>2, <2>3, <2>4 DEF ExitLoad, ExitCasFail, At
  <1>5. Neutral(l) /\ l.pc \notin InflatingPcs \cup {"waitEnd"}
    BY <1>2, NeutralAt DEF UsingPcs, InflatingPcs
  <1> QED BY <1>3, <1>4, <1>5, Look

(* Wait inflates the lock or does not wait; a stopped thread; an interruption noted. *)
LEMMA WaitRest ==
  ASSUME Inv, NEW t \in Threads, WaitInflate(t) \/ WaitInterrupted(t) \/ Poll(t) \/ Interrupted(t)
  PROVE  Rest'
  <1> DEFINE l == local[t]
             k == local'[t]
             mark == markWord_
  <1>1. /\ local \in [Threads -> Locals] /\ Shape(t, l) /\ mark \in Marks /\ TypeOK
        /\ Hashers = {} => LevelsOK(l, Levels(t), depth[t])
    BY DEF Inv, TypeOK, ShapeInv, LevelsInv
  <1>2. /\ l.pc \in {"wait", "idle", "stopped"} /\ l.monitor_p = NoId
        /\ l.op = IF l.pc = "wait" THEN "wait" ELSE "none"
    BY <1>1 DEF WaitInflate, WaitInterrupted, Poll, Interrupted, At, Shape
  <1>3. Still
    BY DEF WaitInflate, WaitInterrupted, Poll, Interrupted, pool, waits, Still
  <1>4. Others(t) /\ Arrives(t, k)
    <2>1. CASE WaitInflate(t)
      <3>1. /\ Others(t) /\ k.pc = "inflate" /\ k.op = l.op /\ k.after = "wait"
            /\ k.monitor_p = l.monitor_p /\ l.pc = "wait"
        BY <1>1, <2>1 DEF Others, Locals, WaitInflate, At
      <3>2. Levels(t) = mark.count /\ mark.count \in Nat /\ mark.count >= 1
        BY <1>1, <2>1, MarkFields DEF IsLightOf, Levels, WaitInflate
      <3> HIDE DEF k, l
      <3> QED BY <1>1, <1>2, <3>1, <3>2
             DEF Arrives, InflatingPcs, UsingPcs, Shape, NeedsDepth, Placed, HashKnown, HashOps, EnterOps
    <2>2. CASE Return(t)
      BY <1>1, <2>2, Moves, ArrivesAt
    <2>3. ASSUME l.pc # "wait", NEW p \in {"idle", "stopped"}, Goto(t, p)
          PROVE  Others(t) /\ Arrives(t, k)
      <3>1. Others(t) /\ k.pc = p /\ k.op = l.op /\ k.monitor_p = l.monitor_p
        BY <1>1, <2>3, Moves
      <3> HIDE DEF k, l
      <3> QED BY <1>2, <2>3, <3>1
             DEF Arrives, InflatingPcs, UsingPcs, Shape, NeedsDepth, Placed, HashKnown, HashOps, EnterOps
    <2>4. ASSUME l.pc # "wait", local' = local
          PROVE  Others(t) /\ Arrives(t, k)
      <3>1. Others(t) /\ k.pc = l.pc /\ k.op = l.op /\ k.monitor_p = l.monitor_p
        BY <2>4 DEF Others
      <3> HIDE DEF k, l
      <3> QED BY <1>2, <2>4, <3>1
             DEF Arrives, InflatingPcs, UsingPcs, Shape, NeedsDepth, Placed, HashKnown, HashOps, EnterOps
    <2> QED BY <2>1, <2>2, <2>3, <2>4 DEF WaitInterrupted, Poll, Interrupted, At
  <1>5. Neutral(l) /\ l.pc \notin InflatingPcs \cup {"waitEnd"}
    BY <1>2, NeutralAt DEF UsingPcs, InflatingPcs
  <1> QED BY <1>3, <1>4, <1>5, Look

(* GetHashCode looks at the mark and at the Monitor. *)
LEMMA HashRest ==
  ASSUME Inv, NEW t \in Threads,
         HashLoad(t) \/ HashCasFail(t) \/ HashSleep(t) \/ HashFromMonitor(t) \/ HashReturn(t)
  PROVE  Rest'
  <1> DEFINE l == local[t]
             k == local'[t]
             mark == markWord_
  <1>1. /\ local \in [Threads -> Locals] /\ Shape(t, l) /\ Placed(l) /\ mark \in Marks /\ TypeOK
    BY DEF Inv, TypeOK, ShapeInv, PlaceInv, Placed
  <1>2. /\ l.pc \in {"hash", "hashCas", "sleep", "hashMonitor", "hashReturn"} /\ l.op = "hash"
        /\ t \in Hashers
        /\ l.monitor_p # NoId <=> l.pc \in {"hashMonitor", "hashReturn"}
    BY <1>1 DEF HashLoad, HashCasFail, HashSleep, HashFromMonitor, HashReturn, At, Shape, HashOps
  <1>3. l.pc \in {"hashMonitor", "hashReturn"} =>
          mark = Heavy(l.monitor_p) /\ CurrentHash = monitor[l.monitor_p].hash_code_
    <2>1. l.pc \in {"hashMonitor", "hashReturn"} => mark = Heavy(l.monitor_p)
      BY <1>1, <1>2 DEF Placed
    <2> QED BY <2>1, MarksMade DEF CurrentHash
  <1>4. Still
    <2>1. CASE HashLoad(t)
      <3>1. mark.state = "HASHED" => CurrentHash = mark.hash
        BY DEF CurrentHash, MarkHash
      <3> QED BY <2>1, <3>1 DEF HashLoad, Still, pool, waits
    <2>2. CASE HashFromMonitor(t)
      <3>1. CurrentHash = monitor[l.monitor_p].hash_code_
        BY <1>3, <2>2 DEF HashFromMonitor, At
      <3> QED BY <2>2, <3>1 DEF HashFromMonitor, Still, pool, waits
    <2>3. CASE HashReturn(t)
      <3>1. CurrentHash = monitor[l.monitor_p].hash_code_
        BY <1>3, <2>3 DEF HashReturn, At
      <3> QED BY <2>3, <3>1 DEF HashReturn, Still, pool, waits
    <2> QED BY <2>1, <2>2, <2>3 DEF HashCasFail, HashSleep, Still, pool, waits
  <1>5. Others(t) /\ Arrives(t, k)
    <2>1. CASE Return(t)
      BY <1>1, <2>1, Moves, ArrivesAt
    <2>2. CASE Loop(t, "hash") /\ l.pc \in {"hashCas", "sleep"}
      BY <1>1, <1>2, <2>2, Moves, ArrivesAt
    <2>3. CASE HashLoad(t) /\ Goto(t, "hashCas")
      <3>1. l.pc = "hash"
        BY <2>3 DEF HashLoad, At
      <3> QED BY <1>1, <1>2, <2>3, <3>1, Moves, ArrivesAt
    <2>4. CASE HashLoad(t) /\ local' = [local EXCEPT ![t].pc = "inflate", ![t].after = "hash"]
      <3>1. /\ Others(t) /\ k.pc = "inflate" /\ k.op = l.op /\ k.after = "hash"
            /\ k.monitor_p = l.monitor_p /\ l.pc = "hash"
        BY <1>1, <2>4 DEF Others, Locals, HashLoad, At
      <3> HIDE DEF k, l
      <3> QED BY <1>1, <1>2, <3>1
             DEF Arrives, InflatingPcs, UsingPcs, Shape, NeedsDepth, Placed, HashKnown, HashOps, EnterOps
    <2>5. CASE /\ mark.state = "HEAVY_LOCKED"
               /\ local' = [local EXCEPT ![t].pc = "hashMonitor", ![t].monitor_p = mark.id]
      <3>1. Others(t) /\ k.pc = "hashMonitor" /\ k.op = l.op /\ k.monitor_p = mark.id
        BY <1>1, <2>5 DEF Others, Locals
      <3>2. mark = Heavy(mark.id) /\ mark.id \in Ids /\ mark.id # NoId
        BY <1>1, <2>5, MarkFields, IdsAre
      <3> HIDE DEF k, l
      <3> QED BY <1>1, <1>2, <3>1, <3>2
             DEF Arrives, InflatingPcs, UsingPcs, Shape, NeedsDepth, Placed, HashKnown, HashOps, EnterOps
    <2>6. CASE /\ HashFromMonitor(t)
               /\ local' = [local EXCEPT ![t].pc = "enter", ![t].op = "hashEnter"]
      <3>1. /\ Others(t) /\ k.pc = "enter" /\ k.op = "hashEnter" /\ k.monitor_p = l.monitor_p
            /\ l.pc = "hashMonitor"
        BY <1>1, <2>6 DEF Others, Locals, HashFromMonitor, At
      <3> HIDE DEF k, l
      <3> QED BY <1>1, <1>2, <1>3, <3>1
             DEF Arrives, InflatingPcs, UsingPcs, Shape, NeedsDepth, Placed, HashKnown, HashOps, EnterOps
    <2> QED BY <2>1, <2>2, <2>3, <2>4, <2>5, <2>6
           DEF HashLoad, HashCasFail, HashSleep, HashFromMonitor, HashReturn, At
  <1>6. Neutral(l) /\ l.pc \notin InflatingPcs \cup {"waitEnd"}
    BY <1>2, NeutralAt DEF UsingPcs, InflatingPcs
  <1> QED BY <1>4, <1>5, <1>6, Look

(* A try finds the Monitor locked. *)
LEMMA TryFailedRest ==
  ASSUME Inv, NEW t \in Threads, Acquire(t), local[t].op = "tryEnter", Return(t),
         UNCHANGED <<monitor, depth>>
  PROVE  Rest'
  <1>1. local[t].pc = "acquire" /\ Still
    BY DEF Acquire, At, pool, waits, Still
  <1>2. Others(t) /\ Arrives(t, local'[t])
    BY Moves, ArrivesAt DEF Inv
  <1>3. Neutral(local[t]) /\ local[t].pc \notin InflatingPcs \cup {"waitEnd"}
    BY <1>1 DEF Neutral, WaitsIn, InflatingPcs
  <1> QED BY <1>1, <1>2, <1>3, Look

-----------------------------------------------------------------------------
(* Steps that change the mark *)

(* While the object has no Monitor, nobody uses one. *)
LEMMA NobodyUses ==
  ASSUME PlaceInv, ShapeInv, ~IsHeavy, NEW t \in Threads
  PROVE  local[t].pc \notin UsingPcs /\ local[t].monitor_p = NoId /\ ~HashKnown(local[t])
         /\ ~WaitsIn(local[t])
  <1>1. local[t].pc \notin UsingPcs /\ local[t].monitor_p = NoId
    BY MarksMade DEF PlaceInv, IsHeavy
  <1> QED BY <1>1 DEF ShapeInv, Shape, HashKnown, WaitsIn

(* An exchange between two marks that are no heavy locks. *)
LEMMA LightStep ==
  ASSUME Inv, NEW t \in Threads, Others(t), ~IsHeavy, ~IsHeavy',
         UNCHANGED <<monitors_, monitor, waiting_monitor_, cond_lock_, signalled>>,
         \A u \in Threads \ {t} : depth'[u] = depth[u],
         local[t].pc \notin InflatingPcs,
         local'[t].pc \notin UsingPcs \cup InflatingPcs, local'[t].monitor_p = NoId,
         Shape(t, local'[t]), ~NeedsDepth(local'[t]),
         hashes' \subseteq {MarkHash(markWord_')},
         Hashers = {} => /\ \A u \in Threads \ {t} : Levels(u)' = Levels(u)
                         /\ LevelsOK(local'[t], Levels(t)', depth'[t])
  PROVE  Rest'
  <1> DEFINE k == local'[t]
  <1>1. ShapeInv'
    BY CalmShape DEF Inv
  <1>2. \A u \in Threads : u # t => local'[u] = local[u]
    BY DEF Others
  <1>3. /\ \A i : markWord_ # Heavy(i) /\ markWord_' # Heavy(i)
        /\ \A u \in Threads : local[u].pc \notin UsingPcs /\ local[u].monitor_p = NoId
    BY MarksMade, NobodyUses DEF IsHeavy, Inv
  <1>4. PlaceInv'
    <2> SUFFICES ASSUME NEW u \in Threads
                 PROVE  /\ local'[u].pc \notin UsingPcs /\ local'[u].monitor_p = NoId
                        /\ local'[u].pc \in InflatingPcs =>
                             /\ local'[u].id \in monitors_
                             /\ monitor[local'[u].id] = PrivateFor(local'[u], u)
      BY <1>3 DEF PlaceInv, Inflating
    <2>1. CASE u = t
      BY <2>1
    <2>2. CASE u # t
      BY <1>2, <1>3, <2>2 DEF Inv, PlaceInv, Inflating
    <2> QED BY <2>1, <2>2
  <1>5. PoolInv'
    <2>1. \A u \in Threads : /\ Inflating(u)' <=> Inflating(u)
                             /\ Inflating(u) => local'[u] = local[u]
      BY <1>2 DEF Inflating
    <2>2. PoolInv
      BY DEF Inv
    <2>3. \A i \in monitors_ : \E u \in Threads : Inflating(u)' /\ local'[u].id = i
      BY <1>3, <2>1, <2>2 DEF PoolInv
    <2>4. \A u, v \in Threads :
            Inflating(u)' /\ Inflating(v)' /\ local'[u].id = local'[v].id => u = v
      BY <2>1, <2>2 DEF PoolInv
    <2> QED BY <1>3, <2>2, <2>3, <2>4 DEF PoolInv
  <1>6. WaitInv'
    <2>1. ~WaitsIn(local[t]) /\ ~WaitsIn(local'[t])
      BY <1>3 DEF WaitsIn
    <2> QED BY <2>1, CalmWait DEF Inv
  <1>7. HeavyInv'
    BY DEF HeavyInv
  <1>8. HashInv'
    <2>1. \A u \in Threads : ~HashKnown(local'[u])
      BY <1>1, <1>4, NobodyUses, <1>2, <1>3 DEF Inv, ShapeInv, Shape, HashKnown
    <2>2. CurrentHash' = MarkHash(markWord_')
      BY DEF CurrentHash, IsHeavy
    <2> QED BY <2>1, <2>2 DEF HashInv, HashKnown
  <1>9. Hashers = {} => LevelsInv'
    BY CalmLevels DEF Inv
  <1> QED BY <1>1, <1>4, <1>5, <1>6, <1>7, <1>8, <1>9 DEF Rest

(* Locals of a thread that has returned. *)
LEMMA IdleIs ==
  ASSUME NEW t \in Threads
  PROVE  /\ IdleLocal.pc = "idle" /\ IdleLocal.op = "none" /\ IdleLocal.monitor_p = NoId
         /\ IdleLocal.pc \notin UsingPcs \cup InflatingPcs
         /\ Shape(t, IdleLocal) /\ ~NeedsDepth(IdleLocal)
         /\ \A n : LevelsOK(IdleLocal, n, n)
  <1>1. IdleLocal.pc = "idle" /\ IdleLocal.op = "none" /\ IdleLocal.monitor_p = NoId
    BY DEF IdleLocal
  <1> QED BY <1>1 DEF UsingPcs, InflatingPcs, Shape, NeedsDepth, HashOps, LevelsOK, WaitsIn

(* The light lock is taken, or given up, by one level. *)
LEMMA LightRest ==
  ASSUME Inv, NEW t \in Threads, EnterCas(t) \/ ExitCas(t)
  PROVE  Rest'
  <1> DEFINE l == local[t]
             k == local'[t]
             mark == markWord_
  <1>1. TypeOK /\ Shape(t, l) /\ mark \in Marks /\ depth \in [Threads -> Nat]
    BY DEF Inv, TypeOK, ShapeInv
  <1>2. l.pc \in {"cas", "exitCas"} /\ (l.pc = "cas" => l.op \in EnterOps)
    BY <1>1 DEF EnterCas, ExitCas, At, Shape
  <1>3. Return(t)
    <2>1. CASE EnterCas(t)
      <3>1. l.op # "hashEnter" /\ Entered(t)
        BY <1>2, <2>1 DEF EnterCas, EnterOps, At
      <3> QED BY <3>1 DEF Entered
    <2>2. CASE ExitCas(t)
      BY <2>2 DEF ExitCas
    <2> QED BY <2>1, <2>2
  <1>4. Others(t) /\ k = IdleLocal
    BY <1>1, <1>3, Moves
  <1>5. CASE EnterCas(t)
    <2>1. mark = Unlocked \/ (IsLightOf(mark, t) /\ mark.count + 1 < LightLockMax)
      BY <1>1, <1>5 DEF EnterCas, At, Shape
    <2>2. mark.state = "UNLOCKED" \/ (mark.state = "LIGHT_LOCKED" /\ IsLightOf(mark, t))
      BY <2>1, MarksMade DEF IsLightOf
    <2>3. mark' = Light(t, IF mark.state = "UNLOCKED" THEN 1 ELSE mark.count + 1)
      BY <1>5 DEF EnterCas
    <2>4. ~IsHeavy /\ ~IsHeavy' /\ mark'.state = "LIGHT_LOCKED" /\ mark'.thread = t
          /\ mark'.count = Levels(t) + 1
      BY <1>1, <2>2, <2>3, MarksMade, MarkFields DEF IsHeavy, Levels, IsLightOf
    <2>5. /\ \A u \in Threads \ {t} : Levels(u)' = Levels(u)
          /\ Levels(t)' = Levels(t) + 1
      BY <2>2, <2>4 DEF Levels, IsLightOf
    <2>6. depth' = [depth EXCEPT ![t] = @ + 1]
      BY <1>5 DEF EnterCas, Entered
    <2>7. Hashers = {} => LevelsOK(k, Levels(t)', depth'[t])
      <3>1. Hashers = {} => LevelsOK(l, Levels(t), depth[t])
        BY DEF Inv, LevelsInv
      <3>2. Hashers = {} => Levels(t) = depth[t]
        BY <1>2, <3>1 DEF LevelsOK, WaitsIn, UsingPcs
      <3> QED BY <1>1, <1>4, <2>5, <2>6, <3>2, IdleIs
    <2>8. hashes' \subseteq {MarkHash(mark')}
      <3>1. MarkHash(mark') = NoHash /\ CurrentHash = NoHash
        BY <2>2, <2>4 DEF MarkHash, CurrentHash
      <3>2. hashes' = hashes /\ hashes \subseteq {CurrentHash}
        BY <1>5 DEF EnterCas, Inv, HashInv
      <3> QED BY <3>1, <3>2
    <2>9. /\ UNCHANGED <<monitors_, monitor, waiting_monitor_, cond_lock_, signalled>>
          /\ \A u \in Threads \ {t} : depth'[u] = depth[u]
      BY <1>1, <1>5, <2>6 DEF EnterCas, pool, waits
    <2>10. l.pc \notin InflatingPcs
      BY <1>2 DEF InflatingPcs
    <2> HIDE DEF mark, l
    <2> QED BY <1>4, <2>4, <2>5, <2>7, <2>8, <2>9, <2>10, IdleIs, LightStep DEF mark, l
  <1>6. CASE ExitCas(t)
    <2>1. IsLightOf(mark, t) /\ mark.state = "LIGHT_LOCKED" /\ Levels(t) = mark.count
          /\ mark.thread = t /\ mark.count \in Nat /\ mark.count >= 1
      BY <1>1, <1>6, MarkFields DEF ExitCas, At, Shape, IsLightOf, Levels
    <2>2. \/ mark.count = 1 /\ mark' = Unlocked
          \/ mark.count # 1 /\ mark' = Light(t, mark.count - 1)
      BY <1>6, <2>1 DEF ExitCas, OneLevelLess
    <2>3. /\ ~IsHeavy /\ ~IsHeavy'
          /\ \/ mark'.state = "UNLOCKED" /\ Levels(t) = 1
             \/ mark'.state = "LIGHT_LOCKED" /\ mark'.thread = t /\ mark'.count = Levels(t) - 1
      BY <2>1, <2>2, MarksMade DEF IsHeavy
    <2>4. /\ \A u \in Threads \ {t} : Levels(u)' = Levels(u)
          /\ Levels(t)' = Levels(t) - 1
      BY <2>1, <2>3 DEF Levels, IsLightOf
    <2>5. depth' = [depth EXCEPT ![t] = @ - 1]
      BY <1>6 DEF ExitCas
    <2>6. Hashers = {} => LevelsOK(k, Levels(t)', depth'[t])
      <3>1. Hashers = {} => LevelsOK(l, Levels(t), depth[t])
        BY DEF Inv, LevelsInv
      <3>2. Hashers = {} => Levels(t) = depth[t]
        BY <1>2, <3>1 DEF LevelsOK, WaitsIn, UsingPcs
      <3> QED BY <1>1, <1>4, <2>4, <2>5, <3>2, IdleIs
    <2>7. hashes' \subseteq {MarkHash(mark')}
      <3>1. MarkHash(mark') = NoHash /\ CurrentHash = NoHash
        BY <2>1, <2>3 DEF MarkHash, CurrentHash
      <3>2. hashes' = hashes /\ hashes \subseteq {CurrentHash}
        BY <1>6 DEF ExitCas, Inv, HashInv
      <3> QED BY <3>1, <3>2
    <2>8. /\ UNCHANGED <<monitors_, monitor, waiting_monitor_, cond_lock_, signalled>>
          /\ \A u \in Threads \ {t} : depth'[u] = depth[u]
      BY <1>1, <1>6, <2>5 DEF ExitCas, pool, waits
    <2>9. l.pc \notin InflatingPcs
      BY <1>2 DEF InflatingPcs
    <2> HIDE DEF mark, l
    <2> QED BY <1>4, <2>3, <2>4, <2>6, <2>7, <2>8, <2>9, IdleIs, LightStep DEF mark, l
  <1> QED BY <1>5, <1>6

(* A hash is given to an object that nobody locks: no call has returned one before. *)
LEMMA HashCasRest ==
  ASSUME Inv, NEW t \in Threads, HashCas(t)
  PROVE  Rest'
  <1> DEFINE l == local[t]
             k == local'[t]
  <1>1. TypeOK /\ Shape(t, l) /\ l.pc = "hashCas" /\ l.op = "hash" /\ t \in Hashers
        /\ l.monitor_p = NoId
    BY DEF Inv, ShapeInv, HashCas, At, Shape, HashOps
  <1>2. Others(t) /\ k.pc = "hash" /\ k.op = "hash" /\ k.monitor_p = NoId
    BY <1>1, Moves DEF HashCas
  <1>3. PICK h \in Hashes : markWord_' = Hashed(h)
    BY DEF HashCas
  <1>4. ~IsHeavy /\ ~IsHeavy'
    BY <1>3, MarksMade DEF HashCas, IsHeavy
  <1>5. hashes' = {}
    <2>1. CurrentHash = NoHash
      BY MarksMade DEF HashCas, CurrentHash, MarkHash
    <2>2. hashes \subseteq {NoHash} /\ hashes \subseteq Hashes /\ NoHash \notin Hashes
      BY <2>1, MonitorAssumption DEF Inv, HashInv, TypeOK, MonitorAssumption
    <2> QED BY <2>2 DEF HashCas
  <1>6. /\ UNCHANGED <<monitors_, monitor, waiting_monitor_, cond_lock_, signalled>>
        /\ \A u \in Threads \ {t} : depth'[u] = depth[u]
    BY DEF HashCas, pool, waits
  <1>7. /\ l.pc \notin InflatingPcs /\ k.pc \notin UsingPcs \cup InflatingPcs
        /\ Shape(t, k) /\ ~NeedsDepth(k)
    BY <1>1, <1>2 DEF InflatingPcs, UsingPcs, Shape, NeedsDepth, HashOps
  <1> HIDE DEF l, k
  <1> QED BY <1>1, <1>2, <1>4, <1>5, <1>6, <1>7, LightStep DEF l, k

(* A Monitor is published by the thread that created it. *)
LEMMA PublishStep ==
  ASSUME Inv, NEW t \in Threads, Others(t), Inflating(t), ~IsHeavy,
         markWord_ = local[t].old_mark, markWord_' = Heavy(local[t].id),
         UNCHANGED <<monitors_, monitor, waiting_monitor_, cond_lock_, signalled, hashes>>,
         \A u \in Threads \ {t} : depth'[u] = depth[u],
         local'[t].pc \notin UsingPcs \cup InflatingPcs, local'[t].monitor_p = NoId,
         Shape(t, local'[t]), ~NeedsDepth(local'[t]),
         Hashers = {} => /\ \A u \in Threads \ {t} : Levels(u)' = Levels(u)
                         /\ LevelsOK(local'[t], Levels(t)', depth'[t])
  PROVE  Rest'
  <1>0. PICK i, m : i = local[t].id /\ m = monitor[i]
    OBVIOUS
  <1>1. ShapeInv'
    BY CalmShape DEF Inv
  <1>2. \A u \in Threads : u # t => local'[u] = local[u]
    BY DEF Others
  <1>3. \A u \in Threads : local[u].pc \notin UsingPcs /\ local[u].monitor_p = NoId
    BY NobodyUses DEF Inv
  <1>4. i \in monitors_ /\ i \in Ids /\ m = PrivateFor(local[t], t) /\ markWord_ \in Marks
        /\ markWord_' = Heavy(i) /\ \A j : markWord_ # Heavy(j)
    BY <1>0, MarksMade DEF Inv, PlaceInv, TypeOK, IsHeavy
  <1>5. /\ \A u \in Threads : u # t => (Inflating(u)' <=> Inflating(u))
        /\ ~Inflating(t)'
        /\ \A u \in Threads : u # t /\ Inflating(u) => local[u].id # i
    BY <1>0, <1>2 DEF Inflating, Inv, PoolInv
  <1>6. PlaceInv'
    <2> SUFFICES ASSUME NEW u \in Threads
                 PROVE  /\ local'[u].pc \notin UsingPcs /\ local'[u].monitor_p = NoId
                        /\ Inflating(u)' =>
                             /\ local'[u].id \in monitors_ /\ markWord_' # Heavy(local'[u].id)
                             /\ monitor[local'[u].id] = PrivateFor(local'[u], u)
      BY DEF PlaceInv
    <2>1. CASE u = t
      BY <1>5, <2>1
    <2>2. CASE u # t
      BY <1>2, <1>3, <1>4, <1>5, <2>2, MarksMade DEF Inv, PlaceInv
    <2> QED BY <2>1, <2>2
  <1>7. PoolInv'
    <2>1. PoolInv
      BY DEF Inv
    <2>2. \A j \in Ids : markWord_' = Heavy(j) => j \in monitors_
      <3>1. \A j : Heavy(i) = Heavy(j) => i = j
        BY MarksMade
      <3> QED BY <1>4, <3>1
    <2>3. \A j \in monitors_ : markWord_' = Heavy(j) \/ \E u \in Threads : Inflating(u)' /\ local'[u].id = j
      BY <1>0, <1>2, <1>4, <1>5, <2>1 DEF PoolInv
    <2>4. \A u, v \in Threads :
            Inflating(u)' /\ Inflating(v)' /\ local'[u].id = local'[v].id => u = v
      BY <1>2, <1>5, <2>1 DEF PoolInv
    <2> QED BY <2>1, <2>2, <2>3, <2>4 DEF PoolInv
  <1>8. WaitInv'
    <2>1. ~WaitsIn(local[t]) /\ ~WaitsIn(local'[t])
      BY <1>3 DEF WaitsIn
    <2> QED BY <2>1, CalmWait DEF Inv
  <1>9. /\ m.waiters_counter_ = 0 /\ m.waiters_ = <<>> /\ m.to_wakeup_ = <<>>
        /\ m.hash_code_ = MarkHash(markWord_)
        /\ m.owner_ \in Threads /\ m.lock_ = m.owner_ /\ m.recursive_counter_ = MarkCount(markWord_)
    <2>1. local[t].pc # "inflateCas" => local[t].other \in Threads
      BY DEF Inv, ShapeInv, Shape, Inflating, InflatingPcs
    <2> QED BY <1>4, <2>1 DEF PrivateFor, Fresh, NewMonitor
  <1>10. TheMonitor' = m /\ IsHeavy'
    <2>1. markWord_'.state = "HEAVY_LOCKED" /\ markWord_'.id = i
      BY <1>4, MarksMade
    <2> QED BY <1>0, <2>1 DEF TheMonitor, IsHeavy
  <1>11. HeavyInv'
    <2>1. \A u \in Threads : local'[u].pc \notin UsingPcs
      BY <1>2, <1>3
    <2>2. \A u \in Threads : ~WaitsIn(local'[u]) /\ ~BlocksIn(local'[u])
      BY <2>1 DEF WaitsIn, BlocksIn, UsingPcs
    <2>3. CountOK(m)'
      <3> DEFINE W == {u \in Threads : WaitsIn(local'[u])}
                 B == {u \in Threads : BlocksIn(local'[u])}
      <3>1. W = {} /\ B = {}
        BY <2>2
      <3> HIDE DEF W, B
      <3>2. Cardinality(W) = 0 /\ Cardinality(B) = 0
        BY <3>1, FS_EmptySet
      <3>3. m.waiters_counter_ = Cardinality(W) + Cardinality(B)
        BY <1>9, <3>2
      <3> QED BY <3>3 DEF CountOK, W, B
    <2>4. OwnersOK(m)'
      <3>1. m.recursive_counter_ > 0 /\ m.owner_ # NoThread
        BY <1>4, <1>9, MarkFields, MonitorAssumption DEF MarkCount, MonitorAssumption
      <3> QED BY <1>9, <2>1, <3>1 DEF OwnersOK, OwnerOK, UsingPcs
    <2>5. ListsOK(m)'
      BY <1>9, <2>1, InNone DEF ListsOK, Listed, UsingPcs
    <2>6. WakesOK(m)'
      BY <1>9, <2>1 DEF WakesOK, At, UsingPcs
    <2> QED BY <1>10, <2>3, <2>4, <2>5, <2>6 DEF HeavyInv
  <1>12. HashInv'
    <2>1. \A u \in Threads : ~HashKnown(local'[u])
      BY <1>1, <1>2, <1>3 DEF ShapeInv, Shape, HashKnown
    <2>2. CurrentHash' = CurrentHash
      BY <1>9, <1>10 DEF CurrentHash, IsHeavy, TheMonitor
    <2> QED BY <2>1, <2>2 DEF Inv, HashInv, HashKnown
  <1>13. Hashers = {} => LevelsInv'
    BY CalmLevels DEF Inv
  <1> QED BY <1>1, <1>6, <1>7, <1>8, <1>11, <1>12, <1>13 DEF Rest

(* What publishing does to the levels. *)
LEMMA PublishLevels ==
  ASSUME Inv, NEW t \in Threads, Inflating(t), ~IsHeavy,
         markWord_ = local[t].old_mark, markWord_' = Heavy(local[t].id), UNCHANGED monitor,
         NEW owner, owner = IF local[t].pc = "inflateCas" THEN t ELSE local[t].other
  PROVE  /\ Levels(owner)' = MarkCount(markWord_)
         /\ \A u \in Threads : u # owner => Levels(u)' = 0 /\ Levels(u) = 0
         /\ markWord_.state = "LIGHT_LOCKED" => Levels(owner) = MarkCount(markWord_)
         /\ markWord_.state # "LIGHT_LOCKED" => Levels(owner) = 0 /\ MarkCount(markWord_) = 1
  <1> DEFINE m == monitor[local[t].id]
  <1>1. m = PrivateFor(local[t], t)
    BY DEF Inv, PlaceInv
  <1>2. m.owner_ = owner /\ m.recursive_counter_ = MarkCount(markWord_)
    BY <1>1 DEF PrivateFor, Fresh, NewMonitor
  <1>3. markWord_'.state = "HEAVY_LOCKED" /\ markWord_'.id = local[t].id
    BY MarksMade
  <1>4. markWord_.state = "LIGHT_LOCKED" => markWord_.thread = owner
    BY DEF Inv, ShapeInv, Shape, Inflating, InflatingPcs, IsLightOf
  <1>5. ASSUME NEW u
        PROVE  Levels(u)' = IF u = owner THEN MarkCount(markWord_) ELSE 0
    BY <1>2, <1>3 DEF Levels, IsLightOf
  <1>6. ASSUME NEW u
        PROVE  Levels(u) = IF IsLightOf(markWord_, u) THEN markWord_.count ELSE 0
    BY DEF Levels, IsHeavy
  <1>7. Levels(owner)' = MarkCount(markWord_)
    BY <1>5
  <1>8. \A u \in Threads : u # owner => Levels(u)' = 0 /\ Levels(u) = 0
    BY <1>4, <1>5, <1>6 DEF IsLightOf
  <1>9. /\ markWord_.state = "LIGHT_LOCKED" => Levels(owner) = MarkCount(markWord_)
        /\ markWord_.state # "LIGHT_LOCKED" => Levels(owner) = 0 /\ MarkCount(markWord_) = 1
    BY <1>4, <1>6 DEF IsLightOf, MarkCount
  <1> QED BY <1>7, <1>8, <1>9

(* The exchange that publishes a Monitor, by its owner or by the thread that suspends the owner. *)
LEMMA PublishRest ==
  ASSUME Inv, NEW t \in Threads, InflateCas(t) \/ InflateOtherCas(t)
  PROVE  Rest'
  <1> DEFINE l == local[t]
             k == local'[t]
  <1>1. TypeOK /\ Shape(t, l) /\ markWord_ \in Marks /\ depth \in [Threads -> Nat]
    BY DEF Inv, ShapeInv, TypeOK
  <1>2. Inflating(t) /\ markWord_ = l.old_mark /\ markWord_' = Heavy(l.id) /\ l.monitor_p = NoId
    BY <1>1 DEF InflateCas, InflateOtherCas, At, Inflating, InflatingPcs, Shape, EnterOps
  <1>3. ~IsHeavy
    BY <1>1, <1>2 DEF IsHeavy, Inflating, InflatingPcs, Shape, IsLightOf
  <1>4. UNCHANGED <<monitors_, monitor, waiting_monitor_, cond_lock_, signalled, hashes>>
    BY DEF InflateCas, InflateOtherCas, pool, waits
  <1>5. Hashers = {} => Levels(t) = depth[t] /\ LevelsOK(l, Levels(t), depth[t])
    <2>1. Hashers = {} => LevelsOK(l, Levels(t), depth[t])
      BY DEF Inv, LevelsInv
    <2> QED BY <1>2, <2>1 DEF LevelsOK, WaitsIn, UsingPcs, Inflating, InflatingPcs
  <1>6. CASE InflateOtherCas(t)
    <2>1. l.pc = "inflateOtherCas" /\ l.op \in EnterOps /\ l.other \in Threads /\ IsLightOf(markWord_, l.other)
      BY <1>1, <1>2, <1>6 DEF InflateOtherCas, At, Shape
    <2>2. Others(t) /\ k.pc = "resume" /\ k.op = l.op /\ k.monitor_p = NoId /\ k.other = l.other
      BY <1>1, <1>2, <1>6, Moves DEF InflateOtherCas
    <2>3. \A u \in Threads : Levels(u)' = Levels(u)
      <3>1. markWord_.state = "LIGHT_LOCKED"
        BY <2>1 DEF IsLightOf
      <3>2. PICK o \in Threads : o = l.other
        BY <2>1
      <3>3. /\ Levels(o)' = MarkCount(markWord_) /\ Levels(o) = MarkCount(markWord_)
            /\ \A u \in Threads : u # o => Levels(u)' = 0 /\ Levels(u) = 0
        BY <1>2, <1>3, <1>4, <2>1, <3>1, <3>2, PublishLevels
      <3> QED BY <3>3
    <2>4. depth' = depth
      BY <1>6 DEF InflateOtherCas
    <2>5. k.pc \notin UsingPcs \cup InflatingPcs /\ Shape(t, k) /\ ~NeedsDepth(k)
      BY <2>1, <2>2 DEF UsingPcs, InflatingPcs, Shape, NeedsDepth, HashOps, EnterOps
    <2>6. Hashers = {} => LevelsOK(k, Levels(t)', depth'[t])
      BY <1>5, <2>2, <2>3, <2>4 DEF LevelsOK, WaitsIn, UsingPcs
    <2> HIDE DEF l, k
    <2> QED BY <1>2, <1>3, <1>4, <2>2, <2>3, <2>4, <2>5, <2>6, PublishStep DEF l, k
  <1>7. CASE InflateCas(t)
    <2>1. /\ l.pc = "inflateCas" /\ Inflated(t)
          /\ \/ l.op \in EnterOps /\ l.after \in {"entered", "enter"}
             \/ l.op = "wait" /\ l.after = "wait"
             \/ l.op = "hash" /\ l.after = "hash" /\ t \in Hashers
      BY <1>1, <1>7 DEF InflateCas, At, Shape, HashOps
    <2>2. /\ \A u \in Threads \ {t} : Levels(u)' = Levels(u)
          /\ Levels(t)' = MarkCount(markWord_)
          /\ markWord_.state = "LIGHT_LOCKED" => Levels(t)' = Levels(t)
          /\ markWord_.state # "LIGHT_LOCKED" => Levels(t) = 0 /\ Levels(t)' = 1
      <3>1. /\ Levels(t)' = MarkCount(markWord_)
            /\ \A u \in Threads : u # t => Levels(u)' = 0 /\ Levels(u) = 0
            /\ markWord_.state = "LIGHT_LOCKED" => Levels(t) = MarkCount(markWord_)
            /\ markWord_.state # "LIGHT_LOCKED" => Levels(t) = 0 /\ MarkCount(markWord_) = 1
        BY <1>2, <1>3, <1>4, <2>1, PublishLevels
      <3> QED BY <3>1
    <2>3. markWord_.state = "LIGHT_LOCKED" => Levels(t) \in Nat /\ Levels(t) > 0
      BY <1>1, <1>2, <2>1, MarkFields DEF Shape, IsLightOf, Levels
    <2>4. CASE l.after = "entered"
      <3>1. Entered(t) /\ l.op \in EnterOps
        BY <2>1, <2>4 DEF Inflated
      <3>2. Return(t) /\ depth' = [depth EXCEPT ![t] = @ + 1]
        BY <3>1 DEF Entered, EnterOps
      <3>3. Others(t) /\ k = IdleLocal
        BY <1>1, <3>2, Moves
      <3>4. Hashers = {} => LevelsOK(k, Levels(t)', depth'[t])
        <4>1. Hashers = {} => depth[t] = 0 /\ Levels(t) = 0
          BY <1>5, <2>1, <2>4 DEF LevelsOK
        <4>2. Hashers = {} => Levels(t)' = 1 /\ depth'[t] = 1
          BY <1>1, <2>2, <2>3, <3>2, <4>1
        <4> QED BY <3>3, <4>2, IdleIs
      <3>5. \A u \in Threads \ {t} : depth'[u] = depth[u]
        BY <1>1, <3>2
      <3> HIDE DEF l
      <3> QED BY <1>2, <1>3, <1>4, <2>2, <3>3, <3>4, <3>5, IdleIs, PublishStep DEF l
    <2>5. CASE l.after # "entered"
      <3>1. /\ depth' = depth
            /\ \/ l.op \in EnterOps /\ EnterAgain(t) /\ l.after = "enter"
               \/ l.op \in {"wait", "hash"} /\ l.after = l.op /\ Loop(t, l.op)
        BY <2>1, <2>5 DEF Inflated, EnterOps
      <3>2. /\ Others(t) /\ k.monitor_p = NoId
            /\ \/ k = IdleLocal
               \/ k.pc = "enter" /\ k.op \in EnterOps
               \/ k.pc = l.op /\ k.op = l.op /\ l.op \in {"wait", "hash"}
        <4>1. CASE Return(t)
          BY <1>1, <4>1, Moves, IdleIs
        <4>2. CASE Loop(t, "enter") /\ l.op \in EnterOps
          BY <1>1, <1>2, <4>2, Moves
        <4>3. CASE Loop(t, l.op) /\ l.op \in {"wait", "hash"}
          BY <1>1, <1>2, <4>3, Moves
        <4> QED BY <3>1, <4>1, <4>2, <4>3 DEF EnterAgain
      <3>3. /\ k.pc \notin UsingPcs \cup InflatingPcs /\ Shape(t, k) /\ ~NeedsDepth(k)
            /\ k.pc # "inflate" /\ k.pc # "owning"
        <4>1. l.op = "hash" => t \in Hashers
          BY <2>1, <3>1 DEF EnterOps
        <4> HIDE DEF k, l
        <4>2. CASE k = IdleLocal
          BY <4>2, IdleIs
        <4>3. CASE k.pc = "enter" /\ k.op \in EnterOps
          BY <3>2, <4>3 DEF UsingPcs, InflatingPcs, Shape, NeedsDepth, HashOps, EnterOps
        <4>4. CASE k.pc = l.op /\ k.op = l.op /\ l.op \in {"wait", "hash"}
          BY <3>2, <4>1, <4>4 DEF UsingPcs, InflatingPcs, Shape, NeedsDepth, HashOps, EnterOps
        <4> QED BY <3>2, <4>2, <4>3, <4>4
      <3>4. Hashers = {} => LevelsOK(k, Levels(t)', depth'[t])
        <4> SUFFICES ASSUME Hashers = {}
                     PROVE  LevelsOK(k, Levels(t)', depth'[t])
          OBVIOUS
        <4>1. l.after \in {"enter", "wait"}
          BY <2>1, <2>5
        <4>2. depth[t] > 0 /\ Levels(t) = depth[t]
          BY <1>5, <2>1, <4>1 DEF LevelsOK
        <4>3. Levels(t)' = depth'[t]
          BY <1>1, <2>2, <3>1, <4>2
        <4> QED BY <3>3, <4>3 DEF LevelsOK, WaitsIn, InflatingPcs
      <3> HIDE DEF l, k
      <3> QED BY <1>2, <1>3, <1>4, <2>2, <3>1, <3>2, <3>3, <3>4, PublishStep DEF l, k
    <2> QED BY <2>4, <2>5
  <1> QED BY <1>6, <1>7

-----------------------------------------------------------------------------
(* Steps that create or free a Monitor nobody else knows *)

(* A thread gets a Monitor that nobody knows. *)
LEMMA CreateStep ==
  ASSUME Inv, NEW t \in Threads, Others(t), NEW i \in Ids \ monitors_,
         monitors_' = monitors_ \cup {i}, monitor'[i] = PrivateFor(local'[t], t),
         \A j \in Ids \ {i} : monitor'[j] = monitor[j],
         UNCHANGED <<markWord_, depth, waiting_monitor_, cond_lock_, signalled, hashes>>,
         local[t].pc \in {"inflate", "inflateOther"},
         local'[t].pc \in InflatingPcs, local'[t].id = i, local'[t].monitor_p = NoId,
         Shape(t, local'[t]),
         local'[t].pc = "inflateCas" => local[t].pc = "inflate" /\ local'[t].after = local[t].after
  PROVE  Rest'
  <1> DEFINE k == local'[t]
  <1>1. \A u \in Threads : u # t => local'[u] = local[u]
    BY DEF Others
  <1>2. /\ TypeOK /\ ShapeInv /\ PlaceInv /\ PoolInv /\ WaitInv /\ HeavyInv /\ HashInv
        /\ markWord_ \in Marks /\ monitors_ \subseteq Ids
    BY DEF Inv, TypeOK
  <1>3. markWord_ # Heavy(i)
    BY <1>2 DEF PoolInv
  <1>4. ShapeInv'
    <2>1. ~NeedsDepth(k)
      BY DEF NeedsDepth, InflatingPcs
    <2> QED BY <1>2, <2>1, CalmShape
  <1>5. \A u \in Threads : u # t /\ Inflating(u) => local[u].id # i /\ local[u].id \in Ids
    BY <1>2 DEF PlaceInv
  <1>6. /\ ~Inflating(t) /\ Inflating(t)'
        /\ \A u \in Threads : u # t => (Inflating(u)' <=> Inflating(u))
    BY <1>1 DEF Inflating, InflatingPcs
  <1>7. PlaceInv'
    <2> SUFFICES ASSUME NEW u \in Threads
                 PROVE  /\ local'[u].pc \in UsingPcs => markWord_ = Heavy(local'[u].id)
                        /\ local'[u].monitor_p # NoId => markWord_ = Heavy(local'[u].monitor_p)
                        /\ Inflating(u)' =>
                             /\ local'[u].id \in monitors_' /\ markWord_ # Heavy(local'[u].id)
                             /\ monitor'[local'[u].id] = PrivateFor(local'[u], u)
      BY DEF PlaceInv
    <2>1. CASE u = t
      BY <1>3, <2>1 DEF InflatingPcs, UsingPcs
    <2>2. CASE u # t
      BY <1>1, <1>2, <1>5, <1>6, <2>2 DEF PlaceInv
    <2> QED BY <2>1, <2>2
  <1>8. PoolInv'
    <2>1. \A j \in Ids : markWord_ = Heavy(j) => j \in monitors_'
      BY <1>2 DEF PoolInv
    <2>2. \A j \in monitors_' : markWord_ = Heavy(j) \/ \E u \in Threads : Inflating(u)' /\ local'[u].id = j
      BY <1>1, <1>2, <1>6 DEF PoolInv
    <2>3. \A u, v \in Threads :
            Inflating(u)' /\ Inflating(v)' /\ local'[u].id = local'[v].id => u = v
      BY <1>1, <1>2, <1>5, <1>6 DEF PoolInv
    <2>4. \A j \in Ids \ monitors_' : monitor'[j] = NewMonitor
      BY <1>2 DEF PoolInv
    <2> QED BY <2>1, <2>2, <2>3, <2>4 DEF PoolInv
  <1>9. Neutral(local[t]) /\ Neutral(k) /\ local[t].pc # "waitEnd" /\ k.pc # "waitEnd"
    BY DEF Neutral, WaitsIn, UsingPcs, InflatingPcs
  <1>10. WaitInv'
    BY <1>2, <1>9, CalmWait DEF Neutral
  <1>11. IsHeavy => monitor'[markWord_.id] = TheMonitor
    <2>1. IsHeavy => markWord_.id \in Ids /\ markWord_.id # i
      BY <1>2, <1>3, MarkFields DEF IsHeavy
    <2> QED BY <2>1 DEF TheMonitor
  <1>12. HeavyInv'
    <2>1. CASE IsHeavy
      <3> DEFINE m == TheMonitor
      <3>1. m = monitor'[markWord_.id] /\ SameLists(m, m) /\ OwnerMove(t, m, m)
        BY <1>11, <2>1 DEF SameLists, OwnerMove
      <3> HIDE DEF m
      <3>2. m = TheMonitor
        BY DEF m
      <3> QED BY <1>2, <1>9, <2>1, <3>1, <3>2, QuietHeavy
    <2>2. CASE ~IsHeavy
      BY <2>2 DEF HeavyInv, IsHeavy
    <2> QED BY <2>1, <2>2
  <1>13. HashInv'
    <2>1. ~HashKnown(k)
      BY DEF HashKnown, Shape, InflatingPcs
    <2> QED BY <1>2, <1>11, <2>1, CalmHash
  <1>14. Hashers = {} => LevelsInv'
    <2> SUFFICES ASSUME Hashers = {}
                 PROVE  LevelsInv'
      OBVIOUS
    <2>1. \A u \in Threads : Levels(u)' = Levels(u)
      BY <1>11 DEF Levels, IsLightOf, IsHeavy, TheMonitor
    <2>2. LevelsInv /\ LevelsOK(local[t], Levels(t), depth[t])
      BY DEF Inv, LevelsInv
    <2>3. LevelsOK(k, Levels(t), depth[t])
      <3>1. Levels(t) = depth[t]
        BY <1>9, <2>2 DEF LevelsOK, Neutral
      <3> QED BY <1>9, <2>2, <3>1 DEF LevelsOK, Neutral, InflatingPcs
    <2> QED BY <2>1, <2>2, <2>3, CalmLevels
  <1> QED BY <1>4, <1>7, <1>8, <1>10, <1>12, <1>13, <1>14 DEF Rest

(* The exchange failed: the Monitor is freed. *)
LEMMA FreeStep ==
  ASSUME Inv, NEW t \in Threads, Others(t), Inflating(t), NEW i, i = local[t].id,
         monitors_' = monitors_ \ {i}, monitor'[i] = NewMonitor,
         \A j \in Ids \ {i} : monitor'[j] = monitor[j],
         UNCHANGED <<markWord_, depth, waiting_monitor_, cond_lock_, signalled, hashes>>,
         Arrives(t, local'[t])
  PROVE  Rest'
  <1> DEFINE k == local'[t]
  <1>1. \A u \in Threads : u # t => local'[u] = local[u]
    BY DEF Others
  <1>2. /\ TypeOK /\ ShapeInv /\ PlaceInv /\ PoolInv /\ WaitInv /\ HeavyInv /\ HashInv
        /\ markWord_ \in Marks /\ monitors_ \subseteq Ids
    BY DEF Inv, TypeOK
  <1>3. markWord_ # Heavy(i) /\ i \in monitors_ /\ i \in Ids
    BY <1>2 DEF PlaceInv
  <1>4. Shape(t, k) /\ Placed(k) /\ k.pc \notin InflatingPcs
    BY DEF Arrives
  <1>5. ShapeInv'
    <2>1. NeedsDepth(k) => depth[t] > 0
      BY DEF Arrives
    <2> QED BY <1>2, <1>4, <2>1, CalmShape
  <1>6. /\ ~Inflating(t)'
        /\ \A u \in Threads : u # t => (Inflating(u)' <=> Inflating(u))
        /\ \A u \in Threads : u # t /\ Inflating(u) => local[u].id # i /\ local[u].id \in Ids
    BY <1>1, <1>2, <1>4 DEF Inflating, PoolInv, PlaceInv
  <1>7. PlaceInv'
    <2> SUFFICES ASSUME NEW u \in Threads
                 PROVE  /\ local'[u].pc \in UsingPcs => markWord_ = Heavy(local'[u].id)
                        /\ local'[u].monitor_p # NoId => markWord_ = Heavy(local'[u].monitor_p)
                        /\ Inflating(u)' =>
                             /\ local'[u].id \in monitors_' /\ markWord_ # Heavy(local'[u].id)
                             /\ monitor'[local'[u].id] = PrivateFor(local'[u], u)
      BY DEF PlaceInv
    <2>1. CASE u = t
      BY <1>4, <1>6, <2>1 DEF Placed
    <2>2. CASE u # t
      BY <1>1, <1>2, <1>6, <2>2 DEF PlaceInv
    <2> QED BY <2>1, <2>2
  <1>8. PoolInv'
    <2>1. \A j \in Ids : markWord_ = Heavy(j) => j \in monitors_'
      BY <1>2, <1>3 DEF PoolInv
    <2>2. \A j \in monitors_' : markWord_ = Heavy(j) \/ \E u \in Threads : Inflating(u)' /\ local'[u].id = j
      BY <1>1, <1>2, <1>6 DEF PoolInv
    <2>3. \A u, v \in Threads :
            Inflating(u)' /\ Inflating(v)' /\ local'[u].id = local'[v].id => u = v
      BY <1>1, <1>2, <1>6 DEF PoolInv
    <2>4. \A j \in Ids \ monitors_' : monitor'[j] = NewMonitor
      BY <1>2 DEF PoolInv
    <2> QED BY <2>1, <2>2, <2>3, <2>4 DEF PoolInv
  <1>9. Neutral(local[t]) /\ Neutral(k) /\ local[t].pc # "waitEnd" /\ k.pc # "waitEnd"
    BY DEF Neutral, WaitsIn, UsingPcs, Inflating, InflatingPcs, Arrives
  <1>10. WaitInv'
    BY <1>2, <1>9, CalmWait DEF Neutral
  <1>11. IsHeavy => monitor'[markWord_.id] = TheMonitor
    <2>1. IsHeavy => markWord_.id \in Ids /\ markWord_.id # i
      BY <1>2, <1>3, MarkFields DEF IsHeavy
    <2> QED BY <2>1 DEF TheMonitor
  <1>12. HeavyInv'
    <2>1. CASE IsHeavy
      <3> DEFINE m == TheMonitor
      <3>1. m = monitor'[markWord_.id] /\ SameLists(m, m) /\ OwnerMove(t, m, m)
        BY <1>11, <2>1 DEF SameLists, OwnerMove
      <3> HIDE DEF m
      <3>2. m = TheMonitor
        BY DEF m
      <3> QED BY <1>2, <1>9, <2>1, <3>1, <3>2, QuietHeavy
    <2>2. CASE ~IsHeavy
      BY <2>2 DEF HeavyInv, IsHeavy
    <2> QED BY <2>1, <2>2
  <1>13. HashInv'
    <2>1. HashKnown(k) => monitor'[k.monitor_p].hash_code_ # NoHash
      <3> SUFFICES ASSUME HashKnown(k)
                   PROVE  monitor'[k.monitor_p].hash_code_ # NoHash
        OBVIOUS
      <3>1. k.monitor_p # NoId
        BY <1>4 DEF Shape, HashKnown
      <3>2. markWord_ = Heavy(k.monitor_p)
        BY <1>4, <3>1 DEF Placed
      <3>3. IsHeavy /\ markWord_.id = k.monitor_p
        BY <3>2, MarksMade DEF IsHeavy
      <3>4. monitor[k.monitor_p].hash_code_ # NoHash
        BY DEF Arrives
      <3> QED BY <1>11, <3>3, <3>4 DEF TheMonitor
    <2> QED BY <1>2, <1>11, <2>1, CalmHash
  <1>14. Hashers = {} => LevelsInv'
    <2> SUFFICES ASSUME Hashers = {}
                 PROVE  LevelsInv'
      OBVIOUS
    <2>1. \A u \in Threads : Levels(u)' = Levels(u)
      BY <1>11 DEF Levels, IsLightOf, IsHeavy, TheMonitor
    <2>2. LevelsInv /\ LevelsOK(local[t], Levels(t), depth[t])
      BY DEF Inv, LevelsInv
    <2>3. LevelsOK(k, Levels(t), depth[t])
      <3>1. Levels(t) = depth[t]
        BY <1>9, <2>2 DEF LevelsOK, Neutral
      <3> QED BY <1>9, <2>2, <3>1 DEF LevelsOK, Neutral, InflatingPcs, Arrives
    <2> QED BY <2>1, <2>2, <2>3, CalmLevels
  <1> QED BY <1>5, <1>7, <1>8, <1>10, <1>12, <1>13, <1>14 DEF Rest

(* CreateMonitor gives an id that was free. *)
LEMMA Created ==
  ASSUME TypeOK, NEW t, NEW count, NEW hash, CreateMonitor(t, count, hash)
  PROVE  /\ NextId \in Ids \ monitors_ /\ monitors_' = monitors_ \cup {NextId}
         /\ \A j \in Ids \ {NextId} : monitor'[j] = monitor[j]
         /\ monitor'[NextId] = Fresh(t, count, hash)
  <1>1. NextId \in Ids \ monitors_
    BY NextIdFree DEF CreateMonitor, TypeOK
  <1>2. monitor \in [Ids -> MonitorRecords]
    BY DEF TypeOK
  <1> HIDE DEF NextId
  <1> QED BY <1>1, <1>2 DEF CreateMonitor, Fresh

(* InflateLoad and InflateOtherLoad when they create a Monitor. *)
LEMMA CreateRest ==
  ASSUME Inv, NEW t \in Threads,
         \/ InflateLoad(t) /\ At(t, "inflate") /\ local'[t].pc = "inflateCas"
         \/ InflateOtherLoad(t) /\ local'[t].pc = "inflateOtherCas"
  PROVE  Rest'
  <1> DEFINE l == local[t]
             k == local'[t]
             mark == markWord_
  <1>1. TypeOK /\ local \in [Threads -> Locals] /\ Shape(t, l) /\ mark \in Marks
    BY DEF Inv, TypeOK, ShapeInv
  <1>2. PICK i : i = NextId
    OBVIOUS
  <1>3. /\ UNCHANGED <<markWord_, depth, waiting_monitor_, cond_lock_, signalled, hashes>>
        /\ l.pc \in {"inflate", "inflateOther"}
    BY DEF InflateLoad, InflateOtherLoad, At, pool, waits
  <1>4. CASE InflateLoad(t) /\ k.pc = "inflateCas"
    <2>1. ~InflateFailed(t)
      <3>1. l.pc = "inflate"
        BY <1>4 DEF InflateLoad, At
      <3>2. InflateFailed(t) => k.pc \notin InflatingPcs
        BY <3>1, FailedArrives DEF Arrives
      <3> QED BY <1>4, <3>2 DEF InflatingPcs
    <2>2. /\ l.pc = "inflate"
          /\ mark.state \in {"UNLOCKED", "HASHED"} \/ IsLightOf(mark, t)
          /\ CreateMonitor(t, IF mark.state = "LIGHT_LOCKED" THEN mark.count ELSE 1,
                              IF mark.state = "HASHED" THEN mark.hash ELSE NoHash)
          /\ local' = [local EXCEPT ![t].pc = "inflateCas", ![t].id = i, ![t].old_mark = mark]
      BY <1>2, <1>4, <2>1 DEF InflateLoad, At
    <2>3. /\ i \in Ids \ monitors_ /\ monitors_' = monitors_ \cup {i}
          /\ \A j \in Ids \ {i} : monitor'[j] = monitor[j]
          /\ monitor'[i] = Fresh(t, MarkCount(mark), MarkHash(mark))
      <3>1. CreateMonitor(t, MarkCount(mark), MarkHash(mark))
        BY <2>2 DEF MarkCount, MarkHash
      <3> QED BY <1>1, <1>2, <3>1, Created
    <2>4. /\ Others(t) /\ k.pc = "inflateCas" /\ k.op = l.op /\ k.after = l.after
          /\ k.old_mark = mark /\ k.id = i /\ k.monitor_p = l.monitor_p
      BY <1>1, <2>2 DEF Others, Locals
    <2>5. monitor'[i] = PrivateFor(k, t)
      BY <2>3, <2>4 DEF PrivateFor
    <2> HIDE DEF l, k, mark
    <2>6. k.pc \in InflatingPcs /\ k.monitor_p = NoId /\ Shape(t, k)
      BY <1>1, <2>2, <2>4 DEF Shape, InflatingPcs, UsingPcs, HashOps, EnterOps
    <2> QED BY <1>3, <2>2, <2>3, <2>4, <2>5, <2>6, CreateStep DEF l, k
  <1>5. CASE InflateOtherLoad(t) /\ k.pc = "inflateOtherCas"
    <2>1. /\ l.pc = "inflateOther" /\ IsLightOf(mark, l.other)
          /\ CreateMonitor(l.other, mark.count, NoHash)
          /\ local' = [local EXCEPT ![t].pc = "inflateOtherCas", ![t].id = i, ![t].old_mark = mark]
      <3>1. ~Goto(t, "resume")
        BY <1>1, <1>5, Moves
      <3> QED BY <1>2, <1>5, <3>1 DEF InflateOtherLoad, At, StillOwner
    <2>2. mark.state = "LIGHT_LOCKED" /\ MarkCount(mark) = mark.count /\ MarkHash(mark) = NoHash
      BY <2>1 DEF IsLightOf, MarkCount, MarkHash
    <2>3. /\ i \in Ids \ monitors_ /\ monitors_' = monitors_ \cup {i}
          /\ \A j \in Ids \ {i} : monitor'[j] = monitor[j]
          /\ monitor'[i] = Fresh(l.other, MarkCount(mark), MarkHash(mark))
      BY <1>1, <1>2, <2>1, <2>2, Created
    <2>4. /\ Others(t) /\ k.pc = "inflateOtherCas" /\ k.op = l.op /\ k.other = l.other
          /\ k.old_mark = mark /\ k.id = i /\ k.monitor_p = l.monitor_p
      BY <1>1, <2>1 DEF Others, Locals
    <2>5. monitor'[i] = PrivateFor(k, t)
      BY <2>3, <2>4 DEF PrivateFor
    <2> HIDE DEF l, k, mark
    <2>6. k.pc \in InflatingPcs /\ k.monitor_p = NoId /\ Shape(t, k) /\ k.pc # "inflateCas"
      BY <1>1, <2>1, <2>4 DEF Shape, InflatingPcs, UsingPcs, HashOps, EnterOps
    <2> QED BY <1>3, <2>1, <2>3, <2>4, <2>5, <2>6, CreateStep DEF l, k
  <1> QED BY <1>4, <1>5

(* A Monitor that could not be published is freed: nobody else knew it. *)
LEMMA FreeRest ==
  ASSUME Inv, NEW t \in Threads, InflateCasFail(t) \/ InflateOtherCasFail(t)
  PROVE  Rest'
  <1> DEFINE l == local[t]
             k == local'[t]
  <1>1. PICK i : i = l.id
    OBVIOUS
  <1>2. TypeOK /\ Shape(t, l) /\ monitor \in [Ids -> MonitorRecords]
    BY DEF Inv, TypeOK, ShapeInv
  <1>3. /\ Inflating(t) /\ FreeMonitor(i)
        /\ UNCHANGED <<markWord_, depth, waiting_monitor_, cond_lock_, signalled, hashes>>
    BY <1>1 DEF InflateCasFail, InflateOtherCasFail, Inflating, InflatingPcs, At, waits
  <1>4. i \in Ids
    BY <1>1, <1>3 DEF Inv, PlaceInv, TypeOK
  <1>5. /\ monitors_' = monitors_ \ {i} /\ monitor'[i] = NewMonitor
        /\ \A j \in Ids \ {i} : monitor'[j] = monitor[j]
    BY <1>2, <1>3, <1>4 DEF FreeMonitor
  <1>6. Others(t) /\ Arrives(t, k)
    <2>1. CASE InflateCasFail(t)
      BY <2>1, FailedArrives DEF InflateCasFail, At
    <2>2. CASE InflateOtherCasFail(t)
      <3>1. l.pc = "inflateOtherCas" /\ l.op \in EnterOps /\ l.monitor_p = NoId /\ l.other \in Threads
        BY <1>2, <2>2 DEF InflateOtherCasFail, At, Shape, EnterOps
      <3>2. Others(t) /\ k.pc = "resume" /\ k.op = l.op /\ k.other = l.other /\ k.monitor_p = l.monitor_p
        BY <1>2, <2>2, Moves DEF InflateOtherCasFail
      <3> HIDE DEF l, k
      <3> QED BY <3>1, <3>2
             DEF Arrives, InflatingPcs, UsingPcs, Shape, NeedsDepth, Placed, HashKnown, HashOps, EnterOps
    <2> QED BY <2>1, <2>2
  <1> QED BY <1>1, <1>3, <1>5, <1>6, FreeStep

(* In a stopped world a Monitor that is not counted as used belongs to nobody. *)
LEMMA DeflateRest ==
  ASSUME Inv, NEW i \in Ids, Deflate(i)
  PROVE  Rest'
  <1>1. /\ TypeOK /\ ShapeInv /\ PlaceInv /\ PoolInv /\ WaitInv /\ HeavyInv /\ HashInv
        /\ monitor \in [Ids -> MonitorRecords]
    BY DEF Inv, TypeOK
  <1>2. PICK m : m = monitor[i]
    OBVIOUS
  <1>3. /\ i \in monitors_ /\ m.owner_ = NoThread /\ m.lock_ = NoThread /\ m.waiters_counter_ = 0
        /\ markWord_' = DeflatedMark(m) /\ m.hash_code_ \in Hashes \cup {NoHash}
        /\ monitors_' = monitors_ \ {i} /\ monitor' = [monitor EXCEPT ![i] = NewMonitor]
        /\ UNCHANGED <<local, depth, waiting_monitor_, cond_lock_, signalled, hashes>>
    BY <1>1, <1>2 DEF Deflate, Deflatable, FreeMonitor, MonitorRecords, waits
  <1>4. \A t \in Threads : local[t].pc = "idle" \/ local[t].pc \in NotRunningPcs
    BY DEF Deflate, WorldStopped, At, Running
  <1>5. \A t \in Threads : ~Inflating(t)
    BY <1>4 DEF Inflating, InflatingPcs, NotRunningPcs
  <1>6. markWord_ = Heavy(i) /\ IsHeavy /\ TheMonitor = m /\ markWord_.id = i
    <2>1. markWord_ = Heavy(i)
      BY <1>1, <1>3, <1>5 DEF PoolInv
    <2> QED BY <1>2, <2>1, MarksMade DEF IsHeavy, TheMonitor
  <1>7. \A t \in Threads : ~WaitsIn(local[t]) /\ ~BlocksIn(local[t])
    <2> DEFINE W == {t \in Threads : WaitsIn(local[t])}
               B == {t \in Threads : BlocksIn(local[t])}
    <2>1. 0 = Cardinality(W) + Cardinality(B)
      BY <1>1, <1>3, <1>6 DEF HeavyInv, CountOK
    <2>2. W \in SUBSET Threads /\ B \in SUBSET Threads
      OBVIOUS
    <2> HIDE DEF W, B
    <2>3. IsFiniteSet(W) /\ IsFiniteSet(B)
      BY <2>2, MonitorAssumption, FS_Subset DEF MonitorAssumption
    <2>4. Cardinality(W) = 0 /\ Cardinality(B) = 0
      BY <2>1, <2>3, FS_CardinalityType
    <2>5. W = {} /\ B = {}
      BY <2>3, <2>4, FS_EmptySet
    <2> QED BY <2>5 DEF W, B
  <1>8. ASSUME NEW t \in Threads
        PROVE  local[t].pc \notin UsingPcs /\ local[t].monitor_p = NoId
    <2>1. local[t].pc \notin UsingPcs
      BY <1>1, <1>4, <1>7 DEF UsingPcs, NotRunningPcs, BlocksIn, WaitsIn, ShapeInv, Shape
    <2> QED BY <1>1, <1>4, <2>1 DEF UsingPcs, NotRunningPcs, ShapeInv, Shape, EnterOps
  <1>9. /\ ~IsHeavy' /\ markWord_'.state # "LIGHT_LOCKED" /\ MarkHash(markWord_') = m.hash_code_
        /\ \A j : markWord_' # Heavy(j)
    BY <1>3, MarksMade DEF IsHeavy, DeflatedMark, MarkHash
  <1>10. ShapeInv'
    BY <1>1, <1>3 DEF ShapeInv
  <1>11. PlaceInv'
    BY <1>3, <1>5, <1>8 DEF PlaceInv, Inflating
  <1>12. PoolInv'
    <2>1. \A j \in monitors_ : j = i
      BY <1>1, <1>5, <1>6, MarksMade DEF PoolInv
    <2>2. \A j \in Ids : monitor'[j] = NewMonitor
      BY <1>1, <1>3, <2>1 DEF PoolInv
    <2>3. monitors_' = {}
      BY <1>3, <2>1
    <2>4. \A t \in Threads : ~Inflating(t)'
      BY <1>3, <1>5 DEF Inflating
    <2> QED BY <1>9, <2>2, <2>3, <2>4 DEF PoolInv
  <1>13. WaitInv'
    BY <1>1, <1>3 DEF WaitInv
  <1>14. HeavyInv'
    BY <1>9 DEF HeavyInv
  <1>15. HashInv'
    <2>1. \A t \in Threads : ~HashKnown(local'[t])
      BY <1>1, <1>3, <1>8 DEF ShapeInv, Shape, HashKnown
    <2>2. CurrentHash' = CurrentHash
      BY <1>6, <1>9 DEF CurrentHash, IsHeavy, TheMonitor
    <2> QED BY <1>1, <1>3, <2>1, <2>2 DEF HashInv, HashKnown
  <1>16. Hashers = {} => LevelsInv'
    <2>1. \A t \in Threads : Levels(t)' = Levels(t)
      <3>1. \A t \in Threads : t # NoThread
        BY MonitorAssumption DEF MonitorAssumption
      <3>2. \A t \in Threads : Levels(t) = 0
        BY <1>3, <1>6, <3>1 DEF Levels, IsLightOf, IsHeavy, TheMonitor
      <3>3. \A t \in Threads : Levels(t)' = 0
        BY <1>9 DEF Levels, IsLightOf, IsHeavy
      <3> QED BY <3>2, <3>3
    <2> QED BY <1>3, <2>1 DEF Inv, LevelsInv
  <1> QED BY <1>10, <1>11, <1>12, <1>13, <1>14, <1>15, <1>16 DEF Rest

-----------------------------------------------------------------------------
(* Steps on the object's Monitor *)

(* What a step of t may do to who owns the Monitor, the release included. *)
OwnerStep(t, m, n) ==
  \/ n.owner_ = m.owner_ /\ n.lock_ = m.lock_ /\ n.recursive_counter_ = m.recursive_counter_
  \/ /\ m.lock_ \in {NoThread, t} /\ n.owner_ \in {NoThread, t} /\ n.lock_ \in {NoThread, t}
     /\ n.owner_ # NoThread => n.lock_ = t /\ n.recursive_counter_ > 0
     /\ n.owner_ = NoThread => n.recursive_counter_ = 0

WaitsListed(l) == l.op = "wait" /\ l.pc \in {"signal", "unlock", "condWait", "waiting"}

Reached(u, n) == Listed(u, n) \/ u \in signalled \/ ToBeSignalled(u)

ListStep(t, l, k, m, n) ==
  /\ NoDup(n.waiters_) /\ NoDup(n.to_wakeup_)
  /\ \A u \in Threads : ~(In(u, n.waiters_) /\ In(u, n.to_wakeup_))
  /\ \A u \in Threads \ {t} : Listed(u, n) => Listed(u, m)
  /\ Listed(t, n) => WaitsIn(k)
  /\ \A u \in Threads \ {t} : In(u, m.waiters_) => In(u, n.waiters_) \/ m.owner_ = t
  /\ k.op = "wait" /\ k.pc = "release" => In(t, n.waiters_)

WakeStep(t, k, m, n) ==
  \/ n.lock_ = t /\ k.pc # "unlock"
  \/ n.to_wakeup_ = <<>>
  \/ \E u \in Threads : Coming(u)'
  \/ /\ n.to_wakeup_ = m.to_wakeup_
     /\ n.lock_ = m.lock_ \/ local[t].pc = "unlock"
     /\ k.pc = "unlock" => local[t].pc = "unlock"
     /\ \A u \in Threads : Coming(u) => Coming(u)'

(* The parts of HeavyInv after a step of t that keeps the mark. *)
LEMMA HeavyParts ==
  ASSUME ShapeInv, HeavyInv, IsHeavy, markWord_' = markWord_, NEW t \in Threads, Others(t),
         NEW l, l = local[t], NEW k, k = local'[t],
         NEW m, m = TheMonitor, NEW n, n = monitor'[markWord_.id],
         n.waiters_counter_ = m.waiters_counter_ + Num(WaitsIn(k)) - Num(WaitsIn(l))
                                                 + Num(BlocksIn(k)) - Num(BlocksIn(l)),
         OwnerStep(t, m, n), OwnerOK(t, k, n),
         ListStep(t, l, k, m, n),
         \A u \in Threads \ {t} : WaitsListed(local[u]) /\ Reached(u, m) => Reached(u, n)',
         WaitsListed(k) => Reached(t, n)',
         k.pc = "signal" => k.other \in Threads /\ k.other # t /\ WaitsIn(local[k.other]),
         WaitsIn(l) /\ ~WaitsIn(k) => m.lock_ = t /\ k.pc # "signal",
         l.pc = "signal" => k.pc # "signal",
         WakeStep(t, k, m, n)
  PROVE  HeavyInv'
  <1>1. CountOK(m) /\ OwnersOK(m) /\ ListsOK(m) /\ WakesOK(m)
    BY DEF HeavyInv
  <1>2. TheMonitor' = n
    BY DEF TheMonitor
  <1>3. \A u \in Threads : u # NoThread
    BY MonitorAssumption DEF MonitorAssumption
  <1>4. \A u \in Threads : u # t => local'[u] = local[u]
    BY DEF Others
  <1>5. CountOK(n)'
    BY <1>1, <1>4, RecountWaiters
  <1>6. OwnersOK(n)'
    <2>1. ASSUME NEW u \in Threads
          PROVE  OwnerOK(u, local'[u], n)
      <3>1. CASE u = t
        BY <3>1
      <3>2. CASE u # t
        <4>1. local'[u] = local[u] /\ OwnerOK(u, local[u], m)
          BY <1>1, <1>4, <3>2 DEF OwnersOK
        <4>2. m.owner_ # NoThread => m.lock_ = m.owner_
          BY <1>1 DEF OwnersOK
        <4> QED BY <1>3, <3>2, <4>1, <4>2 DEF OwnerOK, OwnerStep
      <3> QED BY <3>1, <3>2
    <2> QED BY <1>1, <1>3, <2>1 DEF OwnersOK, OwnerStep
  <1>7. ListsOK(n)'
    <2>1. ASSUME NEW u \in Threads
          PROVE  /\ Listed(u, n) => WaitsIn(local'[u])
                 /\ local'[u].op = "wait" /\ local'[u].pc = "release" => In(u, n.waiters_)
                 /\ WaitsListed(local'[u]) => Reached(u, n)'
      <3>1. CASE u = t
        BY <3>1 DEF ListStep
      <3>2. CASE u # t
        <4>1. local'[u] = local[u]
          BY <1>4, <3>2
        <4>2. Listed(u, m) => WaitsIn(local[u])
          BY <1>1 DEF ListsOK
        <4>3. local[u].op = "wait" /\ local[u].pc = "release" => In(u, m.waiters_) /\ m.owner_ = u
          BY <1>1 DEF ListsOK, OwnersOK, OwnerOK
        <4>4. WaitsListed(local[u]) => Reached(u, m)
          BY <1>1 DEF ListsOK, WaitsListed, Reached
        <4> QED BY <3>2, <4>1, <4>2, <4>3, <4>4 DEF ListStep
      <3> QED BY <3>1, <3>2
    <2>2. NoDup(n.waiters_) /\ NoDup(n.to_wakeup_) /\ \A u \in Threads : ~(In(u, n.waiters_) /\ In(u, n.to_wakeup_))
      BY DEF ListStep
    <2> QED BY <2>1, <2>2 DEF ListsOK, WaitsListed, Reached
  <1>8. WakesOK(n)'
    <2>1. ASSUME NEW u \in Threads, At(u, "signal")'
          PROVE  local'[u].other # u /\ WaitsIn(local'[local'[u].other])
      <3>1. CASE u = t
        BY <1>4, <2>1, <3>1 DEF At
      <3>2. CASE u # t
        <4>1. local'[u] = local[u] /\ At(u, "signal")
          BY <1>4, <2>1, <3>2 DEF At
        <4>2. local[u].other # u /\ WaitsIn(local[local[u].other]) /\ local[u].other \in Threads
          BY <1>1, <4>1 DEF WakesOK, ShapeInv, Shape, At
        <4>3. m.lock_ = u
          BY <1>1, <4>1 DEF OwnersOK, OwnerOK, At
        <4>4. WaitsIn(local'[local[u].other])
          BY <1>4, <3>2, <4>2, <4>3
        <4> QED BY <4>1, <4>2, <4>4
      <3> QED BY <3>1, <3>2
    <2>2. ASSUME n.to_wakeup_ # <<>>, n.lock_ = NoThread \/ \E u \in Threads : At(u, "unlock")'
          PROVE  \E u \in Threads : Coming(u)'
      <3>1. CASE n.lock_ = t /\ k.pc # "unlock"
        <4>1. \A u \in Threads : At(u, "unlock")' => n.lock_ = u
          BY <1>6 DEF OwnersOK, OwnerOK, At
        <4> QED BY <1>3, <2>2, <3>1, <4>1 DEF At
      <3>2. CASE /\ n.to_wakeup_ = m.to_wakeup_
                 /\ n.lock_ = m.lock_ \/ local[t].pc = "unlock"
                 /\ k.pc = "unlock" => local[t].pc = "unlock"
                 /\ \A u \in Threads : Coming(u) => Coming(u)'
        <4>1. m.lock_ = NoThread \/ \E u \in Threads : At(u, "unlock")
          BY <1>4, <2>2, <3>2 DEF At
        <4>2. PICK u \in Threads : Coming(u)
          BY <1>1, <2>2, <3>2, <4>1 DEF WakesOK
        <4> QED BY <3>2, <4>2
      <3> QED BY <2>2, <3>1, <3>2 DEF WakeStep
    <2> QED BY <2>1, <2>2 DEF WakesOK
  <1> QED BY <1>2, <1>5, <1>6, <1>7, <1>8 DEF HeavyInv

(* The rest of the invariant after a step on the object's Monitor. *)
LEMMA MonitorStep ==
  ASSUME Inv, NEW t \in Threads, Calm(t), IsHeavy, NEW k, k = local'[t],
         \A u \in Threads \ {t} : depth'[u] = depth[u], UNCHANGED hashes,
         monitor'[markWord_.id].hash_code_ = TheMonitor.hash_code_,
         Shape(t, k), NeedsDepth(k) => depth'[t] > 0, Placed(k),
         HashKnown(k) => TheMonitor.hash_code_ # NoHash,
         WaitInv', HeavyInv',
         Hashers = {} => /\ \A u \in Threads \ {t} : Levels(u)' = Levels(u)
                         /\ LevelsOK(k, Levels(t)', depth'[t])
  PROVE  Rest'
  <1>1. Others(t) /\ markWord_' = markWord_
    BY DEF Calm
  <1>2. ShapeInv'
    BY <1>1, CalmShape DEF Inv
  <1>3. PlaceInv' /\ PoolInv'
    BY CalmPlace DEF Inv
  <1>4. HashInv'
    <2>1. HashKnown(k) => monitor'[k.monitor_p].hash_code_ # NoHash
      <3> SUFFICES ASSUME HashKnown(k)
                   PROVE  monitor'[k.monitor_p].hash_code_ # NoHash
        OBVIOUS
      <3>1. k.monitor_p # NoId
        BY DEF Shape, HashKnown
      <3>2. markWord_ = Heavy(k.monitor_p)
        BY <3>1 DEF Placed
      <3>3. markWord_.id = k.monitor_p
        BY <3>2, MarksMade
      <3> QED BY <3>3
    <2> QED BY <1>1, <2>1, CalmHash DEF Inv
  <1>5. Hashers = {} => LevelsInv'
    BY <1>1, CalmLevels DEF Inv
  <1> QED BY <1>2, <1>3, <1>4, <1>5 DEF Rest

(* A thread that uses a Monitor uses the object's. *)
LEMMA UsesIt ==
  ASSUME Inv, NEW t \in Threads, local[t].pc \in UsingPcs
  PROVE  /\ IsHeavy /\ markWord_ = Heavy(local[t].id) /\ markWord_.id = local[t].id
         /\ local[t].id \in Ids /\ Mon(t) = TheMonitor /\ TheMonitor \in MonitorRecords
         /\ \A j \in Ids : markWord_ # Heavy(j) => j # local[t].id
         /\ local[t].pc \notin InflatingPcs
         /\ CountOK(TheMonitor) /\ OwnersOK(TheMonitor) /\ ListsOK(TheMonitor) /\ WakesOK(TheMonitor)
  <1>1. markWord_ = Heavy(local[t].id) /\ markWord_ \in Marks /\ monitor \in [Ids -> MonitorRecords]
    BY DEF Inv, PlaceInv, TypeOK
  <1>2. IsHeavy /\ markWord_.id = local[t].id
    BY <1>1, MarksMade DEF IsHeavy
  <1>3. local[t].id \in Ids
    BY <1>1, <1>2, MarkFields DEF IsHeavy
  <1>4. Mon(t) = TheMonitor /\ TheMonitor \in MonitorRecords
    BY <1>1, <1>2, <1>3 DEF Mon, TheMonitor
  <1>5. local[t].pc \notin InflatingPcs
    BY DEF UsingPcs, InflatingPcs
  <1> QED BY <1>1, <1>2, <1>3, <1>4, <1>5 DEF Inv, HeavyInv

(* WaitInv after a step of t. *)
LEMMA WaitStepInv ==
  ASSUME WaitInv, NEW t \in Threads, Others(t),
         \A u \in Threads \ {t} :
           /\ waiting_monitor_'[u] = waiting_monitor_[u]
           /\ u \in cond_lock_' <=> u \in cond_lock_
           /\ u \in signalled' => u \in signalled \/ (WaitsIn(local[u]) /\ local[u].pc = "waiting"),
         NEW k, k = local'[t],
         waiting_monitor_'[t] = IF WaitsIn(k) THEN k.id ELSE NoId,
         t \in cond_lock_' <=> WaitsIn(k) /\ k.pc \in {"release", "signal", "unlock", "condWait"},
         t \in signalled' => WaitsIn(k) /\ k.pc = "waiting"
  PROVE  WaitInv'
  <1> SUFFICES ASSUME NEW u \in Threads
               PROVE  /\ waiting_monitor_'[u] = IF WaitsIn(local'[u]) THEN local'[u].id ELSE NoId
                      /\ u \in cond_lock_' <=>
                           WaitsIn(local'[u])
                           /\ local'[u].pc \in {"release", "signal", "unlock", "condWait"}
                      /\ u \in signalled' => WaitsIn(local'[u]) /\ local'[u].pc = "waiting"
    BY DEF WaitInv
  <1>1. CASE u = t
    BY <1>1
  <1>2. CASE u # t
    BY <1>2 DEF WaitInv, Others
  <1> QED BY <1>1, <1>2

(* MonitorEnter returns, or GetHashCode goes on inside the monitor. *)
LEMMA EnteredIs ==
  ASSUME Inv, NEW t \in Threads, local[t].op \in EnterOps \cup {"hashEnter"}, Entered(t),
         NEW k, k = local'[t]
  PROVE  /\ Others(t) /\ \A u \in Threads \ {t} : depth'[u] = depth[u]
         /\ depth[t] \in Nat /\ depth'[t] = depth[t] + 1
         /\ k.pc \in {"idle", "hashSet"} /\ k.op \in {"none", "hash"}
         /\ Shape(t, k) /\ Placed(k) /\ ~HashKnown(k)
  <1>1. TypeOK /\ local \in [Threads -> Locals] /\ depth \in [Threads -> Nat]
        /\ Shape(t, local[t]) /\ Placed(local[t])
    BY DEF Inv, TypeOK, ShapeInv, PlaceInv, Placed
  <1>2. depth[t] \in Nat /\ depth'[t] = depth[t] + 1 /\ \A u \in Threads \ {t} : depth'[u] = depth[u]
    BY <1>1 DEF Entered
  <1>3. CASE local[t].op = "hashEnter"
    <2>1. Others(t) /\ k.pc = "hashSet" /\ k.op = "hash" /\ k.monitor_p = local[t].monitor_p
      BY <1>1, <1>3 DEF Entered, Others, Locals
    <2> QED BY <1>1, <1>2, <1>3, <2>1
           DEF Shape, Placed, HashKnown, UsingPcs, HashOps, EnterOps
  <1>4. CASE local[t].op \in EnterOps
    <2>1. Return(t)
      BY <1>4 DEF Entered, EnterOps
    <2>2. Others(t) /\ k = IdleLocal
      BY <1>1, <2>1, Moves
    <2>3. k.pc = "idle" /\ k.op = "none" /\ k.monitor_p = NoId /\ Shape(t, k)
      BY <2>2, IdleIs
    <2> QED BY <1>2, <2>2, <2>3 DEF Placed, HashKnown, UsingPcs
  <1> QED BY <1>3, <1>4

(* A lock_ that is free has no owner. *)
LEMMA FreeLock ==
  ASSUME NEW m, OwnersOK(m), m.lock_ = NoThread
  PROVE  m.owner_ = NoThread /\ m.recursive_counter_ = 0
  BY DEF OwnersOK

(* A thread takes lock_. *)
LEMMA TakeStep ==
  ASSUME Inv, NEW t \in Threads, Others(t), NEW l, l = local[t], NEW k, k = local'[t],
         l.pc \in {"acquire", "blocked"}, Mon(t).lock_ = NoThread, TakeLock(t),
         UNCHANGED <<markWord_, pool, waits, hashes>>,
         \A u \in Threads \ {t} : depth'[u] = depth[u],
         k.pc \in {"waitEnd", "owning", "idle", "hashSet"}, WaitsIn(k) <=> WaitsIn(l),
         k.pc = "waitEnd" => WaitsIn(k), BlocksIn(k) <=> BlocksIn(l),
         k.pc \in {"waitEnd", "owning"} => k.id = l.id /\ k.counter = l.counter,
         depth[t] \in Nat,
         depth'[t] = IF k.pc \in {"waitEnd", "owning"} THEN depth[t] ELSE depth[t] + 1,
         Shape(t, k), Placed(k), ~HashKnown(k)
  PROVE  Rest'
  <1>1. l.pc \in UsingPcs
    BY DEF UsingPcs
  <1>2. PICK i, m, n : i = l.id /\ m = TheMonitor /\ n = monitor'[markWord_.id]
    OBVIOUS
  <1>3. /\ IsHeavy /\ markWord_ = Heavy(i) /\ markWord_.id = i /\ i \in Ids
        /\ Mon(t) = m /\ m \in MonitorRecords /\ m = monitor[i]
        /\ \A j \in Ids : markWord_ # Heavy(j) => j # i
        /\ l.pc \notin InflatingPcs
        /\ CountOK(m) /\ OwnersOK(m) /\ ListsOK(m) /\ WakesOK(m)
    BY <1>1, <1>2, UsesIt DEF Mon
  <1>4. monitor \in [Ids -> MonitorRecords] /\ t # NoThread
    BY MonitorAssumption DEF Inv, TypeOK, MonitorAssumption
  <1>5. m.lock_ = NoThread /\ m.owner_ = NoThread /\ m.recursive_counter_ = 0
    BY <1>3, FreeLock
  <1>6. /\ n.lock_ = t /\ n.owner_ = t /\ n.recursive_counter_ = m.recursive_counter_ + 1
        /\ n.waiters_ = m.waiters_ /\ n.to_wakeup_ = m.to_wakeup_
        /\ n.waiters_counter_ = m.waiters_counter_ /\ n.hash_code_ = m.hash_code_
        /\ \A j \in Ids : j # i => monitor'[j] = monitor[j]
    BY <1>2, <1>3, <1>4 DEF TakeLock, MonitorRecords
  <1>7. Calm(t)
    BY <1>2, <1>3, <1>6 DEF Calm, pool, InflatingPcs
  <1>8. WaitInv'
    <2>1. /\ waiting_monitor_[t] = IF WaitsIn(l) THEN l.id ELSE NoId
          /\ t \notin cond_lock_ /\ t \notin signalled
      BY DEF Inv, WaitInv
    <2>2. /\ waiting_monitor_[t] = IF WaitsIn(k) THEN k.id ELSE NoId
          /\ k.pc \notin {"release", "signal", "unlock", "condWait", "waiting"}
      BY <2>1 DEF WaitsIn, UsingPcs
    <2> QED BY <2>1, <2>2, WaitStepInv DEF Inv, waits
  <1>9. HeavyInv'
    <2>1. m.waiters_counter_ \in Nat
      BY <1>3, CountNat
    <2>2. n.waiters_counter_ = m.waiters_counter_ + Num(WaitsIn(k)) - Num(WaitsIn(l))
                                                  + Num(BlocksIn(k)) - Num(BlocksIn(l))
      BY <1>6, <2>1 DEF Num
    <2>3. OwnerStep(t, m, n) /\ OwnerOK(t, k, n)
      BY <1>4, <1>5, <1>6 DEF OwnerStep, OwnerOK
    <2>4. ListStep(t, l, k, m, n)
      BY <1>2, <1>3, <1>6 DEF ListStep, ListsOK, Listed
    <2>5. \A u \in Threads \ {t} : Reached(u, m) => Reached(u, n)'
      <3>1. \A u \in Threads : At(u, "signal") => u # t /\ At(u, "signal")' /\ local'[u] = local[u]
        BY DEF At, Others
      <3>2. \A u \in Threads : ToBeSignalled(u) => ToBeSignalled(u)'
        BY <3>1 DEF ToBeSignalled
      <3> QED BY <1>6, <3>2 DEF Reached, Listed, waits
    <2>6. ~WaitsListed(k) /\ k.pc # "signal" /\ l.pc # "signal" /\ k.pc # "unlock"
      BY DEF WaitsListed
    <2>7. WakeStep(t, k, m, n)
      BY <1>6, <2>6 DEF WakeStep
    <2>8. ShapeInv /\ HeavyInv /\ markWord_' = markWord_
      BY DEF Inv
    <2> QED BY <1>2, <1>3, <2>2, <2>3, <2>4, <2>5, <2>6, <2>7, <2>8, HeavyParts,
               ZenonT(60)
  <1>10. Hashers = {} => /\ \A u \in Threads \ {t} : Levels(u)' = Levels(u)
                         /\ LevelsOK(k, Levels(t)', depth'[t])
    <2> SUFFICES ASSUME Hashers = {}
                 PROVE  /\ \A u \in Threads \ {t} : Levels(u)' = Levels(u)
                        /\ LevelsOK(k, Levels(t)', depth'[t])
      OBVIOUS
    <2>1. OwnerMove(t, m, n)
      BY <1>5, <1>6 DEF OwnerMove
    <2>2. \A u \in Threads : u # t => Levels(u)' = Levels(u)
      BY <1>2, <2>1, OthersLevels DEF Inv
    <2>3. Levels(t) = 0 /\ Levels(t)' = 1
      BY <1>2, <1>3, <1>4, <1>5, <1>6 DEF Levels, IsLightOf, IsHeavy, TheMonitor
    <2>4. LevelsOK(l, 0, depth[t])
      BY <2>3 DEF Inv, LevelsInv
    <2>5. LevelsOK(k, 1, depth'[t])
      BY <2>4 DEF LevelsOK, WaitsIn, UsingPcs
    <2> QED BY <2>2, <2>3, <2>5
  <1>11. NeedsDepth(k) => depth'[t] > 0
    BY DEF NeedsDepth
  <1>12. \A u \in Threads \ {t} : depth'[u] = depth[u]
    OBVIOUS
  <1>13. hashes' = hashes /\ monitor'[markWord_.id].hash_code_ = TheMonitor.hash_code_
    BY <1>2, <1>6
  <1> QED BY <1>3, <1>7, <1>8, <1>9, <1>10, <1>11, <1>12, <1>13, MonitorStep

(* The levels of the owner change, nothing else of the Monitor. *)
LEMMA RecurseStep ==
  ASSUME Inv, NEW t \in Threads, Others(t), NEW l, l = local[t], NEW k, k = local'[t],
         l.pc \in {"acquire", "release"}, ~WaitsIn(l), Mon(t).owner_ = t, NEW c,
         monitor' = [monitor EXCEPT ![l.id].recursive_counter_ = c], c \in Nat, c > 0,
         UNCHANGED <<markWord_, pool, waits, hashes>>,
         \A u \in Threads \ {t} : depth'[u] = depth[u],
         k.pc \in {"idle", "hashSet", "hashReturn"},
         Mon(t).recursive_counter_ = depth[t] => c = depth'[t],
         Shape(t, k), Placed(k), NeedsDepth(k) => depth'[t] > 0,
         HashKnown(k) => HashKnown(l)
  PROVE  Rest'
  <1>1. l.pc \in UsingPcs
    BY DEF UsingPcs
  <1>2. PICK i, m, n : i = l.id /\ m = TheMonitor /\ n = monitor'[markWord_.id]
    OBVIOUS
  <1>3. /\ IsHeavy /\ markWord_ = Heavy(i) /\ markWord_.id = i /\ i \in Ids
        /\ Mon(t) = m /\ m \in MonitorRecords /\ m = monitor[i]
        /\ \A j \in Ids : markWord_ # Heavy(j) => j # i
        /\ l.pc \notin InflatingPcs
        /\ CountOK(m) /\ OwnersOK(m) /\ ListsOK(m) /\ WakesOK(m)
    BY <1>1, <1>2, UsesIt DEF Mon
  <1>4. monitor \in [Ids -> MonitorRecords] /\ t # NoThread
    BY MonitorAssumption DEF Inv, TypeOK, MonitorAssumption
  <1>5. m.owner_ = t /\ m.lock_ = t
    BY <1>3, <1>4 DEF OwnersOK
  <1>6. /\ n.lock_ = t /\ n.owner_ = t /\ n.recursive_counter_ = c
        /\ n.waiters_ = m.waiters_ /\ n.to_wakeup_ = m.to_wakeup_
        /\ n.waiters_counter_ = m.waiters_counter_ /\ n.hash_code_ = m.hash_code_
        /\ \A j \in Ids : j # i => monitor'[j] = monitor[j]
    BY <1>2, <1>3, <1>4, <1>5 DEF MonitorRecords
  <1>7. Calm(t)
    BY <1>2, <1>3, <1>6 DEF Calm, pool, InflatingPcs
  <1>8. Neutral(l) /\ Neutral(k) /\ l.pc # "waitEnd" /\ k.pc # "waitEnd"
    BY DEF Neutral, WaitsIn, UsingPcs
  <1>9. WaitInv'
    BY <1>8, CalmWait DEF Inv, Neutral, waits
  <1>10. OwnerMove(t, m, n)
    BY <1>5, <1>6 DEF OwnerMove
  <1>11. HeavyInv'
    <2>1. SameLists(m, n)
      BY <1>6 DEF SameLists
    <2>2. ShapeInv /\ HeavyInv /\ markWord_' = markWord_ /\ signalled' = signalled
      BY DEF Inv, waits
    <2> QED BY <1>2, <1>3, <1>6, <1>8, <1>10, <2>1, <2>2, QuietHeavy
  <1>12. Hashers = {} => /\ \A u \in Threads \ {t} : Levels(u)' = Levels(u)
                         /\ LevelsOK(k, Levels(t)', depth'[t])
    <2> SUFFICES ASSUME Hashers = {}
                 PROVE  /\ \A u \in Threads \ {t} : Levels(u)' = Levels(u)
                        /\ LevelsOK(k, Levels(t)', depth'[t])
      OBVIOUS
    <2>1. \A u \in Threads : u # t => Levels(u)' = Levels(u)
      BY <1>2, <1>10, OthersLevels DEF Inv
    <2>2. Levels(t) = m.recursive_counter_ /\ Levels(t)' = c
      BY <1>2, <1>3, <1>5, <1>6 DEF Levels, IsLightOf, IsHeavy, TheMonitor
    <2>3. LevelsOK(l, m.recursive_counter_, depth[t])
      BY <2>2 DEF Inv, LevelsInv
    <2>4. m.recursive_counter_ = depth[t]
      BY <2>3 DEF LevelsOK
    <2>5. LevelsOK(k, c, depth'[t])
      BY <1>3, <1>8, <2>4 DEF LevelsOK, Neutral
    <2> QED BY <2>1, <2>2, <2>5
  <1>13. hashes' = hashes /\ monitor'[markWord_.id].hash_code_ = TheMonitor.hash_code_
    BY <1>2, <1>6
  <1>14. HashKnown(k) => TheMonitor.hash_code_ # NoHash
    <2> SUFFICES ASSUME HashKnown(k)
                 PROVE  TheMonitor.hash_code_ # NoHash
      OBVIOUS
    <2>1. monitor[l.monitor_p].hash_code_ # NoHash /\ l.monitor_p # NoId
      BY DEF Inv, HashInv, HashKnown, ShapeInv, Shape
    <2>2. markWord_.id = l.monitor_p
      BY <2>1, MarksMade DEF Inv, PlaceInv
    <2> QED BY <2>1, <2>2 DEF TheMonitor
  <1> QED BY <1>3, <1>7, <1>9, <1>11, <1>12, <1>13, <1>14, MonitorStep

(* A thread is counted as blocked. *)
LEMMA BlockStep ==
  ASSUME Inv, NEW t \in Threads, Others(t), NEW l, l = local[t], NEW k, k = local'[t],
         l.pc = "acquire", Mon(t).owner_ # t, Mon(t).lock_ # NoThread,
         monitor' = [monitor EXCEPT ![l.id].waiters_counter_ = @ + 1],
         UNCHANGED <<markWord_, pool, depth, waits, hashes>>,
         k.pc = "blocked", k.op = l.op, k.id = l.id, k.counter = l.counter, k.monitor_p = l.monitor_p
  PROVE  Rest'
  <1>1. l.pc \in UsingPcs
    BY DEF UsingPcs
  <1>2. PICK i, m, n : i = l.id /\ m = TheMonitor /\ n = monitor'[markWord_.id]
    OBVIOUS
  <1>3. /\ IsHeavy /\ markWord_ = Heavy(i) /\ markWord_.id = i /\ i \in Ids
        /\ Mon(t) = m /\ m \in MonitorRecords /\ m = monitor[i]
        /\ \A j \in Ids : markWord_ # Heavy(j) => j # i
        /\ l.pc \notin InflatingPcs
        /\ CountOK(m) /\ OwnersOK(m) /\ ListsOK(m) /\ WakesOK(m)
    BY <1>1, <1>2, UsesIt DEF Mon
  <1>4. monitor \in [Ids -> MonitorRecords] /\ Shape(t, l) /\ Placed(l)
    BY DEF Inv, TypeOK, ShapeInv, PlaceInv, Placed
  <1>5. /\ n.lock_ = m.lock_ /\ n.owner_ = m.owner_ /\ n.recursive_counter_ = m.recursive_counter_
        /\ n.waiters_ = m.waiters_ /\ n.to_wakeup_ = m.to_wakeup_
        /\ n.waiters_counter_ = m.waiters_counter_ + 1 /\ n.hash_code_ = m.hash_code_
        /\ \A j \in Ids : j # i => monitor'[j] = monitor[j]
    BY <1>2, <1>3, <1>4 DEF MonitorRecords
  <1>6. Calm(t)
    BY <1>2, <1>3, <1>5 DEF Calm, pool, InflatingPcs
  <1>7. (WaitsIn(k) <=> WaitsIn(l)) /\ ~BlocksIn(l) /\ BlocksIn(k)
    BY DEF WaitsIn, BlocksIn, UsingPcs
  <1>8. WaitInv'
    <2>1. /\ waiting_monitor_[t] = IF WaitsIn(k) THEN k.id ELSE NoId
          /\ t \notin cond_lock_ /\ t \notin signalled
      BY <1>7 DEF Inv, WaitInv
    <2> QED BY <2>1, WaitStepInv DEF Inv, waits
  <1>9. HeavyInv'
    <2>1. m.waiters_counter_ \in Nat
      BY <1>3, CountNat
    <2>2. n.waiters_counter_ = m.waiters_counter_ + Num(WaitsIn(k)) - Num(WaitsIn(l))
                                                  + Num(BlocksIn(k)) - Num(BlocksIn(l))
      BY <1>5, <1>7, <2>1 DEF Num
    <2>3. OwnerStep(t, m, n) /\ OwnerOK(t, k, n)
      BY <1>3, <1>5 DEF OwnerStep, OwnerOK
    <2>4. ListStep(t, l, k, m, n)
      BY <1>2, <1>3, <1>5, <1>7 DEF ListStep, ListsOK, Listed
    <2>5. \A u \in Threads \ {t} : Reached(u, m) => Reached(u, n)'
      <3>1. \A u \in Threads : At(u, "signal") => u # t /\ At(u, "signal")' /\ local'[u] = local[u]
        BY DEF At, Others
      <3>2. \A u \in Threads : ToBeSignalled(u) => ToBeSignalled(u)'
        BY <3>1 DEF ToBeSignalled
      <3> QED BY <1>5, <3>2 DEF Reached, Listed, waits
    <2>6. ~WaitsListed(k) /\ k.pc # "signal" /\ l.pc # "signal" /\ k.pc # "unlock"
      BY DEF WaitsListed
    <2>7. WakeStep(t, k, m, n)
      <3>1. \A u \in Threads : Coming(u) => Coming(u)'
        BY <1>7 DEF Coming, Others, waits
      <3> QED BY <1>5, <2>6, <3>1 DEF WakeStep
    <2>8. ShapeInv /\ HeavyInv /\ markWord_' = markWord_
      BY DEF Inv
    <2> QED BY <1>2, <1>3, <1>7, <2>2, <2>3, <2>4, <2>5, <2>6, <2>7, <2>8, HeavyParts,
               ZenonT(60)
  <1>10. Hashers = {} => /\ \A u \in Threads \ {t} : Levels(u)' = Levels(u)
                         /\ LevelsOK(k, Levels(t)', depth'[t])
    <2> SUFFICES ASSUME Hashers = {}
                 PROVE  /\ \A u \in Threads \ {t} : Levels(u)' = Levels(u)
                        /\ LevelsOK(k, Levels(t)', depth'[t])
      OBVIOUS
    <2>1. \A u : Levels(u)' = Levels(u)
      BY <1>2, <1>5 DEF Levels, IsLightOf, TheMonitor
    <2>2. LevelsOK(l, Levels(t), depth[t])
      BY DEF Inv, LevelsInv
    <2>3. LevelsOK(k, Levels(t), depth[t])
      BY <1>7, <2>2 DEF LevelsOK
    <2> QED BY <2>1, <2>3
  <1>11. hashes' = hashes /\ monitor'[markWord_.id].hash_code_ = TheMonitor.hash_code_
    BY <1>2, <1>5
  <1>12. Shape(t, k) /\ Placed(k) /\ ~NeedsDepth(k) /\ ~HashKnown(k)
    BY <1>3, <1>2, <1>4 DEF Shape, Placed, NeedsDepth, HashKnown, HashOps, UsingPcs, EnterOps
  <1> QED BY <1>3, <1>6, <1>8, <1>9, <1>10, <1>11, <1>12, MonitorStep

(* A thread that was blocked is RUNNING again, the owner. *)
LEMMA UnblockStep ==
  ASSUME Inv, NEW t \in Threads, Others(t), NEW l, l = local[t], NEW k, k = local'[t],
         l.pc = "owning",
         monitor' = [monitor EXCEPT ![l.id].waiters_counter_ = @ - 1],
         UNCHANGED <<markWord_, pool, waits, hashes>>,
         \A u \in Threads \ {t} : depth'[u] = depth[u],
         k.pc \in {"waitEnd", "idle", "hashSet"}, WaitsIn(k) <=> WaitsIn(l),
         k.pc = "waitEnd" => WaitsIn(k) /\ k.id = l.id /\ k.counter = l.counter,
         depth[t] \in Nat, depth'[t] = IF k.pc = "waitEnd" THEN depth[t] ELSE depth[t] + 1,
         Shape(t, k), Placed(k), ~HashKnown(k)
  PROVE  Rest'
  <1>1. l.pc \in UsingPcs
    BY DEF UsingPcs
  <1>2. PICK i, m, n : i = l.id /\ m = TheMonitor /\ n = monitor'[markWord_.id]
    OBVIOUS
  <1>3. /\ IsHeavy /\ markWord_ = Heavy(i) /\ markWord_.id = i /\ i \in Ids
        /\ Mon(t) = m /\ m \in MonitorRecords /\ m = monitor[i]
        /\ \A j \in Ids : markWord_ # Heavy(j) => j # i
        /\ l.pc \notin InflatingPcs
        /\ CountOK(m) /\ OwnersOK(m) /\ ListsOK(m) /\ WakesOK(m)
    BY <1>1, <1>2, UsesIt DEF Mon
  <1>4. monitor \in [Ids -> MonitorRecords] /\ t # NoThread
    BY MonitorAssumption DEF Inv, TypeOK, MonitorAssumption
  <1>5. m.owner_ = t /\ m.lock_ = t
    BY <1>3, <1>4 DEF OwnersOK, OwnerOK
  <1>6. /\ n.lock_ = m.lock_ /\ n.owner_ = m.owner_ /\ n.recursive_counter_ = m.recursive_counter_
        /\ n.waiters_ = m.waiters_ /\ n.to_wakeup_ = m.to_wakeup_
        /\ n.waiters_counter_ = m.waiters_counter_ - 1 /\ n.hash_code_ = m.hash_code_
        /\ \A j \in Ids : j # i => monitor'[j] = monitor[j]
    BY <1>2, <1>3, <1>4 DEF MonitorRecords
  <1>7. Calm(t)
    BY <1>2, <1>3, <1>6 DEF Calm, pool, InflatingPcs
  <1>8. BlocksIn(l) /\ ~BlocksIn(k)
    BY DEF BlocksIn
  <1>9. WaitInv'
    <2>1. /\ waiting_monitor_[t] = IF WaitsIn(l) THEN l.id ELSE NoId
          /\ t \notin cond_lock_ /\ t \notin signalled
      BY DEF Inv, WaitInv
    <2>2. /\ waiting_monitor_[t] = IF WaitsIn(k) THEN k.id ELSE NoId
          /\ k.pc \notin {"release", "signal", "unlock", "condWait", "waiting"}
      BY <2>1 DEF WaitsIn, UsingPcs
    <2> QED BY <2>1, <2>2, WaitStepInv DEF Inv, waits
  <1>10. HeavyInv'
    <2>1. m.waiters_counter_ \in Nat
      BY <1>3, CountNat
    <2>2. n.waiters_counter_ = m.waiters_counter_ + Num(WaitsIn(k)) - Num(WaitsIn(l))
                                                  + Num(BlocksIn(k)) - Num(BlocksIn(l))
      BY <1>6, <1>8, <2>1 DEF Num
    <2>3. OwnerStep(t, m, n) /\ OwnerOK(t, k, n)
      BY <1>5, <1>6 DEF OwnerStep, OwnerOK
    <2>4. ListStep(t, l, k, m, n)
      BY <1>2, <1>3, <1>6 DEF ListStep, ListsOK, Listed
    <2>5. \A u \in Threads \ {t} : Reached(u, m) => Reached(u, n)'
      <3>1. \A u \in Threads : At(u, "signal") => u # t /\ At(u, "signal")' /\ local'[u] = local[u]
        BY DEF At, Others
      <3>2. \A u \in Threads : ToBeSignalled(u) => ToBeSignalled(u)'
        BY <3>1 DEF ToBeSignalled
      <3> QED BY <1>6, <3>2 DEF Reached, Listed, waits
    <2>6. ~WaitsListed(k) /\ k.pc # "signal" /\ l.pc # "signal" /\ k.pc # "unlock"
      BY DEF WaitsListed
    <2>7. WakeStep(t, k, m, n)
      BY <1>5, <1>6, <2>6 DEF WakeStep
    <2>8. ShapeInv /\ HeavyInv /\ markWord_' = markWord_
      BY DEF Inv
    <2> QED BY <1>2, <1>3, <2>2, <2>3, <2>4, <2>5, <2>6, <2>7, <2>8, HeavyParts,
               ZenonT(60)
  <1>11. Hashers = {} => /\ \A u \in Threads \ {t} : Levels(u)' = Levels(u)
                         /\ LevelsOK(k, Levels(t)', depth'[t])
    <2> SUFFICES ASSUME Hashers = {}
                 PROVE  /\ \A u \in Threads \ {t} : Levels(u)' = Levels(u)
                        /\ LevelsOK(k, Levels(t)', depth'[t])
      OBVIOUS
    <2>1. \A u : Levels(u)' = Levels(u)
      BY <1>2, <1>6 DEF Levels, IsLightOf, TheMonitor
    <2>2. LevelsOK(l, Levels(t), depth[t])
      BY DEF Inv, LevelsInv
    <2>3. LevelsOK(k, Levels(t), depth'[t])
      <3>1. CASE k.pc = "waitEnd"
        <4>1. WaitsIn(k) /\ WaitsIn(l) /\ depth'[t] = depth[t] /\ k.counter = l.counter
          BY <3>1
        <4> QED BY <2>2, <3>1, <4>1 DEF LevelsOK
      <3>2. CASE k.pc # "waitEnd"
        <4>1. ~WaitsIn(k) /\ ~WaitsIn(l) /\ depth'[t] = depth[t] + 1
          BY <3>2 DEF WaitsIn, UsingPcs
        <4> QED BY <2>2, <3>2, <4>1 DEF LevelsOK
      <3> QED BY <3>1, <3>2
    <2> QED BY <2>1, <2>3
  <1>12. hashes' = hashes /\ monitor'[markWord_.id].hash_code_ = TheMonitor.hash_code_
    BY <1>2, <1>6
  <1>13. NeedsDepth(k) => depth'[t] > 0
    BY DEF NeedsDepth
  <1> QED BY <1>3, <1>7, <1>9, <1>10, <1>11, <1>12, <1>13, MonitorStep

(* Acquire returns: to Wait, or to MonitorEnter. *)
LEMMA AcquiredIs ==
  ASSUME Inv, NEW t \in Threads, NEW l, l = local[t], NEW k, k = local'[t],
         l.pc \in {"acquire", "owning"}, Acquired(t)
  PROVE  /\ Others(t) /\ \A u \in Threads \ {t} : depth'[u] = depth[u]
         /\ k.pc \in {"waitEnd", "idle", "hashSet"} /\ (WaitsIn(k) <=> WaitsIn(l))
         /\ k.pc = "waitEnd" => WaitsIn(k) /\ k.id = l.id /\ k.counter = l.counter
         /\ ~BlocksIn(k)
         /\ depth[t] \in Nat /\ depth'[t] = IF k.pc = "waitEnd" THEN depth[t] ELSE depth[t] + 1
         /\ Shape(t, k) /\ Placed(k) /\ ~HashKnown(k)
  <1>1. TypeOK /\ depth \in [Threads -> Nat] /\ Shape(t, l) /\ Placed(l)
    BY DEF Inv, TypeOK, ShapeInv, PlaceInv, Placed
  <1>2. l.op \in EnterOps \cup {"hashEnter", "wait"} /\ l.pc \in UsingPcs
    BY <1>1 DEF Shape, UsingPcs
  <1>3. CASE l.op = "wait"
    <2>1. Goto(t, "waitEnd") /\ depth' = depth
      BY <1>3 DEF Acquired
    <2>2. /\ Others(t) /\ k.pc = "waitEnd" /\ k.op = l.op /\ k.id = l.id
          /\ k.counter = l.counter /\ k.monitor_p = l.monitor_p
      BY <1>1, <2>1, Moves
    <2>3. WaitsIn(l) /\ WaitsIn(k) /\ ~BlocksIn(k)
      BY <1>2, <1>3, <2>2 DEF WaitsIn, UsingPcs, BlocksIn
    <2>4. Shape(t, k) /\ Placed(k) /\ ~HashKnown(k)
      BY <1>1, <1>2, <1>3, <2>2 DEF Shape, Placed, HashKnown, HashOps, UsingPcs, EnterOps
    <2> QED BY <1>1, <2>1, <2>2, <2>3, <2>4
  <1>4. CASE l.op \in EnterOps \cup {"hashEnter"}
    <2>1. Entered(t)
      BY <1>4 DEF Acquired, EnterOps
    <2>2. /\ Others(t) /\ \A u \in Threads \ {t} : depth'[u] = depth[u]
          /\ depth[t] \in Nat /\ depth'[t] = depth[t] + 1
          /\ k.pc \in {"idle", "hashSet"} /\ k.op \in {"none", "hash"}
          /\ Shape(t, k) /\ Placed(k) /\ ~HashKnown(k)
      BY <1>4, <2>1, EnteredIs
    <2>3. ~WaitsIn(l) /\ ~WaitsIn(k) /\ ~BlocksIn(k)
      BY <1>4, <2>2 DEF WaitsIn, UsingPcs, BlocksIn, EnterOps
    <2> QED BY <2>2, <2>3
  <1> QED BY <1>2, <1>3, <1>4

(* Acquire takes lock_ only when it is free, and counts itself while it is blocked. *)
LEMMA AcquireRest ==
  ASSUME Inv, NEW t \in Threads, Acquire(t) \/ AcquireBlocked(t) \/ AcquireReturn(t)
  PROVE  Rest'
  <1>0. PICK l, k : l = local[t] /\ k = local'[t]
    OBVIOUS
  <1>1. TypeOK /\ Shape(t, l) /\ Placed(l) /\ depth \in [Threads -> Nat] /\ l.pc \in UsingPcs
    BY <1>0 DEF Inv, TypeOK, ShapeInv, PlaceInv, Placed, Acquire, AcquireBlocked, AcquireReturn,
               At, UsingPcs
  <1>2. UNCHANGED <<markWord_, pool, waits, hashes>>
    BY DEF Acquire, AcquireBlocked, AcquireReturn
  <1>3. Mon(t) = TheMonitor /\ TheMonitor \in MonitorRecords /\ OwnersOK(TheMonitor)
    BY <1>0, <1>1, UsesIt
  <1>4. CASE /\ l.pc = "acquire" /\ Mon(t).owner_ = t
             /\ monitor' = [monitor EXCEPT ![l.id].recursive_counter_ = @ + 1]
             /\ Acquired(t)
    <2>1. l.op # "wait"
      BY <1>0, <1>3, <1>4 DEF OwnersOK, OwnerOK
    <2>2. /\ Others(t) /\ \A u \in Threads \ {t} : depth'[u] = depth[u]
          /\ k.pc \in {"waitEnd", "idle", "hashSet"} /\ (WaitsIn(k) <=> WaitsIn(l))
          /\ k.pc = "waitEnd" => WaitsIn(k)
          /\ depth[t] \in Nat /\ depth'[t] = IF k.pc = "waitEnd" THEN depth[t] ELSE depth[t] + 1
          /\ Shape(t, k) /\ Placed(k) /\ ~HashKnown(k)
      BY <1>0, <1>4, AcquiredIs
    <2>3. ~WaitsIn(l) /\ k.pc # "waitEnd"
      BY <2>1, <2>2 DEF WaitsIn
    <2>4. PICK c : c = Mon(t).recursive_counter_ + 1
      OBVIOUS
    <2>5. c \in Nat /\ c > 0 /\ (Mon(t).recursive_counter_ = depth[t] => c = depth'[t])
      BY <1>3, <2>2, <2>3, <2>4 DEF MonitorRecords
    <2>6. monitor' = [monitor EXCEPT ![l.id].recursive_counter_ = c]
      BY <1>0, <1>4, <2>4 DEF Mon
    <2>7. NeedsDepth(k) => depth'[t] > 0
      BY <2>2, <2>3
    <2> QED BY <1>0, <1>2, <1>4, <2>2, <2>3, <2>5, <2>6, <2>7, RecurseStep, ZenonT(60)
  <1>5. CASE l.pc = "acquire" /\ Mon(t).lock_ = NoThread /\ TakeLock(t) /\ Acquired(t)
    <2>1. /\ Others(t) /\ \A u \in Threads \ {t} : depth'[u] = depth[u]
          /\ k.pc \in {"waitEnd", "idle", "hashSet"} /\ (WaitsIn(k) <=> WaitsIn(l))
          /\ k.pc = "waitEnd" => WaitsIn(k) /\ k.id = l.id /\ k.counter = l.counter
          /\ ~BlocksIn(k)
          /\ depth[t] \in Nat /\ depth'[t] = IF k.pc = "waitEnd" THEN depth[t] ELSE depth[t] + 1
          /\ Shape(t, k) /\ Placed(k) /\ ~HashKnown(k)
      BY <1>0, <1>5, AcquiredIs
    <2>2. ~BlocksIn(l) /\ k.pc # "owning"
      BY <1>5, <2>1 DEF BlocksIn
    <2> QED BY <1>0, <1>2, <1>5, <2>1, <2>2, TakeStep, ZenonT(60)
  <1>6. CASE /\ l.pc = "acquire" /\ Mon(t).owner_ # t /\ Mon(t).lock_ # NoThread
             /\ monitor' = [monitor EXCEPT ![l.id].waiters_counter_ = @ + 1]
             /\ Goto(t, "blocked") /\ UNCHANGED depth
    <2>1. /\ Others(t) /\ k.pc = "blocked" /\ k.op = l.op /\ k.id = l.id
          /\ k.counter = l.counter /\ k.monitor_p = l.monitor_p
      BY <1>0, <1>1, <1>6, Moves
    <2> QED BY <1>0, <1>2, <1>6, <2>1, BlockStep
  <1>7. CASE AcquireBlocked(t)
    <2>1. l.pc = "blocked" /\ Mon(t).lock_ = NoThread /\ TakeLock(t) /\ Goto(t, "owning") /\ depth' = depth
      BY <1>0, <1>7 DEF AcquireBlocked, At
    <2>2. /\ Others(t) /\ k.pc = "owning" /\ k.op = l.op /\ k.id = l.id
          /\ k.counter = l.counter /\ k.monitor_p = l.monitor_p
      BY <1>0, <1>1, <2>1, Moves
    <2>3. Shape(t, k) /\ Placed(k) /\ ~HashKnown(k)
      BY <1>1, <2>1, <2>2 DEF Shape, Placed, HashKnown, HashOps, UsingPcs, EnterOps
    <2>4. (WaitsIn(k) <=> WaitsIn(l)) /\ (BlocksIn(k) <=> BlocksIn(l))
      BY <2>1, <2>2 DEF WaitsIn, BlocksIn, UsingPcs
    <2>5. depth[t] \in Nat /\ depth'[t] = depth[t] /\ \A u \in Threads \ {t} : depth'[u] = depth[u]
      BY <1>1, <2>1
    <2> QED BY <1>0, <1>2, <2>1, <2>2, <2>3, <2>4, <2>5, TakeStep
  <1>8. CASE AcquireReturn(t)
    <2>1. /\ l.pc = "owning" /\ monitor' = [monitor EXCEPT ![l.id].waiters_counter_ = @ - 1]
          /\ Acquired(t)
      BY <1>0, <1>8 DEF AcquireReturn, At
    <2>2. /\ Others(t) /\ \A u \in Threads \ {t} : depth'[u] = depth[u]
          /\ k.pc \in {"waitEnd", "idle", "hashSet"} /\ (WaitsIn(k) <=> WaitsIn(l))
          /\ k.pc = "waitEnd" => WaitsIn(k) /\ k.id = l.id /\ k.counter = l.counter
          /\ depth[t] \in Nat /\ depth'[t] = IF k.pc = "waitEnd" THEN depth[t] ELSE depth[t] + 1
          /\ Shape(t, k) /\ Placed(k) /\ ~HashKnown(k)
      BY <1>0, <2>1, AcquiredIs
    <2> QED BY <1>0, <1>2, <2>1, <2>2, UnblockStep
  <1>9. CASE Acquire(t) /\ local[t].op = "tryEnter" /\ Return(t) /\ UNCHANGED <<monitor, depth>>
    BY <1>9, TryFailedRest
  <1> QED BY <1>0, <1>4, <1>5, <1>6, <1>7, <1>8, <1>9 DEF Acquire, At

-----------------------------------------------------------------------------
(* Monitor::Release *)

(* A hash that a thread relies on is the object's. *)
LEMMA KnownHere ==
  ASSUME Inv, NEW t \in Threads, HashKnown(local[t])
  PROVE  TheMonitor.hash_code_ # NoHash
  <1>1. monitor[local[t].monitor_p].hash_code_ # NoHash /\ local[t].monitor_p # NoId
    BY DEF Inv, HashInv, HashKnown, ShapeInv, Shape
  <1>2. markWord_.id = local[t].monitor_p
    BY <1>1, MarksMade DEF Inv, PlaceInv
  <1> QED BY <1>1, <1>2 DEF TheMonitor

(* A thread of a list waits for this Monitor. *)
LEMMA ListedWaits ==
  ASSUME Inv, IsHeavy, NEW u \in Threads, Listed(u, TheMonitor)
  PROVE  WaitsIn(local[u]) /\ local[u].id = markWord_.id /\ waiting_monitor_[u] = markWord_.id
  <1>1. WaitsIn(local[u])
    BY DEF Inv, HeavyInv, ListsOK
  <1>2. markWord_ = Heavy(local[u].id)
    BY <1>1 DEF Inv, PlaceInv, WaitsIn
  <1>3. markWord_.id = local[u].id
    BY <1>2, MarksMade
  <1> QED BY <1>1, <1>3 DEF Inv, WaitInv

(* The last level is given up, and the front of to_wakeup_ is taken off. *)
LEMMA LastLevelStep ==
  ASSUME Inv, NEW t \in Threads, Others(t), NEW l, l = local[t], NEW k, k = local'[t],
         l.pc = "release", Mon(t).owner_ = t, Mon(t).recursive_counter_ = 1,
         NEW rest,
         monitor' = [monitor EXCEPT ![l.id].recursive_counter_ = 0, ![l.id].owner_ = NoThread,
                                    ![l.id].to_wakeup_ = rest],
         \/ Mon(t).to_wakeup_ = <<>> /\ rest = <<>> /\ k.pc = "unlock"
         \/ /\ Mon(t).to_wakeup_ # <<>> /\ rest = Tail(Mon(t).to_wakeup_)
            /\ k.pc = "signal" /\ k.other = Head(Mon(t).to_wakeup_),
         UNCHANGED <<markWord_, pool, waits, hashes>>,
         \A u \in Threads \ {t} : depth'[u] = depth[u],
         depth[t] \in Nat, depth'[t] = IF l.op = "wait" THEN depth[t] ELSE depth[t] - 1,
         k.op = l.op, k.id = l.id, k.counter = l.counter, k.monitor_p = l.monitor_p
  PROVE  Rest'
  <1>1. l.pc \in UsingPcs
    BY DEF UsingPcs
  <1>2. PICK i, m, n : i = l.id /\ m = TheMonitor /\ n = monitor'[markWord_.id]
    OBVIOUS
  <1>3. /\ IsHeavy /\ markWord_ = Heavy(i) /\ markWord_.id = i /\ i \in Ids
        /\ Mon(t) = m /\ m \in MonitorRecords /\ m = monitor[i]
        /\ \A j \in Ids : markWord_ # Heavy(j) => j # i
        /\ l.pc \notin InflatingPcs
        /\ CountOK(m) /\ OwnersOK(m) /\ ListsOK(m) /\ WakesOK(m)
    BY <1>1, <1>2, UsesIt DEF Mon
  <1>4. monitor \in [Ids -> MonitorRecords] /\ t # NoThread /\ Shape(t, l) /\ Placed(l)
    BY MonitorAssumption DEF Inv, TypeOK, MonitorAssumption, ShapeInv, PlaceInv, Placed
  <1>5. m.owner_ = t /\ m.lock_ = t /\ m.recursive_counter_ = 1
    BY <1>3, <1>4 DEF OwnersOK
  <1>6. /\ n.lock_ = t /\ n.owner_ = NoThread /\ n.recursive_counter_ = 0
        /\ n.waiters_ = m.waiters_ /\ n.to_wakeup_ = rest
        /\ n.waiters_counter_ = m.waiters_counter_ /\ n.hash_code_ = m.hash_code_
        /\ \A j \in Ids : j # i => monitor'[j] = monitor[j]
    BY <1>2, <1>3, <1>4, <1>5 DEF MonitorRecords
  <1>7. k.pc \in {"signal", "unlock"}
    OBVIOUS
  <1>8. Calm(t)
    BY <1>2, <1>3, <1>6, <1>7 DEF Calm, pool, InflatingPcs
  <1>9. (WaitsIn(k) <=> WaitsIn(l)) /\ ~BlocksIn(l) /\ ~BlocksIn(k) /\ (WaitsIn(l) <=> l.op = "wait")
    BY <1>1, <1>7 DEF WaitsIn, BlocksIn, UsingPcs
  <1>10. NoDup(m.to_wakeup_) /\ m.to_wakeup_ \in Seq(Threads)
    BY <1>3 DEF ListsOK, MonitorRecords
  <1>11. /\ NoDup(rest) /\ \A u : In(u, rest) => In(u, m.to_wakeup_)
         /\ \A u : In(u, m.to_wakeup_) => In(u, rest) \/ (k.pc = "signal" /\ k.other = u)
         /\ k.pc = "signal" => k.other \in Threads /\ In(k.other, m.to_wakeup_)
         /\ k.pc = "unlock" => rest = <<>>
    <2>1. CASE m.to_wakeup_ = <<>>
      BY <1>3, <2>1, InNone
    <2>2. CASE m.to_wakeup_ # <<>>
      <3> DEFINE w == k.other
      <3>1. rest = Tail(m.to_wakeup_) /\ w = Head(m.to_wakeup_) /\ k.pc = "signal"
        BY <1>3, <2>2
      <3>2. /\ w \in Threads /\ In(w, m.to_wakeup_) /\ NoDup(rest)
            /\ \A u : In(u, rest) <=> In(u, m.to_wakeup_) /\ u # w
        BY <1>10, <2>2, <3>1, InTail
      <3> QED BY <3>1, <3>2
    <2> QED BY <2>1, <2>2
  <1>12. l.op = "wait" => In(t, m.waiters_)
    BY <1>3 DEF ListsOK
  <1>13. ~In(t, m.to_wakeup_)
    BY <1>3, <1>9, <1>12 DEF ListsOK, Listed
  <1>14. k.pc = "signal" => k.other \in Threads /\ k.other # t /\ WaitsIn(local[k.other])
    BY <1>3, <1>11, <1>13 DEF ListsOK, Listed
  <1>15. WaitInv'
    <2>1. /\ waiting_monitor_[t] = IF WaitsIn(k) THEN k.id ELSE NoId
          /\ t \in cond_lock_ <=> WaitsIn(k)
          /\ t \notin signalled
      BY <1>9 DEF Inv, WaitInv
    <2> QED BY <1>7, <2>1, WaitStepInv DEF Inv, waits
  <1>16. HeavyInv'
    <2>1. m.waiters_counter_ \in Nat
      BY <1>3, CountNat
    <2>2. n.waiters_counter_ = m.waiters_counter_ + Num(WaitsIn(k)) - Num(WaitsIn(l))
                                                  + Num(BlocksIn(k)) - Num(BlocksIn(l))
      BY <1>6, <1>9, <2>1, SMTT(30) DEF Num
    <2>3. OwnerStep(t, m, n) /\ OwnerOK(t, k, n)
      BY <1>5, <1>6, <1>7 DEF OwnerStep, OwnerOK
    <2>4. ListStep(t, l, k, m, n)
      BY <1>2, <1>3, <1>6, <1>7, <1>9, <1>11 DEF ListStep, ListsOK, Listed
    <2>5. ASSUME NEW u \in Threads, Reached(u, m)
          PROVE  Reached(u, n)'
      <3>1. CASE In(u, m.to_wakeup_) /\ ~In(u, rest)
        <4>1. At(t, "signal")' /\ local'[t].other = u
          BY <1>11, <3>1 DEF At
        <4> QED BY <4>1 DEF Reached, ToBeSignalled
      <3>2. CASE ToBeSignalled(u)
        <4>1. PICK v \in Threads : At(v, "signal") /\ local[v].other = u
          BY <3>2 DEF ToBeSignalled
        <4>2. At(v, "signal")' /\ local'[v].other = u
          BY <4>1 DEF At, Others
        <4> QED BY <4>2 DEF Reached, ToBeSignalled
      <3>3. CASE Listed(u, n) \/ u \in signalled
        BY <3>3 DEF Reached, waits
      <3> QED BY <1>6, <2>5, <3>1, <3>2, <3>3 DEF Reached, Listed
    <2>6. WaitsListed(k) => Reached(t, n)'
      BY <1>6, <1>12 DEF WaitsListed, Reached, Listed
    <2>7. WakeStep(t, k, m, n)
      BY <1>6, <1>7, <1>11 DEF WakeStep
    <2>8. ShapeInv /\ HeavyInv /\ markWord_' = markWord_
      BY DEF Inv
    <2> QED BY <1>2, <1>3, <1>9, <1>14, <2>2, <2>3, <2>4, <2>5, <2>6, <2>7, <2>8, HeavyParts,
               ZenonT(60)
  <1>17. Hashers = {} => /\ \A u \in Threads \ {t} : Levels(u)' = Levels(u)
                         /\ LevelsOK(k, Levels(t)', depth'[t])
    <2> SUFFICES ASSUME Hashers = {}
                 PROVE  /\ \A u \in Threads \ {t} : Levels(u)' = Levels(u)
                        /\ LevelsOK(k, Levels(t)', depth'[t])
      OBVIOUS
    <2>1. markWord_.state = "HEAVY_LOCKED" /\ \A u \in Threads : u # NoThread
      BY <1>3, MonitorAssumption DEF IsHeavy, MonitorAssumption
    <2>2. \A u \in Threads : Levels(u)' = 0 /\ Levels(u) = IF u = t THEN 1 ELSE 0
      <3>1. /\ monitor[markWord_.id].owner_ = t /\ monitor[markWord_.id].recursive_counter_ = 1
            /\ monitor'[markWord_.id].owner_ = NoThread
        BY <1>2, <1>3, <1>5, <1>6
      <3>2. \A u \in Threads : Levels(u)' = 0
        BY <2>1, <3>1 DEF Levels, IsLightOf
      <3>3. \A u \in Threads : Levels(u) = IF u = t THEN 1 ELSE 0
        BY <2>1, <3>1 DEF Levels, IsLightOf
      <3> QED BY <3>2, <3>3
    <2>3. LevelsOK(l, 1, depth[t])
      BY <2>2 DEF Inv, LevelsInv
    <2>4. LevelsOK(k, 0, depth'[t])
      BY <1>7, <1>9, <2>3 DEF LevelsOK
    <2> QED BY <2>2, <2>4
  <1>18. hashes' = hashes /\ monitor'[markWord_.id].hash_code_ = TheMonitor.hash_code_
    BY <1>2, <1>6
  <1>19. Shape(t, k) /\ Placed(k) /\ ~NeedsDepth(k)
    BY <1>2, <1>3, <1>4, <1>7, <1>14 DEF Shape, Placed, NeedsDepth, HashOps, UsingPcs, EnterOps
  <1>20. HashKnown(k) => TheMonitor.hash_code_ # NoHash
    <2>1. HashKnown(k) => HashKnown(l)
      BY <1>7 DEF HashKnown
    <2> QED BY <2>1, KnownHere
  <1> QED BY <1>3, <1>8, <1>15, <1>16, <1>17, <1>18, <1>19, <1>20, MonitorStep

(* A step inside Release or Wait that changes of the Monitor lock_ at most. *)
LEMMA StayStep ==
  ASSUME Inv, NEW t \in Threads, Others(t), NEW l, l = local[t], NEW k, k = local'[t],
         l.pc \in {"signal", "unlock", "condWait", "waiting"},
         k.pc \in {"unlock", "idle", "hashReturn", "condWait", "waiting", "acquire"},
         WaitsIn(k) <=> WaitsIn(l), WaitsIn(k) => k.counter = l.counter,
         NEW v, v = Mon(t).lock_ \/ (l.pc = "unlock" /\ v = NoThread),
         monitor' = [monitor EXCEPT ![l.id].lock_ = v],
         UNCHANGED <<markWord_, pool, depth, hashes>>,
         k.pc = "unlock" => l.pc = "signal", k.pc = "acquire" => l.op = "wait" /\ l.pc = "waiting",
         k.op = "wait" => l.op = "wait",
         WaitInv', signalled \subseteq signalled' \cup {t},
         k.pc \notin {"acquire"} => signalled \subseteq signalled',
         l.pc = "signal" => k.pc = "unlock" /\ \A u \in Threads : WaitsListed(local[u]) /\ l.other = u => u \in signalled',
         k.pc = "unlock" => \E u \in Threads : Coming(u)',
         Shape(t, k), Placed(k), ~NeedsDepth(k), HashKnown(k) => HashKnown(l)
  PROVE  Rest'
  <1>1. l.pc \in UsingPcs
    BY DEF UsingPcs
  <1>2. PICK i, m, n : i = l.id /\ m = TheMonitor /\ n = monitor'[markWord_.id]
    OBVIOUS
  <1>3. /\ IsHeavy /\ markWord_ = Heavy(i) /\ markWord_.id = i /\ i \in Ids
        /\ Mon(t) = m /\ m \in MonitorRecords /\ m = monitor[i]
        /\ \A j \in Ids : markWord_ # Heavy(j) => j # i
        /\ l.pc \notin InflatingPcs
        /\ CountOK(m) /\ OwnersOK(m) /\ ListsOK(m) /\ WakesOK(m)
    BY <1>1, <1>2, UsesIt DEF Mon
  <1>4. monitor \in [Ids -> MonitorRecords] /\ t # NoThread
    BY MonitorAssumption DEF Inv, TypeOK, MonitorAssumption
  <1>5. /\ n.lock_ = v /\ n.owner_ = m.owner_ /\ n.recursive_counter_ = m.recursive_counter_
        /\ n.waiters_ = m.waiters_ /\ n.to_wakeup_ = m.to_wakeup_
        /\ n.waiters_counter_ = m.waiters_counter_ /\ n.hash_code_ = m.hash_code_
        /\ \A j \in Ids : j # i => monitor'[j] = monitor[j]
    BY <1>2, <1>3, <1>4 DEF MonitorRecords
  <1>6. Calm(t)
    BY <1>2, <1>3, <1>5 DEF Calm, pool, InflatingPcs
  <1>7. ~BlocksIn(l) /\ ~BlocksIn(k)
    BY DEF BlocksIn
  <1>8. l.pc \in {"signal", "unlock"} => m.lock_ = t /\ m.owner_ = NoThread /\ m.recursive_counter_ = 0
    BY <1>3 DEF OwnersOK, OwnerOK
  <1>9. HeavyInv'
    <2>1. m.waiters_counter_ \in Nat
      BY <1>3, CountNat
    <2>2. n.waiters_counter_ = m.waiters_counter_ + Num(WaitsIn(k)) - Num(WaitsIn(l))
                                                  + Num(BlocksIn(k)) - Num(BlocksIn(l))
      BY <1>5, <1>7, <2>1 DEF Num
    <2>3. OwnerStep(t, m, n)
      BY <1>3, <1>5, <1>8 DEF OwnerStep
    <2>4. OwnerOK(t, k, n)
      <3>1. l.op = "wait" => m.owner_ # t
        BY <1>3, <1>4 DEF OwnersOK, OwnerOK
      <3>2. k.pc = "unlock" => n.lock_ = t /\ n.owner_ = NoThread
        BY <1>3, <1>5, <1>8
      <3> QED BY <1>5, <3>1, <3>2 DEF OwnerOK
    <2>5. ListStep(t, l, k, m, n)
      BY <1>2, <1>3, <1>5 DEF ListStep, ListsOK, Listed
    <2>6. ASSUME NEW u \in Threads, WaitsListed(local[u]), Reached(u, m), u = t => k.pc # "acquire"
          PROVE  Reached(u, n)'
      <3>1. CASE ToBeSignalled(u)
        <4>1. PICK x \in Threads : At(x, "signal") /\ local[x].other = u
          BY <3>1 DEF ToBeSignalled
        <4>2. CASE x = t
          BY <2>6, <4>1, <4>2 DEF At, Reached
        <4>3. CASE x # t
          <5>1. At(x, "signal")' /\ local'[x].other = u
            BY <4>1, <4>3 DEF At, Others
          <5> QED BY <5>1 DEF Reached, ToBeSignalled
        <4> QED BY <4>2, <4>3
      <3>2. CASE Listed(u, m)
        BY <1>5, <3>2 DEF Reached, Listed
      <3>3. CASE u \in signalled
        BY <2>6, <3>3 DEF Reached
      <3> QED BY <2>6, <3>1, <3>2, <3>3 DEF Reached
    <2>7. WaitsListed(k) => Reached(t, n)'
      <3> SUFFICES ASSUME WaitsListed(k)
                   PROVE  Reached(t, n)'
        OBVIOUS
      <3>1. WaitsListed(l) /\ k.pc # "acquire"
        BY DEF WaitsListed
      <3>2. Reached(t, m)
        BY <1>3, <3>1 DEF ListsOK, WaitsListed, Reached
      <3> QED BY <2>6, <3>1, <3>2
    <2>8. WakeStep(t, k, m, n)
      <3>1. CASE k.pc = "unlock"
        BY <3>1 DEF WakeStep
      <3>2. CASE k.pc # "unlock"
        <4>1. ASSUME NEW u \in Threads, Coming(u)
              PROVE  Coming(u)'
          <5>1. CASE u = t
            <6>1. t \in signalled /\ l.pc = "waiting"
              BY <4>1, <5>1 DEF Coming, Inv, WaitInv
            <6>2. WaitsIn(k)
              BY <4>1, <5>1 DEF Coming
            <6>3. t \in signalled' \/ k.pc = "acquire"
              BY <6>1
            <6> QED BY <5>1, <6>2, <6>3 DEF Coming
          <5>2. CASE u # t
            BY <4>1, <5>2 DEF Coming, Others
          <5> QED BY <5>1, <5>2
        <4> QED BY <1>3, <1>5, <3>2, <4>1 DEF WakeStep
      <3> QED BY <3>1, <3>2
    <2>9. ShapeInv /\ HeavyInv /\ markWord_' = markWord_
      BY DEF Inv
    <2>10. k.pc # "signal"
      OBVIOUS
    <2> QED BY <1>2, <1>3, <2>2, <2>3, <2>4, <2>5, <2>6, <2>7, <2>8, <2>9, <2>10, HeavyParts
  <1>10. Hashers = {} => /\ \A u \in Threads \ {t} : Levels(u)' = Levels(u)
                         /\ LevelsOK(k, Levels(t)', depth'[t])
    <2> SUFFICES ASSUME Hashers = {}
                 PROVE  /\ \A u \in Threads \ {t} : Levels(u)' = Levels(u)
                        /\ LevelsOK(k, Levels(t)', depth'[t])
      OBVIOUS
    <2>1. \A u : Levels(u)' = Levels(u)
      BY <1>2, <1>5 DEF Levels, IsLightOf, TheMonitor
    <2>2. LevelsOK(l, Levels(t), depth[t])
      BY DEF Inv, LevelsInv
    <2>3. LevelsOK(k, Levels(t), depth[t])
      BY <2>2 DEF LevelsOK
    <2> QED BY <2>1, <2>3
  <1>11. hashes' = hashes /\ monitor'[markWord_.id].hash_code_ = TheMonitor.hash_code_
    BY <1>2, <1>5
  <1>12. HashKnown(k) => TheMonitor.hash_code_ # NoHash
    BY KnownHere
  <1>13. \A u \in Threads \ {t} : depth'[u] = depth[u]
    OBVIOUS
  <1> QED BY <1>3, <1>6, <1>9, <1>10, <1>11, <1>12, <1>13, MonitorStep

(* Release returns: to MonitorExit, to GetHashCode or to Wait. *)
LEMMA ReleasedIs ==
  ASSUME Inv, NEW t \in Threads, NEW l, l = local[t], NEW k, k = local'[t],
         l.pc \in {"release", "unlock"}, Released(t)
  PROVE  /\ Others(t) /\ k.pc \in {"idle", "hashReturn", "condWait"}
         /\ k.pc = "condWait" <=> l.op = "wait"
         /\ WaitsIn(k) <=> WaitsIn(l)
         /\ WaitsIn(k) => k.counter = l.counter /\ k.id = l.id
         /\ k.op = "wait" => l.op = "wait"
         /\ Shape(t, k) /\ Placed(k) /\ ~NeedsDepth(k) /\ (HashKnown(k) => HashKnown(l))
  <1>1. TypeOK /\ local \in [Threads -> Locals] /\ Shape(t, l) /\ Placed(l) /\ l.pc \in UsingPcs
    BY DEF Inv, TypeOK, ShapeInv, PlaceInv, Placed, UsingPcs
  <1>2. CASE l.op = "exit" /\ Return(t)
    <2>1. Others(t) /\ k = IdleLocal
      BY <1>1, <1>2, Moves
    <2>2. k.pc = "idle" /\ k.op = "none" /\ k.monitor_p = NoId /\ Shape(t, k)
      BY <2>1, IdleIs
    <2> QED BY <1>2, <2>1, <2>2 DEF Placed, HashKnown, UsingPcs, WaitsIn, NeedsDepth
  <1>3. CASE /\ l.op = "hashExit"
             /\ local' = [local EXCEPT ![t].pc = "hashReturn", ![t].op = "hash"]
    <2>1. Others(t) /\ k.pc = "hashReturn" /\ k.op = "hash" /\ k.monitor_p = l.monitor_p
      BY <1>1, <1>3 DEF Others, Locals
    <2> QED BY <1>1, <1>3, <2>1
           DEF Shape, Placed, HashKnown, UsingPcs, HashOps, EnterOps, WaitsIn, NeedsDepth
  <1>4. CASE l.op = "wait" /\ Goto(t, "condWait")
    <2>1. /\ Others(t) /\ k.pc = "condWait" /\ k.op = l.op /\ k.id = l.id
          /\ k.counter = l.counter /\ k.monitor_p = l.monitor_p
      BY <1>1, <1>4, Moves
    <2> QED BY <1>1, <1>4, <2>1
           DEF Shape, Placed, HashKnown, UsingPcs, HashOps, EnterOps, WaitsIn, NeedsDepth
  <1> QED BY <1>2, <1>3, <1>4 DEF Released

(* Release of one level, or of the last one with the choice of the thread to signal. *)
LEMMA ReleaseRest ==
  ASSUME Inv, NEW t \in Threads, Release(t)
  PROVE  Rest'
  <1>0. PICK l, k : l = local[t] /\ k = local'[t]
    OBVIOUS
  <1>1. /\ TypeOK /\ local \in [Threads -> Locals] /\ depth \in [Threads -> Nat]
        /\ monitor \in [Ids -> MonitorRecords]
        /\ Shape(t, l) /\ (NeedsDepth(l) => depth[t] > 0)
    BY <1>0 DEF Inv, TypeOK, ShapeInv
  <1>2. l.pc = "release" /\ l.pc \in UsingPcs /\ l.op \in {"exit", "hashExit", "wait"} /\ Mon(t).owner_ = t
    BY <1>0, <1>1 DEF Release, At, UsingPcs, Shape
  <1>3. UNCHANGED <<markWord_, pool, waits, hashes>>
    BY DEF Release
  <1>4. /\ IsHeavy /\ markWord_.id = l.id /\ Mon(t) = TheMonitor /\ TheMonitor \in MonitorRecords
        /\ OwnersOK(TheMonitor) /\ l.id \in Ids
    BY <1>0, <1>2, UsesIt
  <1>5. /\ depth[t] \in Nat /\ \A u \in Threads \ {t} : depth'[u] = depth[u]
        /\ depth'[t] = IF l.op = "wait" THEN depth[t] ELSE depth[t] - 1
        /\ l.op # "wait" => depth[t] > 0
    BY <1>0, <1>1, <1>2 DEF Release, NeedsDepth
  <1>6. CASE /\ Mon(t).recursive_counter_ > 1
             /\ monitor' = [monitor EXCEPT ![l.id].recursive_counter_ = @ - 1]
             /\ Released(t)
    <2>1. l.op # "wait"
      BY <1>0, <1>2, <1>4, <1>6 DEF OwnersOK, OwnerOK, MonitorRecords
    <2>2. /\ Others(t) /\ k.pc \in {"idle", "hashReturn", "condWait"}
          /\ k.pc = "condWait" <=> l.op = "wait"
          /\ Shape(t, k) /\ Placed(k) /\ ~NeedsDepth(k) /\ (HashKnown(k) => HashKnown(l))
      BY <1>0, <1>2, <1>6, ReleasedIs
    <2>3. PICK c : c = Mon(t).recursive_counter_ - 1
      OBVIOUS
    <2>4. c \in Nat /\ c > 0 /\ (Mon(t).recursive_counter_ = depth[t] => c = depth'[t])
      BY <1>4, <1>5, <1>6, <2>1, <2>3 DEF MonitorRecords
    <2>5. monitor' = [monitor EXCEPT ![l.id].recursive_counter_ = c]
      BY <1>0, <1>6, <2>3 DEF Mon
    <2>6. ~WaitsIn(l) /\ k.pc \in {"idle", "hashSet", "hashReturn"}
      BY <2>1, <2>2 DEF WaitsIn
    <2> QED BY <1>0, <1>2, <1>3, <1>5, <2>2, <2>4, <2>5, <2>6, RecurseStep
  <1>7. CASE /\ Mon(t).recursive_counter_ = 1
             /\ monitor' = [monitor EXCEPT
                  ![l.id].recursive_counter_ = 0, ![l.id].owner_ = NoThread,
                  ![l.id].to_wakeup_ = IF FrontToWakeup(t) = NoThread THEN @ ELSE Tail(@)]
             /\ IF FrontToWakeup(t) # NoThread /\ waiting_monitor_[FrontToWakeup(t)] = l.id
                THEN local' = [local EXCEPT ![t].pc = "signal", ![t].other = FrontToWakeup(t)]
                ELSE Goto(t, "unlock")
    <2>1. PICK list, w : list = Mon(t).to_wakeup_ /\ w = FrontToWakeup(t)
      OBVIOUS
    <2>2. list \in Seq(Threads) /\ NoDup(list) /\ ListsOK(TheMonitor)
      BY <1>4, <2>1 DEF MonitorRecords, Inv, HeavyInv, ListsOK
    <2>3. CASE list = <<>>
      <3>1. w = NoThread
        BY <2>1, <2>3 DEF FrontToWakeup
      <3>2. monitor' = [monitor EXCEPT ![l.id].recursive_counter_ = 0, ![l.id].owner_ = NoThread,
                                       ![l.id].to_wakeup_ = list]
        BY <1>0, <1>7, <2>1, <3>1 DEF Mon
      <3>3. Goto(t, "unlock")
        BY <1>7, <2>1, <3>1
      <3>4. /\ Others(t) /\ k.pc = "unlock" /\ k.op = l.op /\ k.id = l.id
            /\ k.counter = l.counter /\ k.monitor_p = l.monitor_p
        BY <1>0, <1>1, <3>3, Moves
      <3>5. Mon(t).recursive_counter_ = 1 /\ Mon(t).to_wakeup_ = <<>> /\ list = <<>>
        BY <1>7, <2>1, <2>3
      <3> QED BY <1>0, <1>2, <1>3, <1>5, <3>2, <3>4, <3>5, LastLevelStep, ZenonT(60)
    <2>4. CASE list # <<>>
      <3>1. w = Head(list) /\ w \in Threads /\ In(w, list)
        BY <2>1, <2>2, <2>4, InTail DEF FrontToWakeup
      <3>2. w # NoThread
        BY <3>1, MonitorAssumption DEF MonitorAssumption
      <3>3. Listed(w, TheMonitor)
        BY <1>4, <2>1, <3>1 DEF Listed
      <3>4. waiting_monitor_[w] = l.id
        BY <1>4, <3>1, <3>3, ListedWaits
      <3>5. PICK rest : rest = Tail(list)
        OBVIOUS
      <3>6. monitor' = [monitor EXCEPT ![l.id].recursive_counter_ = 0, ![l.id].owner_ = NoThread,
                                       ![l.id].to_wakeup_ = rest]
        BY <1>0, <1>7, <2>1, <3>2, <3>5 DEF Mon
      <3>7. local' = [local EXCEPT ![t].pc = "signal", ![t].other = w]
        BY <1>7, <2>1, <3>2, <3>4
      <3>8. /\ Others(t) /\ k.pc = "signal" /\ k.other = w /\ k.op = l.op /\ k.id = l.id
            /\ k.counter = l.counter /\ k.monitor_p = l.monitor_p
        BY <1>0, <1>1, <3>7 DEF Others, Locals
      <3>9. /\ Mon(t).recursive_counter_ = 1
            /\ Mon(t).to_wakeup_ # <<>> /\ rest = Tail(Mon(t).to_wakeup_)
            /\ k.pc = "signal" /\ k.other = Head(Mon(t).to_wakeup_)
        BY <1>7, <2>1, <2>4, <3>1, <3>5, <3>8
      <3> QED BY <1>0, <1>2, <1>3, <1>5, <3>6, <3>8, <3>9, LastLevelStep, ZenonT(60)
    <2> QED BY <2>3, <2>4
  <1> QED BY <1>0, <1>6, <1>7 DEF Release

(* The signalled thread is coming. *)
LEMMA SignalRest ==
  ASSUME Inv, NEW t \in Threads, ReleaseSignal(t)
  PROVE  Rest'
  <1>0. PICK l, k, o : l = local[t] /\ k = local'[t] /\ o = l.other
    OBVIOUS
  <1>1. TypeOK /\ Shape(t, l) /\ Placed(l) /\ WaitInv
    BY <1>0 DEF Inv, TypeOK, ShapeInv, PlaceInv, Placed
  <1>2. /\ l.pc = "signal" /\ l.pc \in UsingPcs /\ o \in Threads /\ o \notin cond_lock_
        /\ l.op \in {"exit", "hashExit", "wait"}
    BY <1>0, <1>1 DEF ReleaseSignal, At, UsingPcs, Shape
  <1>3. /\ UNCHANGED <<markWord_, pool, monitor, depth, waiting_monitor_, cond_lock_, hashes>>
        /\ signalled' = IF At(o, "waiting") THEN signalled \cup {o} ELSE signalled
    BY <1>0 DEF ReleaseSignal, Wakes
  <1>4. /\ Others(t) /\ k.pc = "unlock" /\ k.op = l.op /\ k.id = l.id
        /\ k.counter = l.counter /\ k.monitor_p = l.monitor_p
    BY <1>0, <1>1, Moves DEF ReleaseSignal
  <1>5. Mon(t) = TheMonitor /\ OwnersOK(TheMonitor) /\ WakesOK(TheMonitor) /\ Mon(t) = monitor[l.id]
        /\ monitor \in [Ids -> MonitorRecords] /\ l.id \in Ids
    BY <1>0, <1>1, <1>2, UsesIt DEF Mon, TypeOK
  <1>6. o # t /\ WaitsIn(local[o]) /\ local'[o] = local[o]
    BY <1>0, <1>2, <1>4, <1>5 DEF WakesOK, At, Others
  <1>7. TheMonitor.owner_ = NoThread /\ o # NoThread
    BY <1>0, <1>2, <1>5, MonitorAssumption DEF OwnersOK, OwnerOK, MonitorAssumption
  <1>8. local[o].pc \in {"acquire", "blocked", "waiting"}
    BY <1>1, <1>2, <1>5, <1>6, <1>7 DEF WaitInv, WaitsIn, UsingPcs, OwnersOK, OwnerOK
  <1>9. Coming(o)'
    BY <1>3, <1>6, <1>8 DEF Coming, At
  <1>10. WaitsIn(k) <=> WaitsIn(l)
    BY <1>2, <1>4 DEF WaitsIn, UsingPcs
  <1>11. WaitInv'
    <2>1. /\ waiting_monitor_[t] = IF WaitsIn(k) THEN k.id ELSE NoId
          /\ t \in cond_lock_ <=> WaitsIn(k)
          /\ t \notin signalled'
      BY <1>0, <1>1, <1>2, <1>3, <1>4, <1>6, <1>10 DEF WaitInv
    <2>2. \A u \in Threads \ {t} :
            u \in signalled' => u \in signalled \/ (WaitsIn(local[u]) /\ local[u].pc = "waiting")
      BY <1>3, <1>6 DEF At
    <2> QED BY <1>0, <1>1, <1>3, <1>4, <2>1, <2>2, WaitStepInv
  <1>12. monitor' = [monitor EXCEPT ![l.id].lock_ = Mon(t).lock_]
    BY <1>3, <1>5 DEF MonitorRecords
  <1>13. Shape(t, k) /\ Placed(k) /\ ~NeedsDepth(k) /\ (HashKnown(k) => HashKnown(l))
    BY <1>1, <1>2, <1>4
       DEF Shape, Placed, NeedsDepth, HashKnown, HashOps, UsingPcs, EnterOps
  <1>14. \A u \in Threads : WaitsListed(local[u]) /\ l.other = u => u \in signalled'
    BY <1>0, <1>3, <1>8 DEF WaitsListed, At
  <1>15. signalled \subseteq signalled'
    BY <1>3
  <1> QED BY <1>0, <1>2, <1>3, <1>4, <1>9, <1>10, <1>11, <1>12, <1>13, <1>14, <1>15, StayStep,
             ZenonT(60)

(* lock_ is free: somebody is coming if notified threads are left. *)
LEMMA UnlockRest ==
  ASSUME Inv, NEW t \in Threads, ReleaseUnlock(t)
  PROVE  Rest'
  <1>0. PICK l, k : l = local[t] /\ k = local'[t]
    OBVIOUS
  <1>1. /\ l.pc = "unlock" /\ monitor' = [monitor EXCEPT ![l.id].lock_ = NoThread]
        /\ Released(t) /\ UNCHANGED <<markWord_, pool, depth, waits, hashes>> /\ WaitInv
    BY <1>0 DEF ReleaseUnlock, At, Inv
  <1>2. /\ Others(t) /\ k.pc \in {"idle", "hashReturn", "condWait"}
        /\ k.pc = "condWait" <=> l.op = "wait"
        /\ WaitsIn(k) <=> WaitsIn(l)
        /\ WaitsIn(k) => k.counter = l.counter /\ k.id = l.id
        /\ k.op = "wait" => l.op = "wait"
        /\ Shape(t, k) /\ Placed(k) /\ ~NeedsDepth(k) /\ (HashKnown(k) => HashKnown(l))
    BY <1>0, <1>1, ReleasedIs
  <1>3. WaitInv'
    <2>1. /\ waiting_monitor_[t] = IF WaitsIn(k) THEN k.id ELSE NoId
          /\ t \in cond_lock_ <=> WaitsIn(k)
          /\ t \notin signalled
      BY <1>0, <1>1, <1>2 DEF WaitInv
    <2>2. WaitsIn(k) => k.pc = "condWait"
      BY <1>2 DEF WaitsIn
    <2> QED BY <1>0, <1>1, <1>2, <2>1, <2>2, WaitStepInv DEF waits
  <1>4. signalled' = signalled
    BY <1>1 DEF waits
  <1> QED BY <1>0, <1>1, <1>2, <1>3, <1>4, StayStep

(* The wait on cond_var_ begins and ends. *)
LEMMA CondWaitRest ==
  ASSUME Inv, NEW t \in Threads, CondWait(t) \/ Awake(t)
  PROVE  Rest'
  <1>0. PICK l, k : l = local[t] /\ k = local'[t]
    OBVIOUS
  <1>1. /\ TypeOK /\ Shape(t, l) /\ Placed(l) /\ WaitInv /\ monitor \in [Ids -> MonitorRecords]
    BY <1>0 DEF Inv, TypeOK, ShapeInv, PlaceInv, Placed
  <1>2. /\ l.pc \in {"condWait", "waiting"} /\ l.pc \in UsingPcs /\ l.op = "wait"
    BY <1>0, <1>1 DEF CondWait, Awake, At, UsingPcs, Shape
  <1>3. Goto(t, IF l.pc = "condWait" THEN "waiting" ELSE "acquire")
    BY <1>0 DEF CondWait, Awake, At
  <1>4. /\ Others(t) /\ k.pc = (IF l.pc = "condWait" THEN "waiting" ELSE "acquire")
        /\ k.op = l.op /\ k.id = l.id
        /\ k.counter = l.counter /\ k.monitor_p = l.monitor_p
    BY <1>0, <1>1, <1>3, Moves
  <1>5. /\ UNCHANGED <<markWord_, pool, monitor, depth, waiting_monitor_, hashes>>
        /\ l.pc = "condWait" => cond_lock_' = cond_lock_ \ {t} /\ signalled' = signalled
        /\ l.pc = "waiting" => cond_lock_' = cond_lock_ /\ signalled' = signalled \ {t}
    BY <1>0 DEF CondWait, Awake, At
  <1>6. WaitsIn(k) /\ WaitsIn(l)
    BY <1>2, <1>4 DEF WaitsIn, UsingPcs
  <1>7. WaitInv'
    <2>1. /\ waiting_monitor_[t] = k.id
          /\ t \notin cond_lock_'
          /\ t \in signalled' => k.pc = "waiting"
      BY <1>0, <1>1, <1>2, <1>4, <1>5, <1>6 DEF WaitInv
    <2>2. \A u \in Threads \ {t} : /\ u \in cond_lock_' <=> u \in cond_lock_
                                   /\ u \in signalled' <=> u \in signalled
      BY <1>2, <1>5
    <2> QED BY <1>0, <1>1, <1>2, <1>4, <1>5, <1>6, <2>1, <2>2, WaitStepInv
  <1>8. monitor' = [monitor EXCEPT ![l.id].lock_ = Mon(t).lock_]
    <2>1. Mon(t) = monitor[l.id] /\ l.id \in Ids
      BY <1>0, <1>2, UsesIt DEF Mon
    <2> QED BY <1>1, <1>5, <2>1 DEF MonitorRecords
  <1>9. Shape(t, k) /\ Placed(k) /\ ~NeedsDepth(k) /\ ~HashKnown(k)
    BY <1>1, <1>2, <1>4
       DEF Shape, Placed, NeedsDepth, HashKnown, HashOps, UsingPcs, EnterOps
  <1>10. signalled \subseteq signalled' \cup {t} /\ (k.pc # "acquire" => signalled \subseteq signalled')
    BY <1>2, <1>4, <1>5
  <1> QED BY <1>0, <1>2, <1>4, <1>5, <1>6, <1>7, <1>8, <1>9, <1>10, StayStep

-----------------------------------------------------------------------------
(* Monitor::Wait *)

(* A thread joins the waiters. *)
LEMMA EnlistRest ==
  ASSUME Inv, NEW t \in Threads, WaitEnlist(t)
  PROVE  Rest'
  <1>2. PICK i, m, n, l, k : /\ i = markWord_.id /\ m = TheMonitor /\ n = monitor'[markWord_.id]
                             /\ l = local[t] /\ k = local'[t]
    OBVIOUS
  <1>3. /\ l.pc = "wait" /\ IsHeavy /\ m = monitor[i] /\ m.owner_ = t
        /\ local' = [local EXCEPT ![t].pc = "release", ![t].id = i,
                                  ![t].counter = m.recursive_counter_]
        /\ monitor' = [monitor EXCEPT ![i].waiters_ = <<t>> \o @,
                                      ![i].recursive_counter_ = 1,
                                      ![i].waiters_counter_ = @ + 1]
        /\ waiting_monitor_' = [waiting_monitor_ EXCEPT ![t] = i]
        /\ cond_lock_' = cond_lock_ \cup {t}
        /\ UNCHANGED <<markWord_, pool, depth, signalled, hashes>>
    BY <1>2 DEF WaitEnlist, At, IsHeavy, TheMonitor, LockCond
  <1>4. /\ monitor \in [Ids -> MonitorRecords] /\ t # NoThread /\ Shape(t, l) /\ markWord_ \in Marks
        /\ local \in [Threads -> Locals] /\ WaitInv /\ depth \in [Threads -> Nat]
        /\ waiting_monitor_ \in [Threads -> Ids \cup {NoId}]
    BY <1>2, MonitorAssumption DEF Inv, TypeOK, MonitorAssumption, ShapeInv
  <1>5. markWord_ = Heavy(i) /\ i \in Ids /\ \A j \in Ids : markWord_ # Heavy(j) => j # i
    BY <1>2, <1>3, <1>4, MarkFields DEF IsHeavy
  <1>6. CountOK(m) /\ OwnersOK(m) /\ ListsOK(m) /\ WakesOK(m) /\ m \in MonitorRecords
    BY <1>2, <1>3, <1>4, <1>5 DEF Inv, HeavyInv
  <1>7. m.lock_ = t /\ m.recursive_counter_ > 0 /\ m.recursive_counter_ \in Nat
        /\ m.waiters_ \in Seq(Threads) /\ m.waiters_counter_ \in Nat
    BY <1>3, <1>4, <1>6 DEF OwnersOK, MonitorRecords
  <1>8. /\ Others(t) /\ k.pc = "release" /\ k.id = i /\ k.counter = m.recursive_counter_
        /\ k.op = l.op /\ k.monitor_p = l.monitor_p /\ l.op = "wait"
    BY <1>2, <1>3, <1>4 DEF Others, Locals, Shape
  <1>9. /\ n.lock_ = t /\ n.owner_ = t /\ n.recursive_counter_ = 1
        /\ n.waiters_ = <<t>> \o m.waiters_ /\ n.to_wakeup_ = m.to_wakeup_
        /\ n.waiters_counter_ = m.waiters_counter_ + 1 /\ n.hash_code_ = m.hash_code_
        /\ \A j \in Ids : j # i => monitor'[j] = monitor[j]
    BY <1>2, <1>3, <1>4, <1>5, <1>7, ZenonT(60) DEF MonitorRecords
  <1>10. Calm(t)
    BY <1>2, <1>3, <1>5, <1>8, <1>9 DEF Calm, pool, InflatingPcs
  <1>11. ~WaitsIn(l) /\ WaitsIn(k) /\ ~BlocksIn(l) /\ ~BlocksIn(k)
    BY <1>3, <1>8 DEF WaitsIn, BlocksIn, UsingPcs
  <1>12. WaitInv'
    <2>1. waiting_monitor_'[t] = k.id /\ t \in cond_lock_' /\ t \notin signalled'
      BY <1>2, <1>3, <1>4, <1>8, <1>11 DEF WaitInv
    <2>2. \A u \in Threads \ {t} : /\ waiting_monitor_'[u] = waiting_monitor_[u]
                                   /\ u \in cond_lock_' <=> u \in cond_lock_
                                   /\ u \in signalled' <=> u \in signalled
      BY <1>3, <1>4
    <2> QED BY <1>2, <1>4, <1>8, <1>11, <2>1, <2>2, WaitStepInv
  <1>13. ~In(t, m.waiters_) /\ ~In(t, m.to_wakeup_) /\ NoDup(m.waiters_)
    BY <1>2, <1>6, <1>11 DEF ListsOK, Listed
  <1>14. NoDup(n.waiters_) /\ \A u : In(u, n.waiters_) <=> In(u, m.waiters_) \/ u = t
    <2>1. <<t>> \in Seq(Threads) /\ NoDup(<<t>>) /\ \A u : In(u, <<t>>) <=> u = t
      BY InOne
    <2>2. \A u : In(u, <<t>> \o m.waiters_) <=> In(u, <<t>>) \/ In(u, m.waiters_)
      BY <1>7, <2>1, InBoth
    <2>3. \A u \in Threads : ~(In(u, <<t>>) /\ In(u, m.waiters_))
      BY <1>13, <2>1
    <2>4. NoDup(<<t>> \o m.waiters_)
      BY <1>7, <1>13, <2>1, <2>3, InBoth
    <2> QED BY <1>9, <2>1, <2>2, <2>4
  <1>15. HeavyInv'
    <2>1. n.waiters_counter_ = m.waiters_counter_ + Num(WaitsIn(k)) - Num(WaitsIn(l))
                                                  + Num(BlocksIn(k)) - Num(BlocksIn(l))
      BY <1>7, <1>9, <1>11 DEF Num
    <2>2. OwnerStep(t, m, n) /\ OwnerOK(t, k, n)
      BY <1>4, <1>7, <1>8, <1>9 DEF OwnerStep, OwnerOK
    <2>3. ListStep(t, l, k, m, n)
      BY <1>6, <1>9, <1>11, <1>13, <1>14 DEF ListStep, ListsOK, Listed
    <2>4. \A u \in Threads \ {t} : Reached(u, m) => Reached(u, n)'
      <3>1. \A u \in Threads : At(u, "signal") => u # t /\ At(u, "signal")' /\ local'[u] = local[u]
        BY <1>2, <1>3, <1>8 DEF At, Others
      <3>2. \A u \in Threads : ToBeSignalled(u) => ToBeSignalled(u)'
        BY <3>1 DEF ToBeSignalled
      <3> QED BY <1>3, <1>9, <1>14, <3>2 DEF Reached, Listed
    <2>5. ~WaitsListed(k) /\ k.pc # "signal" /\ l.pc # "signal" /\ k.pc # "unlock"
      BY <1>3, <1>8 DEF WaitsListed
    <2>6. WakeStep(t, k, m, n)
      BY <1>9, <2>5 DEF WakeStep
    <2>7. ShapeInv /\ HeavyInv /\ markWord_' = markWord_
      BY <1>3 DEF Inv
    <2> QED BY <1>2, <1>3, <1>8, <1>11, <2>1, <2>2, <2>3, <2>4, <2>5, <2>6, <2>7, HeavyParts,
               ZenonT(60)
  <1>16. Hashers = {} => /\ \A u \in Threads \ {t} : Levels(u)' = Levels(u)
                         /\ LevelsOK(k, Levels(t)', depth'[t])
    <2> SUFFICES ASSUME Hashers = {}
                 PROVE  /\ \A u \in Threads \ {t} : Levels(u)' = Levels(u)
                        /\ LevelsOK(k, Levels(t)', depth'[t])
      OBVIOUS
    <2>1. OwnerMove(t, m, n)
      BY <1>7, <1>9 DEF OwnerMove
    <2>2. \A u \in Threads : u # t => Levels(u)' = Levels(u)
      BY <1>2, <1>3, <2>1, OthersLevels DEF Inv
    <2>3. Levels(t) = m.recursive_counter_ /\ Levels(t)' = 1
      BY <1>2, <1>3, <1>9 DEF Levels, IsLightOf, IsHeavy
    <2>4. LevelsOK(l, m.recursive_counter_, depth[t])
      BY <1>2, <2>3 DEF Inv, LevelsInv
    <2>5. m.recursive_counter_ = depth[t]
      BY <1>3, <1>11, <2>4 DEF LevelsOK
    <2>6. LevelsOK(k, 1, depth'[t])
      BY <1>3, <1>8, <1>11, <2>5 DEF LevelsOK
    <2> QED BY <2>2, <2>3, <2>6
  <1>17. hashes' = hashes /\ monitor'[markWord_.id].hash_code_ = TheMonitor.hash_code_
    BY <1>2, <1>3, <1>9
  <1>18. Shape(t, k) /\ Placed(k) /\ ~NeedsDepth(k) /\ ~HashKnown(k)
    BY <1>3, <1>4, <1>5, <1>7, <1>8
       DEF Shape, Placed, NeedsDepth, HashKnown, HashOps, UsingPcs, EnterOps
  <1>19. \A u \in Threads \ {t} : depth'[u] = depth[u]
    BY <1>3
  <1> QED BY <1>2, <1>3, <1>10, <1>12, <1>15, <1>16, <1>17, <1>18, <1>19, MonitorStep

(* A thread leaves the lists and has its levels again. *)
LEMMA WaitEndRest ==
  ASSUME Inv, NEW t \in Threads, WaitEnd(t)
  PROVE  Rest'
  <1>2. PICK i, m, n, l, k : /\ i = local[t].id /\ m = TheMonitor /\ n = monitor'[markWord_.id]
                             /\ l = local[t] /\ k = local'[t]
    OBVIOUS
  <1>3. /\ l.pc = "waitEnd" /\ l.pc \in UsingPcs
        /\ monitor' = [monitor EXCEPT ![i].waiters_counter_ = @ - 1,
                                      ![i].recursive_counter_ = l.counter,
                                      ![i].waiters_ = Remove(@, t),
                                      ![i].to_wakeup_ = Remove(@, t)]
        /\ waiting_monitor_' = [waiting_monitor_ EXCEPT ![t] = NoId]
        /\ Return(t)
        /\ UNCHANGED <<markWord_, pool, depth, cond_lock_, signalled, hashes>>
    BY <1>2 DEF WaitEnd, At, UsingPcs
  <1>4. /\ monitor \in [Ids -> MonitorRecords] /\ t # NoThread /\ Shape(t, l)
        /\ TypeOK /\ local \in [Threads -> Locals] /\ WaitInv /\ depth \in [Threads -> Nat]
        /\ waiting_monitor_ \in [Threads -> Ids \cup {NoId}]
    BY <1>2, MonitorAssumption DEF Inv, TypeOK, MonitorAssumption, ShapeInv
  <1>5. /\ IsHeavy /\ markWord_ = Heavy(i) /\ markWord_.id = i /\ i \in Ids
        /\ m \in MonitorRecords /\ m = monitor[i]
        /\ \A j \in Ids : markWord_ # Heavy(j) => j # i
        /\ CountOK(m) /\ OwnersOK(m) /\ ListsOK(m) /\ WakesOK(m)
    BY <1>2, <1>3, UsesIt DEF Mon
  <1>6. l.op = "wait" /\ l.counter \in Nat /\ l.counter > 0
    BY <1>2, <1>3, <1>4 DEF Shape, Locals
  <1>7. m.owner_ = t /\ m.lock_ = t /\ m.waiters_ \in Seq(Threads) /\ m.to_wakeup_ \in Seq(Threads)
    BY <1>2, <1>3, <1>4, <1>5 DEF OwnersOK, OwnerOK, MonitorRecords
  <1>8. Others(t) /\ k.pc = "idle" /\ k.op = "none" /\ k.monitor_p = NoId /\ Shape(t, k)
    BY <1>2, <1>3, <1>4, Moves, IdleIs
  <1>9. /\ n.lock_ = t /\ n.owner_ = t /\ n.recursive_counter_ = l.counter
        /\ n.waiters_ = Remove(m.waiters_, t) /\ n.to_wakeup_ = Remove(m.to_wakeup_, t)
        /\ n.waiters_counter_ = m.waiters_counter_ - 1 /\ n.hash_code_ = m.hash_code_
        /\ \A j \in Ids : j # i => monitor'[j] = monitor[j]
    BY <1>2, <1>3, <1>4, <1>5, <1>7, ZenonT(60) DEF MonitorRecords
  <1>10. Calm(t)
    BY <1>2, <1>3, <1>5, <1>8, <1>9 DEF Calm, pool, InflatingPcs
  <1>11. WaitsIn(l) /\ ~WaitsIn(k) /\ ~BlocksIn(l) /\ ~BlocksIn(k)
    BY <1>3, <1>6, <1>8 DEF WaitsIn, BlocksIn, UsingPcs
  <1>12. WaitInv'
    <2>1. waiting_monitor_'[t] = NoId /\ t \notin cond_lock_' /\ t \notin signalled'
      BY <1>2, <1>3, <1>4 DEF WaitInv
    <2>2. \A u \in Threads \ {t} : /\ waiting_monitor_'[u] = waiting_monitor_[u]
                                   /\ u \in cond_lock_' <=> u \in cond_lock_
                                   /\ u \in signalled' <=> u \in signalled
      BY <1>3, <1>4
    <2> QED BY <1>2, <1>4, <1>8, <1>11, <2>1, <2>2, WaitStepInv
  <1>13. /\ NoDup(n.waiters_) /\ NoDup(n.to_wakeup_)
         /\ \A u : In(u, n.waiters_) <=> In(u, m.waiters_) /\ u # t
         /\ \A u : In(u, n.to_wakeup_) <=> In(u, m.to_wakeup_) /\ u # t
    <2>1. NoDup(m.waiters_) /\ NoDup(m.to_wakeup_)
      BY <1>5 DEF ListsOK
    <2> QED BY <1>7, <1>9, <2>1, InRemove
  <1>14. HeavyInv'
    <2>0. m.waiters_counter_ \in Nat
      BY <1>5, CountNat
    <2>1. n.waiters_counter_ = m.waiters_counter_ + Num(WaitsIn(k)) - Num(WaitsIn(l))
                                                  + Num(BlocksIn(k)) - Num(BlocksIn(l))
      BY <1>9, <1>11, <2>0 DEF Num
    <2>2. OwnerStep(t, m, n) /\ OwnerOK(t, k, n)
      BY <1>4, <1>6, <1>7, <1>8, <1>9 DEF OwnerStep, OwnerOK
    <2>3. ListStep(t, l, k, m, n)
      BY <1>5, <1>8, <1>13 DEF ListStep, ListsOK, Listed
    <2>4. \A u \in Threads \ {t} : Reached(u, m) => Reached(u, n)'
      <3>1. \A u \in Threads : At(u, "signal") => u # t /\ At(u, "signal")' /\ local'[u] = local[u]
        BY <1>2, <1>3, <1>8 DEF At, Others
      <3>2. \A u \in Threads : ToBeSignalled(u) => ToBeSignalled(u)'
        BY <3>1 DEF ToBeSignalled
      <3> QED BY <1>3, <1>13, <3>2 DEF Reached, Listed
    <2>5. ~WaitsListed(k) /\ k.pc # "signal" /\ l.pc # "signal" /\ k.pc # "unlock"
      BY <1>3, <1>8 DEF WaitsListed
    <2>6. WakeStep(t, k, m, n)
      BY <1>9, <2>5 DEF WakeStep
    <2>7. ShapeInv /\ HeavyInv /\ markWord_' = markWord_
      BY <1>3 DEF Inv
    <2> QED BY <1>2, <1>5, <1>7, <1>8, <1>11, <2>1, <2>2, <2>3, <2>4, <2>5, <2>6, <2>7, HeavyParts
  <1>15. Hashers = {} => /\ \A u \in Threads \ {t} : Levels(u)' = Levels(u)
                         /\ LevelsOK(k, Levels(t)', depth'[t])
    <2> SUFFICES ASSUME Hashers = {}
                 PROVE  /\ \A u \in Threads \ {t} : Levels(u)' = Levels(u)
                        /\ LevelsOK(k, Levels(t)', depth'[t])
      OBVIOUS
    <2>1. OwnerMove(t, m, n)
      BY <1>6, <1>7, <1>9 DEF OwnerMove
    <2>2. \A u \in Threads : u # t => Levels(u)' = Levels(u)
      BY <1>2, <1>3, <2>1, OthersLevels DEF Inv
    <2>3. Levels(t)' = l.counter
      BY <1>2, <1>3, <1>5, <1>9 DEF Levels, IsLightOf, IsHeavy
    <2>4. l.counter = depth[t]
      BY <1>2, <1>11 DEF Inv, LevelsInv, LevelsOK
    <2>5. LevelsOK(k, l.counter, depth'[t])
      BY <1>3, <1>8, <1>11, <2>4 DEF LevelsOK
    <2> QED BY <2>2, <2>3, <2>5
  <1>16. hashes' = hashes /\ monitor'[markWord_.id].hash_code_ = TheMonitor.hash_code_
    BY <1>2, <1>3, <1>9
  <1>17. Placed(k) /\ ~NeedsDepth(k) /\ ~HashKnown(k)
    BY <1>8 DEF Placed, NeedsDepth, HashKnown, UsingPcs
  <1>18. \A u \in Threads \ {t} : depth'[u] = depth[u]
    BY <1>3
  <1> QED BY <1>2, <1>5, <1>8, <1>10, <1>12, <1>14, <1>15, <1>16, <1>17, <1>18, MonitorStep

-----------------------------------------------------------------------------
(* Notify, NotifyAll, Interrupt and the setting of the hash *)

(* Waiters move to to_wakeup_ while the notifying thread has lock_. *)
LEMMA NotifyRest ==
  ASSUME Inv, NEW t \in Threads, NEW all \in BOOLEAN, NotifyBy(t, all)
  PROVE  Rest'
  <1>2. PICK i, m, n, l : /\ i = markWord_.id /\ m = TheMonitor /\ n = monitor'[markWord_.id]
                          /\ l = local[t]
    OBVIOUS
  <1>3. /\ l.pc = "idle" /\ IsHeavy /\ m = monitor[i] /\ m.owner_ = t /\ m.waiters_ # <<>>
        /\ monitor' = [monitor EXCEPT ![i] = IF all THEN MoveAll(m) ELSE MoveOne(m)]
        /\ UNCHANGED <<markWord_, pool, local, depth, waits, suspendedBy, hashes>>
    BY <1>2 DEF NotifyBy, At, IsHeavy, TheMonitor
  <1>4. /\ monitor \in [Ids -> MonitorRecords] /\ t # NoThread /\ Shape(t, l) /\ markWord_ \in Marks
        /\ Placed(l) /\ WaitInv
    BY <1>2, MonitorAssumption DEF Inv, TypeOK, MonitorAssumption, ShapeInv, PlaceInv, Placed
  <1>5. markWord_ = Heavy(i) /\ i \in Ids /\ \A j \in Ids : markWord_ # Heavy(j) => j # i
    BY <1>2, <1>3, <1>4, MarkFields DEF IsHeavy
  <1>6. CountOK(m) /\ OwnersOK(m) /\ ListsOK(m) /\ WakesOK(m) /\ m \in MonitorRecords
    BY <1>2, <1>3, <1>4, <1>5 DEF Inv, HeavyInv
  <1>7. m.lock_ = t /\ m.waiters_ \in Seq(Threads) /\ m.to_wakeup_ \in Seq(Threads)
    BY <1>3, <1>4, <1>6 DEF OwnersOK, MonitorRecords
  <1>8. n = IF all THEN MoveAll(m) ELSE MoveOne(m)
    BY <1>2, <1>3, <1>4, <1>5
  <1>9. /\ n.lock_ = m.lock_ /\ n.owner_ = m.owner_ /\ n.recursive_counter_ = m.recursive_counter_
        /\ n.waiters_counter_ = m.waiters_counter_ /\ n.hash_code_ = m.hash_code_
        /\ n.waiters_ = IF all THEN <<>> ELSE Tail(m.waiters_)
        /\ n.to_wakeup_ = IF all THEN m.to_wakeup_ \o m.waiters_
                          ELSE <<Head(m.waiters_)>> \o m.to_wakeup_
    BY <1>6, <1>8 DEF MoveAll, MoveOne, MonitorRecords
  <1>10. \A j \in Ids : j # i => monitor'[j] = monitor[j]
    BY <1>3, <1>4
  <1>11. Others(t) /\ l = local'[t]
    BY <1>2, <1>3 DEF Others
  <1>12. Calm(t)
    BY <1>2, <1>3, <1>5, <1>10, <1>11 DEF Calm, pool, InflatingPcs
  <1>13. l.op = "none" /\ ~WaitsIn(l) /\ ~BlocksIn(l)
    BY <1>3, <1>4 DEF WaitsIn, BlocksIn, UsingPcs, Shape
  <1>14. WaitInv'
    BY <1>2, <1>3, <1>4, <1>11, <1>13, CalmWait DEF waits
  <1>15. /\ NoDup(n.waiters_) /\ NoDup(n.to_wakeup_)
         /\ \A u \in Threads : /\ ~(In(u, n.waiters_) /\ In(u, n.to_wakeup_))
                               /\ Listed(u, n) <=> Listed(u, m)
    <2>1. /\ NoDup(m.waiters_) /\ NoDup(m.to_wakeup_)
          /\ \A u \in Threads : ~(In(u, m.waiters_) /\ In(u, m.to_wakeup_))
      BY <1>6 DEF ListsOK
    <2>2. CASE all
      <3>1. \A u : In(u, n.to_wakeup_) <=> In(u, m.to_wakeup_) \/ In(u, m.waiters_)
        BY <1>7, <1>9, <2>2, InBoth
      <3>2. NoDup(n.to_wakeup_)
        BY <1>7, <1>9, <2>1, <2>2, InBoth
      <3>3. NoDup(n.waiters_) /\ \A u : ~In(u, n.waiters_)
        BY <1>9, <2>2, InNone
      <3> QED BY <3>1, <3>2, <3>3 DEF Listed
    <2>3. CASE ~all
      <3>1. PICK w, one : w = Head(m.waiters_) /\ one = <<w>>
        OBVIOUS
      <3>2. /\ w \in Threads /\ In(w, m.waiters_) /\ NoDup(n.waiters_)
            /\ \A u : In(u, n.waiters_) <=> In(u, m.waiters_) /\ u # w
        BY <1>3, <1>7, <1>9, <2>1, <2>3, <3>1, InTail
      <3>3. one \in Seq(Threads) /\ NoDup(one) /\ \A u : In(u, one) <=> u = w
        BY <3>1, <3>2, InOne
      <3>4. n.to_wakeup_ = one \o m.to_wakeup_
        BY <1>9, <2>3, <3>1
      <3>5. \A u : In(u, n.to_wakeup_) <=> In(u, one) \/ In(u, m.to_wakeup_)
        BY <1>7, <3>3, <3>4, InBoth
      <3>6. \A u \in Threads : ~(In(u, one) /\ In(u, m.to_wakeup_))
        BY <2>1, <3>2, <3>3
      <3>7. NoDup(n.to_wakeup_)
        BY <1>7, <2>1, <3>3, <3>4, <3>6, InBoth
      <3> QED BY <2>1, <3>2, <3>3, <3>5, <3>7 DEF Listed
    <2> QED BY <2>2, <2>3
  <1>16. HeavyInv'
    <2>0. m.waiters_counter_ \in Nat
      BY <1>6, CountNat
    <2>1. n.waiters_counter_ = m.waiters_counter_ + Num(WaitsIn(l)) - Num(WaitsIn(l))
                                                  + Num(BlocksIn(l)) - Num(BlocksIn(l))
      BY <1>9, <2>0 DEF Num
    <2>2. OwnerStep(t, m, n) /\ OwnerOK(t, l, n)
      BY <1>3, <1>9 DEF OwnerStep, OwnerOK
    <2>3. ListStep(t, l, l, m, n)
      BY <1>2, <1>3, <1>6, <1>13, <1>15 DEF ListStep, ListsOK
    <2>4. \A u \in Threads \ {t} : Reached(u, m) => Reached(u, n)'
      <3>1. \A u \in Threads : ToBeSignalled(u) => ToBeSignalled(u)'
        BY <1>3 DEF ToBeSignalled, At
      <3> QED BY <1>3, <1>15, <3>1 DEF Reached, waits
    <2>5. ~WaitsListed(l) /\ l.pc # "signal" /\ l.pc # "unlock"
      BY <1>3 DEF WaitsListed
    <2>6. WakeStep(t, l, m, n)
      BY <1>7, <1>9, <2>5 DEF WakeStep
    <2>7. ShapeInv /\ HeavyInv /\ markWord_' = markWord_
      BY <1>3 DEF Inv
    <2> QED BY <1>2, <1>3, <1>11, <1>13, <2>1, <2>2, <2>3, <2>4, <2>5, <2>6, <2>7, HeavyParts
  <1>17. Hashers = {} => /\ \A u \in Threads \ {t} : Levels(u)' = Levels(u)
                         /\ LevelsOK(l, Levels(t)', depth'[t])
    <2> SUFFICES ASSUME Hashers = {}
                 PROVE  /\ \A u \in Threads \ {t} : Levels(u)' = Levels(u)
                        /\ LevelsOK(l, Levels(t)', depth'[t])
      OBVIOUS
    <2>1. \A u : Levels(u)' = Levels(u)
      BY <1>2, <1>3, <1>9 DEF Levels, IsLightOf, TheMonitor
    <2>2. LevelsOK(l, Levels(t), depth[t])
      BY <1>2 DEF Inv, LevelsInv
    <2> QED BY <1>3, <2>1, <2>2
  <1>18. hashes' = hashes /\ monitor'[markWord_.id].hash_code_ = TheMonitor.hash_code_
    BY <1>2, <1>3, <1>9
  <1>19. ~NeedsDepth(l) /\ ~HashKnown(l)
    BY <1>3, <1>13 DEF NeedsDepth, HashKnown
  <1>20. \A u \in Threads \ {t} : depth'[u] = depth[u]
    BY <1>3
  <1> QED BY <1>3, <1>4, <1>11, <1>12, <1>14, <1>16, <1>17, <1>18, <1>19, <1>20, MonitorStep

(* Nothing changes but that more threads are signalled. *)
LEMMA SignalMore ==
  ASSUME Inv, WaitInv', signalled \subseteq signalled',
         UNCHANGED <<markWord_, monitors_, monitor, local, depth, hashes>>
  PROVE  Rest'
  <1>1. ShapeInv' /\ PlaceInv' /\ PoolInv'
    BY DEF Inv, ShapeInv, PlaceInv, PoolInv, Inflating
  <1>2. HashInv' /\ (Hashers = {} => LevelsInv')
    BY DEF Inv, HashInv, CurrentHash, LevelsInv, Levels, IsLightOf
  <1>3. HeavyInv'
    <2> SUFFICES ASSUME IsHeavy
                 PROVE  HeavyInv'
      BY DEF HeavyInv, IsHeavy
    <2>1. PICK m : m = TheMonitor
      OBVIOUS
    <2>2. CountOK(m) /\ OwnersOK(m) /\ ListsOK(m) /\ WakesOK(m) /\ m = TheMonitor'
      BY <2>1 DEF Inv, HeavyInv, TheMonitor
    <2>3. CountOK(m)' /\ OwnersOK(m)'
      BY <2>2 DEF CountOK, OwnersOK
    <2>4. ListsOK(m)'
      <3>1. \A u : ToBeSignalled(u)' <=> ToBeSignalled(u)
        BY DEF ToBeSignalled, At
      <3> QED BY <2>2, <3>1 DEF ListsOK
    <2>5. WakesOK(m)'
      <3>1. \A u \in Threads : Coming(u) => Coming(u)'
        BY DEF Coming
      <3>2. \A u \in Threads : \A p : At(u, p)' <=> At(u, p)
        BY DEF At
      <3> QED BY <2>2, <3>1, <3>2 DEF WakesOK
    <2> QED BY <2>2, <2>3, <2>4, <2>5 DEF HeavyInv
  <1> QED BY <1>1, <1>2, <1>3 DEF Rest, Inv

(* An interrupt signals a thread that sleeps. *)
LEMMA InterruptRest ==
  ASSUME Inv, NEW t \in Threads, Interrupt(t)
  PROVE  Rest'
  <1>1. /\ UNCHANGED <<markWord_, monitors_, monitor, local, depth, hashes>>
        /\ UNCHANGED <<waiting_monitor_, cond_lock_>>
        /\ signalled' = IF At(t, "waiting") THEN signalled \cup {t} ELSE signalled
    BY DEF Interrupt, Wakes, pool
  <1>2. At(t, "waiting") => WaitsIn(local[t])
    BY DEF Inv, ShapeInv, Shape, At, WaitsIn, UsingPcs
  <1>3. WaitInv'
    BY <1>1, <1>2 DEF Inv, WaitInv, At
  <1>4. signalled \subseteq signalled'
    BY <1>1
  <1> QED BY <1>1, <1>3, <1>4, SignalMore

(* The hash is set once, under lock_. *)
LEMMA HashSetRest ==
  ASSUME Inv, NEW t \in Threads, HashSet(t)
  PROVE  Rest'
  <1>0. PICK l, k, i, m : l = local[t] /\ k = local'[t] /\ i = l.monitor_p /\ m = TheMonitor
    OBVIOUS
  <1>1. /\ TypeOK /\ local \in [Threads -> Locals] /\ Shape(t, l) /\ Placed(l)
        /\ monitor \in [Ids -> MonitorRecords] /\ markWord_ \in Marks
        /\ (NeedsDepth(l) => depth[t] > 0) /\ hashes \subseteq Hashes /\ HashInv
    BY <1>0 DEF Inv, TypeOK, ShapeInv, PlaceInv, Placed
  <1>2. /\ l.pc = "hashSet" /\ l.op = "hash" /\ t \in Hashers /\ i # NoId
        /\ depth[t] > 0 /\ markWord_ = Heavy(i)
    BY <1>0, <1>1 DEF HashSet, At, Shape, HashOps, NeedsDepth, Placed
  <1>3. /\ IsHeavy /\ markWord_.id = i /\ i \in Ids /\ m = monitor[i] /\ m \in MonitorRecords
        /\ \A j \in Ids : markWord_ # Heavy(j) => j # i
    BY <1>0, <1>1, <1>2, MarksMade, MarkFields DEF IsHeavy, TheMonitor
  <1>4. PICK h \in Hashes :
          monitor' = [monitor EXCEPT ![i].hash_code_ = IF @ = NoHash THEN h ELSE @]
    BY <1>0 DEF HashSet
  <1>5. UNCHANGED <<markWord_, pool, depth, waits, suspendedBy, hashes>>
    BY DEF HashSet
  <1>6. PICK n : n = monitor'[markWord_.id]
    OBVIOUS
  <1>7. /\ n.lock_ = m.lock_ /\ n.owner_ = m.owner_ /\ n.recursive_counter_ = m.recursive_counter_
        /\ n.waiters_ = m.waiters_ /\ n.to_wakeup_ = m.to_wakeup_
        /\ n.waiters_counter_ = m.waiters_counter_
        /\ n.hash_code_ = IF m.hash_code_ = NoHash THEN h ELSE m.hash_code_
        /\ \A j \in Ids : j # i => monitor'[j] = monitor[j]
    BY <1>1, <1>3, <1>4, <1>6 DEF MonitorRecords
  <1>8. Others(t) /\ k.pc = "exit" /\ k.op = "hashExit" /\ k.monitor_p = i
    BY <1>0, <1>1 DEF HashSet, Others, Locals
  <1>9. Calm(t)
    BY <1>0, <1>2, <1>3, <1>5, <1>7, <1>8 DEF Calm, pool, InflatingPcs
  <1>10. Neutral(l) /\ Neutral(k) /\ l.pc # "waitEnd" /\ k.pc # "waitEnd"
    BY <1>2, <1>8 DEF Neutral, WaitsIn, UsingPcs
  <1>11. Shape(t, k) /\ Placed(k)
    BY <1>2, <1>8 DEF Shape, Placed, HashOps, UsingPcs, EnterOps
  <1>12. ShapeInv'
    <2>1. \A u \in Threads \ {t} : depth'[u] = depth[u]
      BY <1>5
    <2> QED BY <1>0, <1>2, <1>5, <1>8, <1>11, <2>1, CalmShape DEF Inv
  <1>13. PlaceInv' /\ PoolInv'
    BY <1>0, <1>9, <1>11, CalmPlace DEF Inv
  <1>14. WaitInv'
    BY <1>0, <1>5, <1>8, <1>10, CalmWait DEF Inv, Neutral, waits
  <1>15. HeavyInv'
    <2>1. SameLists(m, n) /\ OwnerMove(t, m, n)
      BY <1>7 DEF SameLists, OwnerMove
    <2>2. ShapeInv /\ HeavyInv /\ markWord_' = markWord_ /\ signalled' = signalled
      BY <1>5 DEF Inv, waits
    <2> QED BY <1>0, <1>3, <1>6, <1>7, <1>8, <1>10, <2>1, <2>2, QuietHeavy
  <1>16. NoHash \notin Hashes /\ n.hash_code_ # NoHash
    BY <1>4, <1>7, MonitorAssumption DEF MonitorAssumption
  <1>17. HashInv'
    <2>1. CurrentHash = m.hash_code_ /\ CurrentHash' = n.hash_code_
      BY <1>0, <1>3, <1>5, <1>6 DEF CurrentHash, IsHeavy, TheMonitor
    <2>2. hashes' \subseteq {CurrentHash'}
      BY <1>1, <1>5, <1>7, <1>16, <2>1 DEF HashInv
    <2>3. ASSUME NEW u \in Threads, HashKnown(local'[u])
          PROVE  monitor'[local'[u].monitor_p].hash_code_ # NoHash
      <3>1. local'[u].monitor_p # NoId
        BY <1>12, <2>3 DEF ShapeInv, Shape, HashKnown
      <3>2. markWord_' = Heavy(local'[u].monitor_p)
        BY <1>13, <3>1 DEF PlaceInv
      <3>3. local'[u].monitor_p = markWord_.id
        BY <1>5, <3>2, MarksMade
      <3> QED BY <1>6, <1>16, <3>3
    <2> QED BY <2>2, <2>3 DEF HashInv, HashKnown
  <1> QED BY <1>2, <1>12, <1>13, <1>14, <1>15, <1>17 DEF Rest

-----------------------------------------------------------------------------
(* Types *)

LocalTypes == [Threads -> Locals]

(* The types of the locals of an idle thread *)
LEMMA IdleTyped == IdleLocal \in Locals
  BY MarksMade DEF IdleLocal, Locals, Pcs, Ops

(* and of a free Monitor. *)
LEMMA NewTyped == NewMonitor \in MonitorRecords
  <1>1. <<>> \in Seq(Threads)
    OBVIOUS
  <1> QED BY <1>1 DEF NewMonitor, MonitorRecords

PcsAre == {"stopped", "suspendOwner", "waitOwner", "blocked", "owning", "waiting", "sleep", "idle", "enter", "cas", "inflate", "inflateCas",
           "inflateOther", "inflateOtherCas", "resume", "acquire", "exit", "exitCas", "release",
           "signal", "unlock", "wait", "condWait", "waitEnd", "hash", "hashCas", "hashMonitor",
           "hashSet", "hashReturn"}

(* A thread moves and sets one or two of its locals. *)
LEMMA SetTyped ==
  ASSUME TypeOK, NEW t \in Threads, NEW p \in PcsAre
  PROVE  /\ p \in Pcs
         /\ \A o \in {"none", "enter", "tryEnter", "exit", "wait", "hash", "hashEnter", "hashExit"} :
              local' = [local EXCEPT ![t].pc = p, ![t].op = o] => local' \in LocalTypes
         /\ \A a \in {"none", "entered", "enter", "wait", "hash"} :
              local' = [local EXCEPT ![t].pc = p, ![t].after = a] => local' \in LocalTypes
         /\ \A i \in Ids : local' = [local EXCEPT ![t].pc = p, ![t].id = i] => local' \in LocalTypes
         /\ \A m \in Marks :
              local' = [local EXCEPT ![t].pc = p, ![t].old_mark = m] => local' \in LocalTypes
         /\ \A u \in Threads :
              local' = [local EXCEPT ![t].pc = p, ![t].other = u] => local' \in LocalTypes
         /\ \A i \in Ids :
              local' = [local EXCEPT ![t].pc = p, ![t].monitor_p = i] => local' \in LocalTypes
         /\ \A i \in Ids, m \in Marks :
              local' = [local EXCEPT ![t].pc = p, ![t].id = i, ![t].old_mark = m] =>
                local' \in LocalTypes
         /\ \A i \in Ids, c \in Nat :
              local' = [local EXCEPT ![t].pc = p, ![t].id = i, ![t].counter = c] =>
                local' \in LocalTypes
  <1>1. p \in Pcs
    BY DEF Pcs, NotRunningPcs, PcsAre
  <1>2. local \in LocalTypes
    BY DEF TypeOK, LocalTypes
  <1>3. PICK r : r = local[t] /\ r \in Locals
    BY <1>2 DEF LocalTypes
  <1>4. ASSUME NEW o \in Ops, local' = [local EXCEPT ![t].pc = p, ![t].op = o]
        PROVE  local' \in LocalTypes
    <2>1. [r EXCEPT !.pc = p, !.op = o] \in Locals
      BY <1>1, <1>3 DEF Locals
    <2>2. local' = [local EXCEPT ![t] = [r EXCEPT !.pc = p, !.op = o]]
      BY <1>2, <1>3, <1>4 DEF LocalTypes
    <2> QED BY <1>2, <2>1, <2>2 DEF LocalTypes
  <1>5. ASSUME NEW a \in {"none", "entered", "enter", "wait", "hash"},
               local' = [local EXCEPT ![t].pc = p, ![t].after = a]
        PROVE  local' \in LocalTypes
    <2>1. [r EXCEPT !.pc = p, !.after = a] \in Locals
      BY <1>1, <1>3 DEF Locals
    <2>2. local' = [local EXCEPT ![t] = [r EXCEPT !.pc = p, !.after = a]]
      BY <1>2, <1>3, <1>5 DEF LocalTypes
    <2> QED BY <1>2, <2>1, <2>2 DEF LocalTypes
  <1>6. ASSUME NEW i \in Ids, local' = [local EXCEPT ![t].pc = p, ![t].id = i]
        PROVE  local' \in LocalTypes
    <2>1. [r EXCEPT !.pc = p, !.id = i] \in Locals
      BY <1>1, <1>3 DEF Locals
    <2>2. local' = [local EXCEPT ![t] = [r EXCEPT !.pc = p, !.id = i]]
      BY <1>2, <1>3, <1>6 DEF LocalTypes
    <2> QED BY <1>2, <2>1, <2>2 DEF LocalTypes
  <1>7. ASSUME NEW m \in Marks, local' = [local EXCEPT ![t].pc = p, ![t].old_mark = m]
        PROVE  local' \in LocalTypes
    <2>1. [r EXCEPT !.pc = p, !.old_mark = m] \in Locals
      BY <1>1, <1>3 DEF Locals
    <2>2. local' = [local EXCEPT ![t] = [r EXCEPT !.pc = p, !.old_mark = m]]
      BY <1>2, <1>3, <1>7 DEF LocalTypes
    <2> QED BY <1>2, <2>1, <2>2 DEF LocalTypes
  <1>8. ASSUME NEW u \in Threads, local' = [local EXCEPT ![t].pc = p, ![t].other = u]
        PROVE  local' \in LocalTypes
    <2>1. [r EXCEPT !.pc = p, !.other = u] \in Locals
      BY <1>1, <1>3 DEF Locals
    <2>2. local' = [local EXCEPT ![t] = [r EXCEPT !.pc = p, !.other = u]]
      BY <1>2, <1>3, <1>8 DEF LocalTypes
    <2> QED BY <1>2, <2>1, <2>2 DEF LocalTypes
  <1>9. ASSUME NEW i \in Ids, local' = [local EXCEPT ![t].pc = p, ![t].monitor_p = i]
        PROVE  local' \in LocalTypes
    <2>1. [r EXCEPT !.pc = p, !.monitor_p = i] \in Locals
      BY <1>1, <1>3 DEF Locals
    <2>2. local' = [local EXCEPT ![t] = [r EXCEPT !.pc = p, !.monitor_p = i]]
      BY <1>2, <1>3, <1>9 DEF LocalTypes
    <2> QED BY <1>2, <2>1, <2>2 DEF LocalTypes
  <1>10. ASSUME NEW i \in Ids, NEW m \in Marks,
                local' = [local EXCEPT ![t].pc = p, ![t].id = i, ![t].old_mark = m]
         PROVE  local' \in LocalTypes
    <2>1. [r EXCEPT !.pc = p, !.id = i, !.old_mark = m] \in Locals
      BY <1>1, <1>3 DEF Locals
    <2>2. local' = [local EXCEPT ![t] = [r EXCEPT !.pc = p, !.id = i, !.old_mark = m]]
      BY <1>2, <1>3, <1>10 DEF LocalTypes
    <2> QED BY <1>2, <2>1, <2>2 DEF LocalTypes
  <1>11. ASSUME NEW i \in Ids, NEW c \in Nat,
                local' = [local EXCEPT ![t].pc = p, ![t].id = i, ![t].counter = c]
         PROVE  local' \in LocalTypes
    <2>1. [r EXCEPT !.pc = p, !.id = i, !.counter = c] \in Locals
      BY <1>1, <1>3 DEF Locals
    <2>2. local' = [local EXCEPT ![t] = [r EXCEPT !.pc = p, !.id = i, !.counter = c]]
      BY <1>2, <1>3, <1>11 DEF LocalTypes
    <2> QED BY <1>2, <2>1, <2>2 DEF LocalTypes
  <1>12. {"none", "enter", "tryEnter", "exit", "wait", "hash", "hashEnter", "hashExit"} \subseteq Ops
    BY DEF Ops
  <1> QED BY <1>1, <1>4, <1>5, <1>6, <1>7, <1>8, <1>9, <1>10, <1>11, <1>12

(* The moves of a thread keep the types. *)
LEMMA MovesTyped ==
  ASSUME TypeOK, NEW t \in Threads
  PROVE  /\ \A p \in Pcs : Goto(t, p) => local' \in LocalTypes
         /\ Return(t) => local' \in LocalTypes
         /\ \A p \in Pcs : Loop(t, p) => local' \in LocalTypes
         /\ Entered(t) => local' \in LocalTypes /\ depth' \in [Threads -> Nat]
         /\ EnterAgain(t) => local' \in LocalTypes
         /\ InflateFailed(t) => local' \in LocalTypes
         /\ Inflated(t) => local' \in LocalTypes /\ depth' \in [Threads -> Nat]
         /\ Acquired(t) => local' \in LocalTypes /\ depth' \in [Threads -> Nat]
         /\ Released(t) => local' \in LocalTypes
  <1>1. local \in LocalTypes /\ depth \in [Threads -> Nat]
    BY DEF TypeOK, LocalTypes
  <1>2. ASSUME NEW p \in Pcs, Goto(t, p)
        PROVE  local' \in LocalTypes
    BY <1>1, <1>2 DEF Goto, LocalTypes, Locals
  <1>3. ASSUME Return(t)
        PROVE  local' \in LocalTypes
    BY <1>1, <1>3, IdleTyped DEF Return, LocalTypes
  <1>4. ASSUME NEW p \in Pcs, Loop(t, p)
        PROVE  local' \in LocalTypes
    <2>1. local[t] \in Locals
      BY <1>1 DEF LocalTypes
    <2>2. [IdleLocal EXCEPT !.pc = p, !.op = local[t].op, !.monitor_p = local[t].monitor_p] \in Locals
      BY <1>4, <2>1, IdleTyped DEF Locals
    <2> QED BY <1>1, <1>4, <2>2 DEF Loop, LocalTypes
  <1>5. ASSUME Entered(t)
        PROVE  local' \in LocalTypes /\ depth' \in [Threads -> Nat]
    <2>1. depth' \in [Threads -> Nat]
      BY <1>1, <1>5 DEF Entered
    <2>2. CASE local' = [local EXCEPT ![t].pc = "hashSet", ![t].op = "hash"]
      <3>1. "hashSet" \in PcsAre
        BY DEF PcsAre
      <3> QED BY <2>1, <2>2, <3>1, SetTyped
    <2> QED BY <1>3, <1>5, <2>1, <2>2 DEF Entered
  <1>6. {"enter", "wait", "hash", "sleep", "waitEnd", "condWait"} \subseteq Pcs
    BY DEF Pcs, NotRunningPcs
  <1>7. ASSUME EnterAgain(t)
        PROVE  local' \in LocalTypes
    BY <1>3, <1>4, <1>6, <1>7 DEF EnterAgain
  <1>8. ASSUME InflateFailed(t)
        PROVE  local' \in LocalTypes
    BY <1>4, <1>6, <1>7, <1>8 DEF InflateFailed
  <1>9. ASSUME Inflated(t)
        PROVE  local' \in LocalTypes /\ depth' \in [Threads -> Nat]
    BY <1>1, <1>4, <1>5, <1>6, <1>7, <1>9 DEF Inflated
  <1>10. ASSUME Acquired(t)
         PROVE  local' \in LocalTypes /\ depth' \in [Threads -> Nat]
    BY <1>1, <1>2, <1>5, <1>6, <1>10 DEF Acquired
  <1>11. ASSUME Released(t)
         PROVE  local' \in LocalTypes
    <2>1. CASE local' = [local EXCEPT ![t].pc = "hashReturn", ![t].op = "hash"]
      BY <2>1, SetTyped DEF PcsAre
    <2> QED BY <1>2, <1>3, <1>6, <1>11, <2>1 DEF Released
  <1> QED BY <1>2, <1>3, <1>4, <1>5, <1>7, <1>8, <1>9, <1>10, <1>11

(* The steps that look at the mark, or leave all but the locals alone. *)
LEMMA LookTyped ==
  ASSUME Inv, NEW t \in Threads,
         \/ \E trylock \in BOOLEAN : MonitorEnter(t, trylock)
         \/ MonitorExit(t) \/ Wait(t) \/ GetHashCode(t) \/ Poll(t)
         \/ EnterLoad(t) \/ EnterCasFail(t) \/ OwnerSuspended(t)
         \/ ExitLoad(t) \/ ExitCasFail(t) \/ WaitInflate(t) \/ WaitInterrupted(t)
         \/ HashCasFail(t) \/ HashSleep(t)
  PROVE  TypeOK'
  <1>1. TypeOK /\ local \in LocalTypes /\ markWord_ \in Marks
    BY DEF Inv, TypeOK, LocalTypes
  <1>2. {"stopped", "idle", "inflateOther", "exit", "hash"} \subseteq Pcs
    BY DEF Pcs, NotRunningPcs
  <1>3. /\ markWord_.state = "HEAVY_LOCKED" => markWord_.id \in Ids
        /\ markWord_.state = "LIGHT_LOCKED" => markWord_.thread \in Threads
    BY <1>1, MarkFields
  <1>4. local' \in LocalTypes
    <2>1. ASSUME NEW trylock \in BOOLEAN, MonitorEnter(t, trylock)
          PROVE  local' \in LocalTypes
      BY <1>1, <2>1, SetTyped DEF MonitorEnter, PcsAre
    <2>2. CASE MonitorExit(t)
      BY <1>1, <2>2, SetTyped DEF MonitorExit, PcsAre
    <2>3. CASE Wait(t)
      BY <1>1, <2>3, SetTyped DEF Wait, PcsAre
    <2>4. CASE GetHashCode(t)
      BY <1>1, <2>4, SetTyped DEF GetHashCode, PcsAre
    <2>5. CASE WaitInflate(t)
      BY <1>1, <2>5, SetTyped DEF WaitInflate, PcsAre
    <2>6. CASE EnterLoad(t)
      <3>1. CASE local' = [local EXCEPT ![t].pc = "acquire", ![t].id = markWord_.id]
                 /\ markWord_.state = "HEAVY_LOCKED"
        BY <1>1, <1>3, <3>1, SetTyped DEF PcsAre
      <3>2. CASE local' = [local EXCEPT ![t].pc = "cas", ![t].old_mark = markWord_]
        BY <1>1, <3>2, SetTyped DEF PcsAre
      <3>3. CASE \E a \in {"entered", "enter"} : local' = [local EXCEPT ![t].pc = "inflate", ![t].after = a]
        <4>1. PICK a \in {"entered", "enter"} : local' = [local EXCEPT ![t].pc = "inflate", ![t].after = a]
          BY <3>3
        <4> QED BY <1>1, <4>1, SetTyped DEF PcsAre
      <3>4. CASE local' = [local EXCEPT ![t].pc = "suspendOwner", ![t].other = markWord_.thread]
                 /\ markWord_.state = "LIGHT_LOCKED"
        BY <1>1, <1>3, <3>4, SetTyped DEF PcsAre
      <3>5. CASE Return(t)
        BY <1>1, <3>5, MovesTyped
      <3> QED BY <2>6, <3>1, <3>2, <3>3, <3>4, <3>5 DEF EnterLoad, IsLightOf
    <2>7. CASE ExitLoad(t)
      <3>1. CASE local' = [local EXCEPT ![t].pc = "release", ![t].id = markWord_.id]
                 /\ markWord_.state = "HEAVY_LOCKED"
        BY <1>1, <1>3, <3>1, SetTyped DEF PcsAre
      <3>2. CASE local' = [local EXCEPT ![t].pc = "exitCas", ![t].old_mark = markWord_]
        BY <1>1, <3>2, SetTyped DEF PcsAre
      <3>3. CASE Return(t)
        BY <1>1, <3>3, MovesTyped
      <3> QED BY <2>7, <3>1, <3>2, <3>3 DEF ExitLoad
    <2>8. CASE EnterCasFail(t) \/ WaitInterrupted(t)
      BY <1>1, <2>8, MovesTyped DEF EnterCasFail, WaitInterrupted
    <2>9. CASE Poll(t) \/ OwnerSuspended(t)
      BY <1>1, <1>2, <2>9, MovesTyped DEF Poll, OwnerSuspended
    <2>10. CASE ExitCasFail(t) \/ HashCasFail(t) \/ HashSleep(t)
      BY <1>1, <1>2, <2>10, MovesTyped DEF ExitCasFail, HashCasFail, HashSleep
    <2> QED BY <2>1, <2>2, <2>3, <2>4, <2>5, <2>6, <2>7, <2>8, <2>9, <2>10
  <1>5. UNCHANGED <<markWord_, pool, monitor, depth, waits, suspendedBy, hashes>>
    BY DEF MonitorEnter, MonitorExit, Wait, GetHashCode, Poll, EnterLoad, EnterCasFail,
           OwnerSuspended, ExitLoad, ExitCasFail, WaitInflate, WaitInterrupted, HashCasFail,
           HashSleep
  <1> QED BY <1>1, <1>4, <1>5 DEF TypeOK, pool, waits, LocalTypes

(* The steps that change suspendedBy, the flags of the waits, or hashes. *)
LEMMA FlagTyped ==
  ASSUME Inv, NEW t \in Threads,
         \/ SuspendOwner(t) \/ ResumeOwner(t) \/ Interrupted(t) \/ Interrupt(t)
         \/ ReleaseSignal(t) \/ CondWait(t) \/ Awake(t)
         \/ HashLoad(t) \/ HashFromMonitor(t) \/ HashReturn(t)
  PROVE  TypeOK'
  <1>1. /\ TypeOK /\ local \in LocalTypes /\ markWord_ \in Marks /\ Shape(t, local[t]) /\ HashInv
        /\ monitor \in [Ids -> MonitorRecords] /\ suspendedBy \in [Threads -> SUBSET Threads]
    BY DEF Inv, TypeOK, LocalTypes, ShapeInv
  <1>2. {"waitOwner", "enter", "unlock", "waiting", "acquire", "hashCas"} \subseteq Pcs
    BY DEF Pcs, NotRunningPcs
  <1>3. CASE SuspendOwner(t) \/ ResumeOwner(t)
    <2>1. local[t].other \in Threads
      BY <1>1, <1>3 DEF SuspendOwner, ResumeOwner, At, Shape
    <2>2. suspendedBy' \in [Threads -> SUBSET Threads]
      BY <1>1, <1>3, <2>1 DEF SuspendOwner, ResumeOwner
    <2>3. local' \in LocalTypes
      BY <1>1, <1>2, <1>3, MovesTyped DEF SuspendOwner, ResumeOwner
    <2>4. UNCHANGED <<markWord_, pool, monitor, depth, waits, hashes>>
      BY <1>3 DEF SuspendOwner, ResumeOwner
    <2> QED BY <1>1, <2>2, <2>3, <2>4 DEF TypeOK, pool, waits, LocalTypes
  <1>4. CASE Interrupted(t) \/ Interrupt(t)
    <2>1. UNCHANGED <<markWord_, pool, monitor, local, depth, waiting_monitor_, cond_lock_,
                      suspendedBy, hashes>>
      BY <1>4 DEF Interrupted, Interrupt
    <2>2. signalled' \subseteq signalled \cup {t} /\ is_interrupted_' \subseteq is_interrupted_ \cup {t}
      BY <1>4 DEF Interrupted, Interrupt, Wakes
    <2> QED BY <1>1, <2>1, <2>2 DEF TypeOK, pool
  <1>5. CASE ReleaseSignal(t) \/ CondWait(t) \/ Awake(t)
    <2>1. local' \in LocalTypes
      BY <1>1, <1>2, <1>5, MovesTyped DEF ReleaseSignal, CondWait, Awake
    <2>2. /\ UNCHANGED <<markWord_, pool, monitor, depth, waiting_monitor_, is_interrupted_,
                         suspendedBy, hashes>>
          /\ cond_lock_' \subseteq cond_lock_
      BY <1>5 DEF ReleaseSignal, CondWait, Awake
    <2>3. ReleaseSignal(t) => local[t].other \in Threads
      BY <1>1 DEF ReleaseSignal, At, Shape
    <2>4. signalled' \subseteq signalled \cup Threads
      BY <1>5, <2>3 DEF ReleaseSignal, CondWait, Awake, Wakes
    <2> QED BY <1>1, <2>1, <2>2, <2>4 DEF TypeOK, pool, LocalTypes
  <1>6. CASE HashLoad(t) \/ HashFromMonitor(t) \/ HashReturn(t)
    <2>1. /\ markWord_.state = "HEAVY_LOCKED" => markWord_.id \in Ids
          /\ markWord_.state = "HASHED" => markWord_.hash \in Hashes
      BY <1>1, MarkFields
    <2>2. local[t].monitor_p \in Ids \cup {NoId}
      BY <1>1 DEF LocalTypes, Locals
    <2>3. local' \in LocalTypes
      <3>1. CASE Return(t)
        BY <1>1, <3>1, MovesTyped
      <3>2. CASE Goto(t, "hashCas")
        BY <1>1, <1>2, <3>2, MovesTyped
      <3>3. CASE local' = [local EXCEPT ![t].pc = "inflate", ![t].after = "hash"]
        BY <1>1, <3>3, SetTyped DEF PcsAre
      <3>4. CASE local' = [local EXCEPT ![t].pc = "hashMonitor", ![t].monitor_p = markWord_.id]
                 /\ markWord_.state = "HEAVY_LOCKED"
        BY <1>1, <2>1, <3>4, SetTyped DEF PcsAre
      <3>5. CASE local' = [local EXCEPT ![t].pc = "enter", ![t].op = "hashEnter"]
        BY <1>1, <3>5, SetTyped DEF PcsAre
      <3> QED BY <1>6, <3>1, <3>2, <3>3, <3>4, <3>5 DEF HashLoad, HashFromMonitor, HashReturn
    <2>4. hashes' \subseteq Hashes
      <3>1. hashes \subseteq Hashes
        BY <1>1 DEF TypeOK
      <3>2. CASE HashLoad(t)
        BY <2>1, <3>1, <3>2 DEF HashLoad
      <3>3. CASE HashFromMonitor(t)
        <4>1. local[t].monitor_p \in Ids
          BY <1>1, <2>2, <3>3 DEF HashFromMonitor, At, Shape
        <4>2. monitor[local[t].monitor_p].hash_code_ \in Hashes \cup {NoHash}
          BY <1>1, <4>1 DEF MonitorRecords
        <4> QED BY <3>1, <3>3, <4>2 DEF HashFromMonitor
      <3>4. CASE HashReturn(t)
        <4>1. local[t].monitor_p \in Ids
          BY <1>1, <2>2, <3>4 DEF HashReturn, At, Shape
        <4>2. monitor[local[t].monitor_p].hash_code_ \in Hashes \cup {NoHash}
          BY <1>1, <4>1 DEF MonitorRecords
        <4>3. monitor[local[t].monitor_p].hash_code_ # NoHash
          BY <1>1, <3>4 DEF HashReturn, At, HashInv
        <4> QED BY <3>1, <3>4, <4>2, <4>3 DEF HashReturn
      <3> QED BY <1>6, <3>2, <3>3, <3>4
    <2>5. UNCHANGED <<markWord_, pool, monitor, depth, waits, suspendedBy>>
      BY <1>6 DEF HashLoad, HashFromMonitor, HashReturn
    <2> QED BY <1>1, <2>3, <2>4, <2>5 DEF TypeOK, pool, waits, LocalTypes
  <1> QED BY <1>3, <1>4, <1>5, <1>6

(* The exchanges of the mark that succeed. *)
LEMMA CasTyped ==
  ASSUME Inv, NEW t \in Threads,
         EnterCas(t) \/ ExitCas(t) \/ InflateCas(t) \/ InflateOtherCas(t) \/ HashCas(t)
  PROVE  TypeOK'
  <1>1. /\ TypeOK /\ local \in LocalTypes /\ markWord_ \in Marks /\ Shape(t, local[t])
        /\ depth \in [Threads -> Nat] /\ monitors_ \subseteq Ids
        /\ (NeedsDepth(local[t]) => depth[t] > 0)
    BY DEF Inv, TypeOK, LocalTypes, ShapeInv
  <1>2. {"resume", "hash"} \subseteq Pcs
    BY DEF Pcs
  <1>3. LightLockMax \in Nat \ {0, 1}
    BY MonitorAssumption DEF MonitorAssumption
  <1>4. /\ markWord_.state = "LIGHT_LOCKED" =>
             markWord_.thread \in Threads /\ markWord_.count \in Nat /\ markWord_.count >= 1
             /\ markWord_.count < LightLockMax
        /\ Unlocked.state = "UNLOCKED"
    BY <1>1, MarkFields, MarksMade
  <1>5. CASE EnterCas(t)
    <2>1. \/ local[t].old_mark = Unlocked
          \/ IsLightOf(local[t].old_mark, t) /\ local[t].old_mark.count + 1 < LightLockMax
      BY <1>1, <1>5 DEF EnterCas, At, Shape
    <2>2. markWord_' \in Marks
      <3>1. CASE local[t].old_mark = Unlocked
        <4>1. markWord_' = Light(t, 1)
          BY <1>4, <1>5, <3>1 DEF EnterCas
        <4> QED BY <1>3, <4>1, MarksMade
      <3>2. CASE IsLightOf(local[t].old_mark, t) /\ local[t].old_mark.count + 1 < LightLockMax
        <4>1. markWord_' = Light(t, markWord_.count + 1) /\ markWord_.state = "LIGHT_LOCKED"
              /\ markWord_.count + 1 < LightLockMax
          BY <1>5, <3>2 DEF EnterCas, IsLightOf
        <4>2. PICK c : c = markWord_.count + 1
          OBVIOUS
        <4>3. c \in Nat /\ c >= 1 /\ c < LightLockMax /\ markWord_' = Light(t, c)
          BY <1>4, <4>1, <4>2
        <4> QED BY <4>3, MarksMade
      <3> QED BY <2>1, <3>1, <3>2
    <2>3. local' \in LocalTypes /\ depth' \in [Threads -> Nat]
      BY <1>1, <1>5, MovesTyped DEF EnterCas
    <2>4. UNCHANGED <<pool, monitor, waits, suspendedBy, hashes>>
      BY <1>5 DEF EnterCas
    <2> QED BY <1>1, <2>2, <2>3, <2>4 DEF TypeOK, pool, waits, LocalTypes
  <1>6. CASE ExitCas(t)
    <2>1. IsLightOf(markWord_, t) /\ depth[t] > 0
      BY <1>1, <1>6 DEF ExitCas, At, Shape, NeedsDepth
    <2>2. markWord_' \in Marks
      <3>1. CASE markWord_.count = 1
        BY <1>6, <3>1, MarksMade DEF ExitCas, OneLevelLess
      <3>2. CASE markWord_.count # 1
        <4>1. PICK c : c = markWord_.count - 1
          OBVIOUS
        <4>2. markWord_' = Light(markWord_.thread, c)
          BY <1>6, <3>2, <4>1 DEF ExitCas, OneLevelLess
        <4>3. c \in Nat /\ c >= 1 /\ c < LightLockMax /\ markWord_.thread \in Threads
          BY <1>3, <1>4, <2>1, <3>2, <4>1 DEF IsLightOf
        <4> QED BY <4>2, <4>3, MarksMade
      <3> QED BY <3>1, <3>2
    <2>3. local' \in LocalTypes
      BY <1>1, <1>6, MovesTyped DEF ExitCas
    <2>4. depth' \in [Threads -> Nat]
      BY <1>1, <1>6, <2>1 DEF ExitCas
    <2>5. UNCHANGED <<pool, monitor, waits, suspendedBy, hashes>>
      BY <1>6 DEF ExitCas
    <2> QED BY <1>1, <2>2, <2>3, <2>4, <2>5 DEF TypeOK, pool, waits, LocalTypes
  <1>7. CASE InflateCas(t) \/ InflateOtherCas(t)
    <2>1. local[t].id \in monitors_
      BY <1>7 DEF Inv, PlaceInv, Inflating, InflatingPcs, InflateCas, InflateOtherCas, At
    <2>2. markWord_' = Heavy(local[t].id)
      BY <1>7 DEF InflateCas, InflateOtherCas
    <2>3. markWord_' \in Marks
      BY <1>1, <2>1, <2>2, MarksMade
    <2>4. local' \in LocalTypes /\ depth' \in [Threads -> Nat]
      <3>1. CASE InflateCas(t)
        BY <1>1, <3>1, MovesTyped DEF InflateCas
      <3>2. CASE InflateOtherCas(t)
        BY <1>1, <1>2, <3>2, MovesTyped DEF InflateOtherCas
      <3> QED BY <1>7, <3>1, <3>2
    <2>5. UNCHANGED <<pool, monitor, waits, suspendedBy, hashes>>
      BY <1>7 DEF InflateCas, InflateOtherCas
    <2> QED BY <1>1, <2>3, <2>4, <2>5 DEF TypeOK, pool, waits, LocalTypes
  <1>8. CASE HashCas(t)
    <2>1. markWord_' \in Marks
      BY <1>8, MarksMade DEF HashCas
    <2>2. local' \in LocalTypes
      BY <1>1, <1>2, <1>8, MovesTyped DEF HashCas
    <2>3. UNCHANGED <<pool, monitor, depth, waits, suspendedBy, hashes>>
      BY <1>8 DEF HashCas
    <2> QED BY <1>1, <2>1, <2>2, <2>3 DEF TypeOK, pool, waits, LocalTypes
  <1> QED BY <1>5, <1>6, <1>7, <1>8

(* A Monitor that a thread creates is well typed, and there is always room for one. *)
LEMMA RoomForOne ==
  ASSUME TypeOK, PoolInv, ~IsHeavy
  PROVE  monitors_ # Ids
  <1> SUFFICES ASSUME monitors_ = Ids
               PROVE  FALSE
    OBVIOUS
  <1>1. Ids = 0 .. MaxMonitorId - 1 /\ MaxMonitorId \in Nat /\ MaxMonitorId > 0
    BY IdsAre
  <1>2. \A i \in Ids : markWord_ # Heavy(i)
    BY MarksMade DEF IsHeavy
  <1>3. \A i \in Ids : \E t \in Threads : local[t].id = i
    BY <1>2 DEF PoolInv
  <1> DEFINE f == [t \in Threads |-> IF local[t].id \in Ids THEN local[t].id ELSE 0]
  <1>4. f \in [Threads -> Ids]
    BY <1>1
  <1>5. \A i \in Ids : \E t \in Threads : f[t] = i
    BY <1>3
  <1> HIDE DEF f
  <1>6. f \in Surjection(Threads, Ids)
    BY <1>4, <1>5, Fun_IsSurj
  <1>7. IsFiniteSet(Threads) /\ Cardinality(Threads) \in Nat /\ MaxMonitorId > Cardinality(Threads)
    BY MonitorAssumption, FS_CardinalityType DEF MonitorAssumption
  <1>8. Cardinality(Ids) <= Cardinality(Threads)
    BY <1>6, <1>7, FS_Surjection
  <1>9. Cardinality(0 .. MaxMonitorId - 1) = MaxMonitorId
    <2>1. 0 \in Int /\ MaxMonitorId - 1 \in Int
      BY <1>1
    <2>2. Cardinality(0 .. MaxMonitorId - 1) =
            IF 0 > MaxMonitorId - 1 THEN 0 ELSE MaxMonitorId - 1 - 0 + 1
      BY <2>1, FS_Interval
    <2> QED BY <1>1, <2>2
  <1> QED BY <1>1, <1>7, <1>8, <1>9

(* The type of a Monitor that was just created. *)
LEMMA FreshTyped ==
  ASSUME NEW owner \in Threads, NEW count \in Nat, NEW hash \in Hashes \cup {NoHash}
  PROVE  Fresh(owner, count, hash) \in MonitorRecords
  BY NewTyped DEF Fresh, MonitorRecords

(* The steps that take an id of the pool, or give one back. *)
LEMMA PoolTyped ==
  ASSUME Inv, NEW t \in Threads,
         InflateLoad(t) \/ InflateOtherLoad(t) \/ InflateCasFail(t) \/ InflateOtherCasFail(t)
  PROVE  TypeOK'
  <1>1. /\ TypeOK /\ local \in LocalTypes /\ markWord_ \in Marks /\ Shape(t, local[t]) /\ PoolInv
        /\ monitor \in [Ids -> MonitorRecords] /\ monitors_ \subseteq Ids /\ last_id_ \in Ids
    BY DEF Inv, TypeOK, LocalTypes, ShapeInv
  <1>2. "resume" \in Pcs
    BY DEF Pcs
  <1>3. UNCHANGED <<markWord_, depth, waits, suspendedBy, hashes>>
    BY DEF InflateLoad, InflateOtherLoad, InflateCasFail, InflateOtherCasFail
  <1>4. /\ markWord_.state = "LIGHT_LOCKED" =>
             markWord_.thread \in Threads /\ markWord_.count \in Nat
        /\ markWord_.state = "HASHED" => markWord_.hash \in Hashes
    BY <1>1, MarkFields
  <1>5. ASSUME NEW owner \in Threads, NEW count \in Nat, NEW hash \in Hashes \cup {NoHash},
               CreateMonitor(owner, count, hash)
        PROVE  /\ NextId \in Ids /\ last_id_' \in Ids /\ monitors_' \subseteq Ids
               /\ monitor' \in [Ids -> MonitorRecords]
    <2>1. NextId \in Ids \ monitors_
      BY <1>1, <1>5, NextIdFree DEF CreateMonitor
    <2>2. PICK i, m : i = NextId /\ m = Fresh(owner, count, hash)
      OBVIOUS
    <2>3. monitor' = [monitor EXCEPT ![i] = m] /\ m \in MonitorRecords /\ i \in Ids
      BY <1>5, <2>1, <2>2, FreshTyped DEF CreateMonitor, Fresh
    <2>4. monitor' \in [Ids -> MonitorRecords]
      BY <1>1, <2>3
    <2> QED BY <1>1, <1>5, <2>1, <2>4 DEF CreateMonitor
  <1>6. ASSUME NEW i \in Ids, FreeMonitor(i)
        PROVE  /\ last_id_' \in Ids /\ monitors_' \subseteq Ids
               /\ monitor' \in [Ids -> MonitorRecords]
    BY <1>1, <1>6, NewTyped DEF FreeMonitor
  <1>7. /\ local' \in LocalTypes /\ last_id_' \in Ids /\ monitors_' \subseteq Ids
        /\ monitor' \in [Ids -> MonitorRecords]
    <2>1. CASE InflateLoad(t)
      <3>1. CASE InflateFailed(t) /\ UNCHANGED <<pool, monitor>>
        BY <1>1, <3>1, MovesTyped DEF pool
      <3>2. CASE /\ markWord_.state = "LIGHT_LOCKED" /\ last_id_' = NextId /\ InflateFailed(t)
                 /\ UNCHANGED <<monitors_, monitor>>
        <4>1. ~IsHeavy
          BY <3>2 DEF IsHeavy
        <4>2. NextId \in Ids
          BY <1>1, <4>1, RoomForOne, NextIdFree
        <4> QED BY <1>1, <3>2, <4>2, MovesTyped
      <3>3. CASE /\ CreateMonitor(t, IF markWord_.state = "LIGHT_LOCKED" THEN markWord_.count ELSE 1,
                                  IF markWord_.state = "HASHED" THEN markWord_.hash ELSE NoHash)
                 /\ local' = [local EXCEPT ![t].pc = "inflateCas", ![t].id = NextId,
                                           ![t].old_mark = markWord_]
        <4>1. PICK count, hash :
                /\ count = (IF markWord_.state = "LIGHT_LOCKED" THEN markWord_.count ELSE 1)
                /\ hash = (IF markWord_.state = "HASHED" THEN markWord_.hash ELSE NoHash)
          OBVIOUS
        <4>2. count \in Nat /\ hash \in Hashes \cup {NoHash}
          BY <1>4, <4>1
        <4>3. CreateMonitor(t, count, hash)
          BY <3>3, <4>1
        <4>4. /\ NextId \in Ids /\ last_id_' \in Ids /\ monitors_' \subseteq Ids
              /\ monitor' \in [Ids -> MonitorRecords]
          BY <1>5, <4>2, <4>3
        <4>5. local' \in LocalTypes
          <5>1. PICK i : i = NextId
            OBVIOUS
          <5>2. local' = [local EXCEPT ![t].pc = "inflateCas", ![t].id = i, ![t].old_mark = markWord_]
                /\ "inflateCas" \in PcsAre /\ i \in Ids
            BY <3>3, <4>4, <5>1 DEF PcsAre
          <5> QED BY <1>1, <5>2, SetTyped
        <4> QED BY <4>4, <4>5
      <3> QED BY <2>1, <3>1, <3>2, <3>3 DEF InflateLoad
    <2>2. CASE InflateOtherLoad(t)
      <3>1. CASE Goto(t, "resume") /\ UNCHANGED <<pool, monitor>>
        BY <1>1, <1>2, <3>1, MovesTyped DEF pool
      <3>2. CASE /\ StillOwner(t) /\ CreateMonitor(local[t].other, markWord_.count, NoHash)
                 /\ local' = [local EXCEPT ![t].pc = "inflateOtherCas", ![t].id = NextId,
                                           ![t].old_mark = markWord_]
        <4>1. local[t].other \in Threads /\ markWord_.count \in Nat
          BY <1>1, <1>4, <2>2, <3>2 DEF InflateOtherLoad, At, Shape, StillOwner, IsLightOf
        <4>2. /\ NextId \in Ids /\ last_id_' \in Ids /\ monitors_' \subseteq Ids
              /\ monitor' \in [Ids -> MonitorRecords]
          BY <1>5, <3>2, <4>1
        <4>3. local' \in LocalTypes
          <5>1. PICK i : i = NextId
            OBVIOUS
          <5>2. local' = [local EXCEPT ![t].pc = "inflateOtherCas", ![t].id = i, ![t].old_mark = markWord_]
                /\ "inflateOtherCas" \in PcsAre /\ i \in Ids
            BY <3>2, <4>2, <5>1 DEF PcsAre
          <5> QED BY <1>1, <5>2, SetTyped
        <4> QED BY <4>2, <4>3
      <3> QED BY <2>2, <3>1, <3>2 DEF InflateOtherLoad
    <2>3. CASE InflateCasFail(t) \/ InflateOtherCasFail(t)
      <3>1. local[t].id \in Ids
        BY <1>1, <2>3 DEF Inv, PlaceInv, Inflating, InflatingPcs, InflateCasFail, InflateOtherCasFail, At
      <3>2. local' \in LocalTypes
        BY <1>1, <1>2, <2>3, MovesTyped DEF InflateCasFail, InflateOtherCasFail
      <3>3. FreeMonitor(local[t].id)
        BY <2>3 DEF InflateCasFail, InflateOtherCasFail
      <3> QED BY <1>6, <3>1, <3>2, <3>3
    <2> QED BY <2>1, <2>2, <2>3
  <1> QED BY <1>1, <1>3, <1>7 DEF TypeOK, waits, LocalTypes

(* Deflation keeps the types. *)
LEMMA DeflateTyped ==
  ASSUME Inv, NEW i \in Ids, Deflate(i)
  PROVE  TypeOK'
  <1>1. TypeOK /\ monitor \in [Ids -> MonitorRecords] /\ monitors_ \subseteq Ids /\ last_id_ \in Ids
    BY DEF Inv, TypeOK
  <1>2. monitor[i].hash_code_ \in Hashes \cup {NoHash}
    BY <1>1 DEF MonitorRecords
  <1>3. markWord_' \in Marks
    BY <1>2, MarksMade DEF Deflate, DeflatedMark
  <1>4. /\ last_id_' \in Ids /\ monitors_' \subseteq Ids
        /\ monitor' \in [Ids -> MonitorRecords]
    BY <1>1, NewTyped DEF Deflate, FreeMonitor
  <1>5. UNCHANGED <<local, depth, waits, suspendedBy, hashes>>
    BY DEF Deflate
  <1> QED BY <1>1, <1>3, <1>4, <1>5 DEF TypeOK, waits

(* The steps on a Monitor. *)
LEMMA PutTyped ==
  ASSUME monitor \in [Ids -> MonitorRecords], NEW i \in Ids, NEW n \in MonitorRecords,
         monitor' = [monitor EXCEPT ![i] = n]
  PROVE  monitor' \in [Ids -> MonitorRecords]
  OBVIOUS

(* A thread that waits or is blocked is counted. *)
LEMMA CountPositive ==
  ASSUME NEW m, CountOK(m), NEW t \in Threads, WaitsIn(local[t]) \/ BlocksIn(local[t])
  PROVE  m.waiters_counter_ \in Nat /\ m.waiters_counter_ > 0
  <1> DEFINE W == {u \in Threads : WaitsIn(local[u])}
             B == {u \in Threads : BlocksIn(local[u])}
  <1>1. W \in SUBSET Threads /\ B \in SUBSET Threads /\ (W # {} \/ B # {})
    OBVIOUS
  <1>2. m.waiters_counter_ = Cardinality(W) + Cardinality(B)
    BY DEF CountOK
  <1> HIDE DEF W, B
  <1>3. IsFiniteSet(W) /\ IsFiniteSet(B)
    BY <1>1, MonitorAssumption, FS_Subset DEF MonitorAssumption
  <1>4. /\ Cardinality(W) \in Nat /\ Cardinality(B) \in Nat
        /\ W # {} => Cardinality(W) # 0
        /\ B # {} => Cardinality(B) # 0
    BY <1>3, FS_CardinalityType, FS_EmptySet
  <1> QED BY <1>1, <1>2, <1>4

(* Acquire keeps them: waiters_counter_ counts the thread that comes back. *)
LEMMA AcquireTyped ==
  ASSUME Inv, NEW t \in Threads, Acquire(t) \/ AcquireBlocked(t) \/ AcquireReturn(t)
  PROVE  TypeOK'
  <1>1. /\ TypeOK /\ local \in LocalTypes /\ monitor \in [Ids -> MonitorRecords]
        /\ depth \in [Threads -> Nat]
    BY DEF Inv, TypeOK, LocalTypes
  <1>2. {"blocked", "owning"} \subseteq Pcs
    BY DEF Pcs, NotRunningPcs
  <1>3. UNCHANGED <<markWord_, pool, waits, suspendedBy, hashes>>
    BY DEF Acquire, AcquireBlocked, AcquireReturn
  <1>4. local' \in LocalTypes /\ depth' \in [Threads -> Nat]
    <2>1. CASE Acquired(t)
      BY <1>1, <2>1, MovesTyped
    <2>2. CASE Return(t) /\ UNCHANGED depth
      BY <1>1, <2>2, MovesTyped
    <2>3. CASE (Goto(t, "blocked") \/ Goto(t, "owning")) /\ UNCHANGED depth
      BY <1>1, <1>2, <2>3, MovesTyped
    <2> QED BY <2>1, <2>2, <2>3 DEF Acquire, AcquireBlocked, AcquireReturn
  <1>5. local[t].pc \in UsingPcs
    BY DEF Acquire, AcquireBlocked, AcquireReturn, At, UsingPcs
  <1>6. PICK i, m : i = local[t].id /\ m = Mon(t)
    OBVIOUS
  <1>7. i \in Ids /\ m \in MonitorRecords /\ m = monitor[i] /\ CountOK(TheMonitor) /\ m = TheMonitor
    BY <1>5, <1>6, UsesIt DEF Mon
  <1>8. monitor' \in [Ids -> MonitorRecords]
    <2>1. CASE monitor' = [monitor EXCEPT ![local[t].id].recursive_counter_ = @ + 1]
      <3>0. PICK c \in Nat : c = m.recursive_counter_ + 1
        BY <1>7 DEF MonitorRecords
      <3>1. [m EXCEPT !.recursive_counter_ = c] \in MonitorRecords
        BY <1>7 DEF MonitorRecords
      <3>2. monitor' = [monitor EXCEPT ![i] = [m EXCEPT !.recursive_counter_ = c]]
        BY <1>1, <1>6, <1>7, <2>1, <3>0
      <3> QED BY <1>1, <1>7, <3>1, <3>2
    <2>2. CASE TakeLock(t)
      <3>0. PICK c \in Nat : c = m.recursive_counter_ + 1
        BY <1>7 DEF MonitorRecords
      <3>1. [m EXCEPT !.lock_ = t, !.owner_ = t, !.recursive_counter_ = c] \in MonitorRecords
        BY <1>7 DEF MonitorRecords
      <3>2. monitor' = [monitor EXCEPT ![i] = [m EXCEPT !.lock_ = t, !.owner_ = t,
                                                        !.recursive_counter_ = c]]
        BY <1>1, <1>6, <1>7, <2>2, <3>0 DEF TakeLock, MonitorRecords
      <3> QED BY <1>1, <1>7, <3>1, <3>2
    <2>3. CASE monitor' = [monitor EXCEPT ![local[t].id].waiters_counter_ = @ + 1]
      <3>0. PICK c \in Nat : c = m.waiters_counter_ + 1
        BY <1>7 DEF MonitorRecords
      <3>1. [m EXCEPT !.waiters_counter_ = c] \in MonitorRecords
        BY <1>7 DEF MonitorRecords
      <3>2. monitor' = [monitor EXCEPT ![i] = [m EXCEPT !.waiters_counter_ = c]]
        BY <1>1, <1>6, <1>7, <2>3, <3>0
      <3> QED BY <1>1, <1>7, <3>1, <3>2
    <2>4. CASE AcquireReturn(t)
      <3>1. m.waiters_counter_ \in Nat /\ m.waiters_counter_ > 0
        <4>1. BlocksIn(local[t])
          BY <2>4 DEF AcquireReturn, At, BlocksIn
        <4> QED BY <1>7, <4>1, CountPositive
      <3>2. [m EXCEPT !.waiters_counter_ = @ - 1] \in MonitorRecords
        BY <1>7, <3>1 DEF MonitorRecords
      <3>3. monitor' = [monitor EXCEPT ![i] = [m EXCEPT !.waiters_counter_ = @ - 1]]
        BY <1>1, <1>6, <1>7, <2>4 DEF AcquireReturn
      <3> QED BY <1>1, <1>7, <3>2, <3>3
    <2>5. CASE UNCHANGED monitor
      BY <1>1, <2>5
    <2> QED BY <2>1, <2>2, <2>3, <2>4, <2>5 DEF Acquire, AcquireBlocked
  <1> QED BY <1>1, <1>3, <1>4, <1>8 DEF TypeOK, pool, waits, LocalTypes

(* Release keeps them: the owner has a level, and has entered it. *)
LEMMA ReleaseTyped ==
  ASSUME Inv, NEW t \in Threads, Release(t) \/ ReleaseUnlock(t)
  PROVE  TypeOK'
  <1>1. /\ TypeOK /\ local \in LocalTypes /\ monitor \in [Ids -> MonitorRecords]
        /\ depth \in [Threads -> Nat] /\ Shape(t, local[t])
        /\ (NeedsDepth(local[t]) => depth[t] > 0)
    BY DEF Inv, TypeOK, LocalTypes, ShapeInv
  <1>2. "unlock" \in Pcs
    BY DEF Pcs
  <1>3. UNCHANGED <<markWord_, pool, waits, suspendedBy, hashes>>
    BY DEF Release, ReleaseUnlock
  <1>4. local[t].pc \in UsingPcs
    BY DEF Release, ReleaseUnlock, At, UsingPcs
  <1>5. PICK i, m : i = local[t].id /\ m = Mon(t)
    OBVIOUS
  <1>6. i \in Ids /\ m \in MonitorRecords /\ m = monitor[i] /\ m = TheMonitor /\ ListsOK(m)
    BY <1>4, <1>5, UsesIt DEF Mon
  <1>7. m.to_wakeup_ \in Seq(Threads) /\ NoDup(m.to_wakeup_) /\ m.recursive_counter_ \in Nat
        /\ NoThread \notin Threads
    BY <1>6, MonitorAssumption DEF MonitorRecords, ListsOK, MonitorAssumption
  <1>8. CASE ReleaseUnlock(t)
    <2>1. local' \in LocalTypes
      BY <1>1, <1>8, MovesTyped DEF ReleaseUnlock
    <2>2. [m EXCEPT !.lock_ = NoThread] \in MonitorRecords
      BY <1>6 DEF MonitorRecords
    <2>3. monitor' = [monitor EXCEPT ![i] = [m EXCEPT !.lock_ = NoThread]]
      BY <1>1, <1>5, <1>6, <1>8 DEF ReleaseUnlock
    <2>4. monitor' \in [Ids -> MonitorRecords] /\ depth' = depth
      BY <1>1, <1>6, <1>8, <2>2, <2>3 DEF ReleaseUnlock
    <2> QED BY <1>1, <1>3, <2>1, <2>4 DEF TypeOK, pool, waits, LocalTypes
  <1>9. CASE Release(t)
    <2>1. depth' \in [Threads -> Nat]
      <3>1. local[t].op # "wait" => depth[t] > 0
        BY <1>1, <1>9 DEF Release, At, Shape, NeedsDepth
      <3>2. depth' = IF local[t].op = "wait" THEN depth ELSE [depth EXCEPT ![t] = @ - 1]
        BY <1>9 DEF Release
      <3> QED BY <1>1, <3>1, <3>2
    <2>2. PICK w : w = FrontToWakeup(t)
      OBVIOUS
    <2>3. /\ w \in Threads \cup {NoThread}
          /\ w # NoThread => m.to_wakeup_ # <<>> /\ Tail(m.to_wakeup_) \in Seq(Threads)
      BY <1>5, <1>7, <2>2, InTail DEF FrontToWakeup
    <2>4. local' \in LocalTypes
      <3>1. CASE Released(t)
        BY <1>1, <3>1, MovesTyped
      <3>2. CASE Goto(t, "unlock")
        BY <1>1, <1>2, <3>2, MovesTyped
      <3>3. CASE w # NoThread /\ local' = [local EXCEPT ![t].pc = "signal", ![t].other = w]
        BY <1>1, <2>3, <3>3, SetTyped DEF PcsAre
      <3> QED BY <1>9, <2>2, <3>1, <3>2, <3>3 DEF Release
    <2>5. monitor' \in [Ids -> MonitorRecords]
      <3>1. CASE /\ Mon(t).recursive_counter_ > 1
                 /\ monitor' = [monitor EXCEPT ![local[t].id].recursive_counter_ = @ - 1]
        <4>1. [m EXCEPT !.recursive_counter_ = @ - 1] \in MonitorRecords
          BY <1>5, <1>6, <1>7, <3>1 DEF MonitorRecords
        <4>2. monitor' = [monitor EXCEPT ![i] = [m EXCEPT !.recursive_counter_ = @ - 1]]
          BY <1>1, <1>5, <1>6, <3>1
        <4> QED BY <1>1, <1>6, <4>1, <4>2
      <3>2. CASE monitor' = [monitor EXCEPT
                   ![local[t].id].recursive_counter_ = 0, ![local[t].id].owner_ = NoThread,
                   ![local[t].id].to_wakeup_ = IF w = NoThread THEN @ ELSE Tail(@)]
        <4>1. PICK rest : rest = IF w = NoThread THEN m.to_wakeup_ ELSE Tail(m.to_wakeup_)
          OBVIOUS
        <4>2. rest \in Seq(Threads)
          BY <1>7, <2>3, <4>1
        <4>3. [m EXCEPT !.recursive_counter_ = 0, !.owner_ = NoThread, !.to_wakeup_ = rest]
                \in MonitorRecords
          BY <1>6, <4>2 DEF MonitorRecords
        <4>4. monitor' = [monitor EXCEPT ![i] =
                 [m EXCEPT !.recursive_counter_ = 0, !.owner_ = NoThread, !.to_wakeup_ = rest]]
          BY <1>1, <1>5, <1>6, <3>2, <4>1 DEF MonitorRecords
        <4> QED BY <1>1, <1>6, <4>3, <4>4
      <3> QED BY <1>9, <2>2, <3>1, <3>2 DEF Release
    <2> QED BY <1>1, <1>3, <2>1, <2>4, <2>5 DEF TypeOK, pool, waits, LocalTypes
  <1> QED BY <1>8, <1>9

(* The two ends of Wait keep them. *)
LEMMA WaitTyped ==
  ASSUME Inv, NEW t \in Threads, WaitEnlist(t) \/ WaitEnd(t)
  PROVE  TypeOK'
  <1>1. /\ TypeOK /\ local \in LocalTypes /\ monitor \in [Ids -> MonitorRecords]
        /\ markWord_ \in Marks /\ Shape(t, local[t])
        /\ waiting_monitor_ \in [Threads -> Ids \cup {NoId}]
    BY DEF Inv, TypeOK, LocalTypes, ShapeInv
  <1>2. CASE WaitEnlist(t)
    <2>1. PICK i, m : i = markWord_.id /\ m = monitor[i]
      OBVIOUS
    <2>2. i \in Ids /\ m \in MonitorRecords
      BY <1>1, <1>2, <2>1, MarkFields DEF WaitEnlist
    <2>3. m.waiters_ \in Seq(Threads) /\ m.recursive_counter_ \in Nat
      BY <2>2 DEF MonitorRecords
    <2>4. PICK list : list = <<t>> \o m.waiters_ /\ list \in Seq(Threads)
      BY <2>3, InOne, InBoth
    <2>5. PICK w \in Nat : w = m.waiters_counter_ + 1
      BY <2>2 DEF MonitorRecords
    <2>6. /\ [m EXCEPT !.waiters_ = list, !.recursive_counter_ = 1, !.waiters_counter_ = w]
               \in MonitorRecords
          /\ monitor' = [monitor EXCEPT ![i] =
               [m EXCEPT !.waiters_ = list, !.recursive_counter_ = 1, !.waiters_counter_ = w]]
      <3>1. [m EXCEPT !.waiters_ = list, !.recursive_counter_ = 1, !.waiters_counter_ = w]
              \in MonitorRecords
        BY <2>2, <2>4 DEF MonitorRecords
      <3> QED BY <1>1, <1>2, <2>1, <2>2, <2>4, <2>5, <3>1 DEF WaitEnlist, MonitorRecords
    <2>7. monitor' \in [Ids -> MonitorRecords]
      BY <1>1, <2>2, <2>5, <2>6
    <2>8. local' \in LocalTypes
      <3>1. PICK c : c = m.recursive_counter_
        OBVIOUS
      <3>2. /\ local' = [local EXCEPT ![t].pc = "release", ![t].id = i, ![t].counter = c]
            /\ c \in Nat /\ "release" \in PcsAre
        BY <1>2, <2>1, <2>3, <3>1 DEF WaitEnlist, PcsAre
      <3> QED BY <1>1, <2>2, <3>2, SetTyped
    <2>9. waiting_monitor_' \in [Threads -> Ids \cup {NoId}] /\ cond_lock_' = cond_lock_ \cup {t}
      BY <1>1, <1>2, <2>1, <2>2 DEF WaitEnlist, LockCond
    <2>10. UNCHANGED <<markWord_, pool, depth, signalled, is_interrupted_, suspendedBy, hashes>>
      BY <1>2 DEF WaitEnlist
    <2> QED BY <1>1, <2>7, <2>8, <2>9, <2>10 DEF TypeOK, pool, LocalTypes
  <1>3. CASE WaitEnd(t)
    <2>1. PICK i, m, c : i = local[t].id /\ m = monitor[i] /\ c = local[t].counter
      OBVIOUS
    <2>2. local[t].pc \in UsingPcs /\ WaitsIn(local[t])
      BY <1>1, <1>3 DEF WaitEnd, At, UsingPcs, WaitsIn, Shape
    <2>3. i \in Ids /\ m \in MonitorRecords /\ CountOK(m) /\ ListsOK(m)
      BY <2>1, <2>2, UsesIt DEF Mon
    <2>4. m.waiters_counter_ \in Nat /\ m.waiters_counter_ > 0
      BY <2>2, <2>3, CountPositive
    <2>5. PICK a, b : /\ a = Remove(m.waiters_, t) /\ b = Remove(m.to_wakeup_, t)
                      /\ a \in Seq(Threads) /\ b \in Seq(Threads)
      <3>1. m.waiters_ \in Seq(Threads) /\ m.to_wakeup_ \in Seq(Threads)
            /\ NoDup(m.waiters_) /\ NoDup(m.to_wakeup_)
        BY <2>3 DEF MonitorRecords, ListsOK
      <3> QED BY <3>1, InRemove
    <2>6. c \in Nat
      BY <1>1, <2>1 DEF LocalTypes, Locals
    <2>13. PICK w \in Nat : w = m.waiters_counter_ - 1
      BY <2>4
    <2>7. [m EXCEPT !.waiters_counter_ = w, !.recursive_counter_ = c, !.waiters_ = a,
                    !.to_wakeup_ = b] \in MonitorRecords
      BY <2>3, <2>5, <2>6 DEF MonitorRecords
    <2>8. monitor' = [monitor EXCEPT ![i] =
            [m EXCEPT !.waiters_counter_ = w, !.recursive_counter_ = c, !.waiters_ = a,
                      !.to_wakeup_ = b]]
      BY <1>1, <1>3, <2>1, <2>3, <2>5, <2>13 DEF WaitEnd, MonitorRecords
    <2>9. monitor' \in [Ids -> MonitorRecords]
      BY <1>1, <2>3, <2>7, <2>8
    <2>10. local' \in LocalTypes
      BY <1>1, <1>3, MovesTyped DEF WaitEnd
    <2>11. waiting_monitor_' \in [Threads -> Ids \cup {NoId}]
      BY <1>1, <1>3 DEF WaitEnd
    <2>12. UNCHANGED <<markWord_, pool, depth, cond_lock_, signalled, is_interrupted_,
                       suspendedBy, hashes>>
      BY <1>3 DEF WaitEnd
    <2> QED BY <1>1, <2>9, <2>10, <2>11, <2>12 DEF TypeOK, pool, LocalTypes
  <1> QED BY <1>2, <1>3

(* Notify keeps them. *)
LEMMA NotifyTyped ==
  ASSUME Inv, NEW t \in Threads, NEW all \in BOOLEAN, NotifyBy(t, all)
  PROVE  TypeOK'
  <1>1. TypeOK /\ monitor \in [Ids -> MonitorRecords] /\ markWord_ \in Marks
    BY DEF Inv, TypeOK
  <1>2. PICK i, m : i = markWord_.id /\ m = monitor[i]
    OBVIOUS
  <1>3. i \in Ids /\ m \in MonitorRecords /\ ListsOK(m) /\ m.waiters_ # <<>>
    BY <1>1, <1>2, MarkFields DEF NotifyBy, Inv, HeavyInv, IsHeavy, TheMonitor
  <1>4. m.waiters_ \in Seq(Threads) /\ m.to_wakeup_ \in Seq(Threads) /\ NoDup(m.waiters_)
    BY <1>3 DEF MonitorRecords, ListsOK
  <1>5. m.to_wakeup_ \o m.waiters_ \in Seq(Threads)
    BY <1>4, InBoth
  <1>6. Head(m.waiters_) \in Threads /\ Tail(m.waiters_) \in Seq(Threads)
    BY <1>3, <1>4, InTail
  <1>7. <<Head(m.waiters_)>> \o m.to_wakeup_ \in Seq(Threads)
    BY <1>4, <1>6, InOne, InBoth
  <1>8. MoveAll(m) \in MonitorRecords
    <2>1. <<>> \in Seq(Threads)
      OBVIOUS
    <2> QED BY <1>3, <1>5, <2>1 DEF MoveAll, MonitorRecords
  <1>9. MoveOne(m) \in MonitorRecords
    BY <1>3, <1>6, <1>7 DEF MoveOne, MonitorRecords
  <1>10. PICK n \in MonitorRecords : monitor' = [monitor EXCEPT ![i] = n]
    BY <1>2, <1>8, <1>9 DEF NotifyBy
  <1>11. monitor' \in [Ids -> MonitorRecords]
    BY <1>1, <1>3, <1>10
  <1>12. UNCHANGED <<markWord_, pool, local, depth, waits, suspendedBy, hashes>>
    BY DEF NotifyBy
  <1> QED BY <1>1, <1>11, <1>12 DEF TypeOK, pool, waits

(* HashSet keeps them. *)
LEMMA HashSetTyped ==
  ASSUME Inv, NEW t \in Threads, HashSet(t)
  PROVE  TypeOK'
  <1>1. /\ TypeOK /\ monitor \in [Ids -> MonitorRecords] /\ local \in LocalTypes /\ Shape(t, local[t])
    BY DEF Inv, TypeOK, LocalTypes, ShapeInv
  <1>2. PICK i, m : i = local[t].monitor_p /\ m = monitor[i]
    OBVIOUS
  <1>3. i \in Ids /\ m \in MonitorRecords
    BY <1>1, <1>2 DEF HashSet, At, Shape, LocalTypes, Locals
  <1>4. PICK h \in Hashes :
          monitor' = [monitor EXCEPT ![i].hash_code_ = IF @ = NoHash THEN h ELSE @]
    BY <1>2 DEF HashSet
  <1>5. PICK g : g = IF m.hash_code_ = NoHash THEN h ELSE m.hash_code_
    OBVIOUS
  <1>6. g \in Hashes \cup {NoHash}
    BY <1>3, <1>5 DEF MonitorRecords
  <1>7. [m EXCEPT !.hash_code_ = g] \in MonitorRecords
    BY <1>3, <1>6 DEF MonitorRecords
  <1>8. monitor' = [monitor EXCEPT ![i] = [m EXCEPT !.hash_code_ = g]]
    BY <1>1, <1>2, <1>3, <1>4, <1>5
  <1>9. monitor' \in [Ids -> MonitorRecords]
    BY <1>1, <1>3, <1>7, <1>8
  <1>10. local' \in LocalTypes
    BY <1>1, SetTyped DEF HashSet, PcsAre
  <1>11. UNCHANGED <<markWord_, pool, depth, waits, suspendedBy, hashes>>
    BY DEF HashSet
  <1> QED BY <1>1, <1>9, <1>10, <1>11 DEF TypeOK, pool, waits, LocalTypes

(* The invariant holds at the start: nobody is in a call and there is no Monitor. *)
LEMMA InitInv == Init => Inv
  <1> SUFFICES ASSUME Init PROVE Inv
    OBVIOUS
  <1>1. ASSUME NEW t \in Threads
        PROVE  /\ local[t] = IdleLocal /\ depth[t] = 0 /\ waiting_monitor_[t] = NoId
               /\ IdleLocal.pc = "idle" /\ IdleLocal.op = "none" /\ IdleLocal.monitor_p = NoId
    BY DEF Init, IdleLocal
  <1>2. /\ markWord_ = Unlocked /\ markWord_.state = "UNLOCKED" /\ ~IsHeavy
        /\ \A i \in Ids : markWord_ # Heavy(i)
    BY MarksMade DEF Init, IsHeavy
  <1>3. TypeOK
    <2>1. /\ markWord_ \in Marks /\ monitors_ \subseteq Ids
          /\ cond_lock_ \subseteq Threads /\ signalled \subseteq Threads
          /\ is_interrupted_ \subseteq Threads /\ hashes \subseteq Hashes
      BY MarksMade DEF Init
    <2>2. last_id_ \in Ids
      BY IdsAre DEF Init
    <2>3. monitor \in [Ids -> MonitorRecords] /\ local \in [Threads -> Locals]
      BY NewTyped, IdleTyped DEF Init
    <2>4. /\ depth \in [Threads -> Nat] /\ waiting_monitor_ \in [Threads -> Ids \cup {NoId}]
          /\ suspendedBy \in [Threads -> SUBSET Threads]
      BY DEF Init
    <2> QED BY <2>1, <2>2, <2>3, <2>4 DEF TypeOK
  <1>4. ASSUME NEW t \in Threads
        PROVE  /\ Shape(t, local[t]) /\ ~NeedsDepth(local[t]) /\ local[t].pc \notin UsingPcs
               /\ ~Inflating(t) /\ ~WaitsIn(local[t]) /\ local[t].monitor_p = NoId
               /\ local[t].op # "hashExit" /\ local[t].pc # "hashReturn"
    <2>1. local[t].pc = "idle" /\ local[t].op = "none" /\ local[t].monitor_p = NoId
      BY <1>1
    <2>2. Shape(t, local[t])
      BY <2>1 DEF Shape, EnterOps, HashOps, UsingPcs
    <2> QED BY <2>1, <2>2 DEF NeedsDepth, UsingPcs, Inflating, InflatingPcs, WaitsIn
  <1>5. ShapeInv /\ PlaceInv
    BY <1>4 DEF ShapeInv, PlaceInv
  <1>6. PoolInv
    <2>1. monitors_ = {} /\ \A i \in Ids : monitor[i] = NewMonitor
      BY DEF Init
    <2> QED BY <1>2, <1>4, <2>1 DEF PoolInv
  <1>7. WaitInv
    BY <1>1, <1>4 DEF WaitInv, Init
  <1>8. HeavyInv
    BY <1>2 DEF HeavyInv
  <1>9. HashInv
    BY <1>4 DEF HashInv, Init
  <1>10. LevelsInv
    <2> SUFFICES ASSUME NEW t \in Threads PROVE LevelsOK(local[t], Levels(t), depth[t])
      BY DEF LevelsInv
    <2>1. Levels(t) = 0
      BY <1>2 DEF Levels, IsLightOf
    <2>2. ~WaitsIn(local[t]) /\ local[t].pc = "idle" /\ depth[t] = 0
      BY <1>1, <1>4
    <2> QED BY <2>1, <2>2 DEF LevelsOK
  <1> QED BY <1>3, <1>5, <1>6, <1>7, <1>8, <1>9, <1>10 DEF Inv

(* The steps that look at the mark, or raise a flag. *)
LEMMA LookInv ==
  ASSUME Inv, NEW t \in Threads,
         \/ \E trylock \in BOOLEAN : MonitorEnter(t, trylock)
         \/ MonitorExit(t) \/ Wait(t) \/ GetHashCode(t) \/ Poll(t) \/ Interrupted(t) \/ Interrupt(t)
         \/ EnterLoad(t) \/ EnterCasFail(t) \/ SuspendOwner(t) \/ OwnerSuspended(t)
         \/ ResumeOwner(t) \/ ExitLoad(t) \/ ExitCasFail(t) \/ WaitInflate(t)
         \/ WaitInterrupted(t) \/ HashLoad(t) \/ HashCasFail(t) \/ HashSleep(t)
         \/ HashFromMonitor(t) \/ HashReturn(t)
  PROVE  Inv'
  <1>1. TypeOK'
    BY LookTyped, FlagTyped
  <1>2. Rest'
    <2>1. CASE (\E trylock \in BOOLEAN : MonitorEnter(t, trylock))
               \/ MonitorExit(t) \/ Wait(t) \/ GetHashCode(t)
      BY <2>1, CallRest
    <2>2. CASE Poll(t) \/ Interrupted(t) \/ WaitInflate(t) \/ WaitInterrupted(t)
      BY <2>2, WaitRest
    <2>3. CASE Interrupt(t)
      BY <2>3, InterruptRest
    <2>4. CASE EnterLoad(t)
      BY <2>4, EnterLoadRest
    <2>5. CASE EnterCasFail(t) \/ SuspendOwner(t) \/ OwnerSuspended(t) \/ ResumeOwner(t)
      BY <2>5, EnterRest
    <2>6. CASE ExitLoad(t) \/ ExitCasFail(t)
      BY <2>6, ExitRest
    <2>7. CASE HashLoad(t) \/ HashCasFail(t) \/ HashSleep(t) \/ HashFromMonitor(t) \/ HashReturn(t)
      BY <2>7, HashRest
    <2> QED BY <2>1, <2>2, <2>3, <2>4, <2>5, <2>6, <2>7
  <1> QED BY <1>1, <1>2 DEF Inv, Rest

(* The steps of Inflate, and the exchanges of the mark. *)
LEMMA InflateInv ==
  ASSUME Inv, NEW t \in Threads,
         \/ InflateLoad(t) \/ InflateOtherLoad(t) \/ InflateCasFail(t) \/ InflateOtherCasFail(t)
         \/ Cas(t)
  PROVE  Inv'
  <1>1. TypeOK'
    BY CasTyped, PoolTyped DEF Cas
  <1>2. local \in [Threads -> Locals]
    BY DEF Inv, TypeOK
  <1>3. Rest'
    <2>1. CASE InflateLoad(t)
      <3>1. \/ InflateFailed(t) /\ UNCHANGED <<monitors_, monitor>>
            \/ \E m, i : local' = [local EXCEPT ![t].pc = "inflateCas", ![t].id = i, ![t].old_mark = m]
        BY <2>1 DEF InflateLoad, pool
      <3>2. CASE InflateFailed(t) /\ UNCHANGED <<monitors_, monitor>>
        BY <2>1, <3>2, InflateFailedRest
      <3>3. CASE \E m, i : local' = [local EXCEPT ![t].pc = "inflateCas", ![t].id = i, ![t].old_mark = m]
        <4>1. local'[t].pc = "inflateCas"
          BY <1>2, <3>3 DEF Locals
        <4>2. At(t, "inflate")
          BY <2>1 DEF InflateLoad
        <4> QED BY <2>1, <4>1, <4>2, CreateRest
      <3> QED BY <3>1, <3>2, <3>3
    <2>2. CASE InflateOtherLoad(t)
      <3>1. \/ Goto(t, "resume") /\ UNCHANGED <<pool, monitor>>
            \/ \E m, i : local' = [local EXCEPT ![t].pc = "inflateOtherCas", ![t].id = i, ![t].old_mark = m]
        BY <2>2 DEF InflateOtherLoad
      <3>2. CASE Goto(t, "resume") /\ UNCHANGED <<pool, monitor>>
        BY <2>2, <3>2, EnterRest
      <3>3. CASE \E m, i : local' = [local EXCEPT ![t].pc = "inflateOtherCas", ![t].id = i, ![t].old_mark = m]
        <4>1. local'[t].pc = "inflateOtherCas"
          BY <1>2, <3>3 DEF Locals
        <4> QED BY <2>2, <4>1, CreateRest
      <3> QED BY <3>1, <3>2, <3>3
    <2>3. CASE InflateCasFail(t) \/ InflateOtherCasFail(t)
      BY <2>3, FreeRest
    <2>4. CASE EnterCas(t) \/ ExitCas(t)
      BY <2>4, LightRest
    <2>5. CASE InflateCas(t) \/ InflateOtherCas(t)
      BY <2>5, PublishRest
    <2>6. CASE HashCas(t)
      BY <2>6, HashCasRest
    <2> QED BY <2>1, <2>2, <2>3, <2>4, <2>5, <2>6 DEF Cas
  <1> QED BY <1>1, <1>3 DEF Inv, Rest

(* The steps on the object's Monitor. *)
LEMMA MonitorInv ==
  ASSUME Inv, NEW t \in Threads,
         \/ Acquire(t) \/ AcquireBlocked(t) \/ AcquireReturn(t)
         \/ Release(t) \/ ReleaseSignal(t) \/ ReleaseUnlock(t)
         \/ WaitEnlist(t) \/ CondWait(t) \/ WaitSignalled(t) \/ WaitTimeout(t) \/ WaitEnd(t)
         \/ Notify(t) \/ NotifyAll(t) \/ HashSet(t)
  PROVE  Inv'
  <1>1. TypeOK' /\ Rest'
    <2>1. CASE Acquire(t) \/ AcquireBlocked(t) \/ AcquireReturn(t)
      BY <2>1, AcquireTyped, AcquireRest
    <2>2. CASE Release(t)
      BY <2>2, ReleaseTyped, ReleaseRest
    <2>3. CASE ReleaseSignal(t)
      BY <2>3, FlagTyped, SignalRest
    <2>4. CASE ReleaseUnlock(t)
      BY <2>4, ReleaseTyped, UnlockRest
    <2>5. CASE WaitEnlist(t)
      BY <2>5, WaitTyped, EnlistRest
    <2>6. CASE CondWait(t) \/ Awake(t)
      BY <2>6, FlagTyped, CondWaitRest
    <2>7. CASE WaitEnd(t)
      BY <2>7, WaitTyped, WaitEndRest
    <2>8. CASE NotifyBy(t, TRUE) \/ NotifyBy(t, FALSE)
      BY <2>8, NotifyTyped, NotifyRest
    <2>9. CASE HashSet(t)
      BY <2>9, HashSetTyped, HashSetRest
    <2> QED BY <2>1, <2>2, <2>3, <2>4, <2>5, <2>6, <2>7, <2>8, <2>9
            DEF WaitSignalled, WaitTimeout, Notify, NotifyAll
  <1> QED BY <1>1 DEF Inv, Rest

(* Every step keeps the invariant. *)
LEMMA InvNext == Inv /\ [Next]_vars => Inv'
  <1> SUFFICES ASSUME Inv, [Next]_vars PROVE Inv'
    OBVIOUS
  <1>1. CASE UNCHANGED vars
    <2>1. TypeOK'
      BY <1>1 DEF Inv, TypeOK, vars
    <2>2. WaitInv'
      BY <1>1 DEF Inv, WaitInv, WaitsIn, vars
    <2>3. Rest'
      BY <1>1, <2>2, SignalMore DEF vars
    <2> QED BY <2>1, <2>3 DEF Inv, Rest
  <1>2. CASE \E i \in Ids : Deflate(i)
    BY <1>2, DeflateTyped, DeflateRest DEF Inv, Rest
  <1>3. ASSUME NEW t \in Threads, Call(t) \/ Step(t) \/ WaitTimeout(t) \/ Interrupt(t)
        PROVE  Inv'
    <2>1. CASE Call(t)
      BY <2>1, LookInv, MonitorInv DEF Call
    <2>2. CASE WaitTimeout(t) \/ Interrupt(t) \/ Poll(t)
      BY <2>2, LookInv, MonitorInv
    <2>3. CASE Cas(t) \/ CasFail(t)
      BY <2>3, LookInv, InflateInv DEF CasFail
    <2>4. CASE EnterStep(t)
      BY <2>4, LookInv, InflateInv, MonitorInv DEF EnterStep
    <2>5. CASE ExitStep(t) \/ WaitStep(t) \/ HashStep(t)
      BY <2>5, LookInv, MonitorInv DEF ExitStep, WaitStep, HashStep
    <2> QED BY <1>3, <2>1, <2>2, <2>3, <2>4, <2>5 DEF Step
  <1> QED BY <1>1, <1>2, <1>3 DEF Next

(* The invariant of the monitor of an object: mark word, pool, Monitor and threads agree. *)
THEOREM Invariance == Spec => []Inv
  <1> QED BY InitInv, InvNext, PTL DEF Spec

(* A Monitor that is not the object's is in nobody's lists and nobody waits for it: it is
   free, or its creator has not published it. *)
LEMMA OtherMonitor ==
  ASSUME Inv, NEW i \in Ids, markWord_ # Heavy(i)
  PROVE  /\ monitor[i].waiters_ = <<>> /\ monitor[i].to_wakeup_ = <<>>
         /\ \A t \in Threads : waiting_monitor_[t] # i
  <1>1. /\ PoolInv /\ PlaceInv /\ WaitInv
    BY DEF Inv
  <1>2. monitor[i].waiters_ = <<>> /\ monitor[i].to_wakeup_ = <<>>
    <2>1. CASE i \notin monitors_
      BY <1>1, <2>1 DEF PoolInv, NewMonitor
    <2>2. CASE i \in monitors_
      <3>1. PICK t \in Threads : Inflating(t) /\ local[t].id = i
        BY <1>1, <2>2 DEF PoolInv
      <3>2. monitor[i] = PrivateFor(local[t], t)
        BY <1>1, <3>1 DEF PlaceInv
      <3> QED BY <3>2 DEF PrivateFor, Fresh, NewMonitor
    <2> QED BY <2>1, <2>2
  <1>3. ASSUME NEW t \in Threads
        PROVE  waiting_monitor_[t] # i
    <2>1. waiting_monitor_[t] = IF WaitsIn(local[t]) THEN local[t].id ELSE NoId
      BY <1>1 DEF WaitInv
    <2>2. WaitsIn(local[t]) => markWord_ = Heavy(local[t].id)
      BY <1>1 DEF PlaceInv, WaitsIn
    <2> QED BY <2>1, <2>2, IdsAre
  <1> QED BY <1>2, <1>3

(* The object's Monitor, and who waits for it. *)
LEMMA ObjectMonitor ==
  ASSUME Inv, NEW i \in Ids, markWord_ = Heavy(i)
  PROVE  /\ CountOK(monitor[i]) /\ OwnersOK(monitor[i]) /\ ListsOK(monitor[i]) /\ WakesOK(monitor[i])
         /\ monitor[i].waiters_ \in Seq(Threads) /\ monitor[i].to_wakeup_ \in Seq(Threads)
         /\ \A t \in Threads : WaitsIn(local[t]) <=> waiting_monitor_[t] = i
         /\ \A t \in Threads : BlocksIn(local[t]) => local[t].id = i
  <1>1. /\ HeavyInv /\ PlaceInv /\ WaitInv /\ monitor \in [Ids -> MonitorRecords]
    BY DEF Inv, TypeOK
  <1>2. IsHeavy /\ TheMonitor = monitor[i]
    BY MarksMade DEF IsHeavy, TheMonitor
  <1>3. CountOK(monitor[i]) /\ OwnersOK(monitor[i]) /\ ListsOK(monitor[i]) /\ WakesOK(monitor[i])
    BY <1>1, <1>2 DEF HeavyInv
  <1>4. monitor[i].waiters_ \in Seq(Threads) /\ monitor[i].to_wakeup_ \in Seq(Threads)
    BY <1>1 DEF MonitorRecords
  <1>5. ASSUME NEW t \in Threads
        PROVE  /\ WaitsIn(local[t]) <=> waiting_monitor_[t] = i
               /\ BlocksIn(local[t]) => local[t].id = i
    <2>1. waiting_monitor_[t] = IF WaitsIn(local[t]) THEN local[t].id ELSE NoId
      BY <1>1 DEF WaitInv
    <2>2. WaitsIn(local[t]) \/ BlocksIn(local[t]) => markWord_ = Heavy(local[t].id)
      BY <1>1 DEF PlaceInv, WaitsIn, BlocksIn, UsingPcs
    <2> QED BY <2>1, <2>2, IdsAre, MarksMade
  <1> QED BY <1>3, <1>4, <1>5

(* A thread has at most one place in a list without duplicates. *)
LEMMA OnePlace ==
  ASSUME NEW s \in Seq(Threads), NoDup(s), NEW t
  PROVE  /\ Cardinality({k \in DOMAIN s : s[k] = t}) <= 1
         /\ In(t, s) <=> {k \in DOMAIN s : s[k] = t} # {}
  <1>1. DOMAIN s = 1 .. Len(s) /\ Len(s) \in Nat
    OBVIOUS
  <1>2. PICK p : p = {k \in DOMAIN s : s[k] = t}
    OBVIOUS
  <1>3. In(t, s) <=> p # {}
    BY <1>1, <1>2 DEF In
  <1>4. Cardinality(p) <= 1
    <2>1. CASE p = {}
      BY <2>1, FS_EmptySet
    <2>2. CASE p # {}
      <3>1. PICK k : k \in p
        BY <2>2
      <3>2. ASSUME NEW j \in p
            PROVE  j = k
        BY <1>1, <1>2, <3>1 DEF NoDup
      <3>3. p = {k}
        BY <3>1, <3>2
      <3>4. Cardinality(p) = 1
        BY <3>3, FS_Singleton
      <3> QED BY <3>4
    <2> QED BY <2>1, <2>2
  <1> QED BY <1>2, <1>3, <1>4

(* The properties that the runs check follow from the invariant. *)
LEMMA InvLists == Inv => ListsExact
  <1> SUFFICES ASSUME Inv, NEW t \in Threads, NEW i \in Ids, NEW p,
                      p = {k \in DOMAIN InLists(i) : InLists(i)[k] = t}
               PROVE  /\ Cardinality(p) <= 1
                      /\ p # {} => waiting_monitor_[t] = i
                      /\ waiting_monitor_[t] = i /\ local[t].pc \in {"release", "condWait", "waiting"} =>
                           \/ p # {}
                           \/ t \in signalled
                           \/ \E u \in Threads : At(u, "signal") /\ local[u].other = t
    BY DEF ListsExact
  <1>1. CASE markWord_ # Heavy(i)
    <2>1. /\ monitor[i].waiters_ = <<>> /\ monitor[i].to_wakeup_ = <<>>
          /\ waiting_monitor_[t] # i
      BY <1>1, OtherMonitor
    <2>2. InLists(i) = <<>>
      BY <2>1 DEF InLists
    <2>3. p = {}
      BY <2>2
    <2>4. Cardinality(p) = 0
      BY <2>3, FS_EmptySet
    <2> QED BY <2>1, <2>3, <2>4
  <1>2. CASE markWord_ = Heavy(i)
    <2>1. PICK r, s : r = monitor[i].waiters_ /\ s = monitor[i].to_wakeup_
      OBVIOUS
    <2>2. /\ ListsOK(monitor[i]) /\ r \in Seq(Threads) /\ s \in Seq(Threads)
          /\ WaitsIn(local[t]) <=> waiting_monitor_[t] = i
      BY <1>2, <2>1, ObjectMonitor
    <2>3. /\ NoDup(r) /\ NoDup(s) /\ \A u \in Threads : ~(In(u, r) /\ In(u, s))
      BY <2>1, <2>2 DEF ListsOK
    <2>4. r \o s \in Seq(Threads) /\ NoDup(r \o s) /\ (In(t, r \o s) <=> In(t, r) \/ In(t, s))
      BY <2>2, <2>3, InBoth
    <2>5. p = {k \in DOMAIN (r \o s) : (r \o s)[k] = t}
      BY <2>1 DEF InLists
    <2>6. Cardinality(p) <= 1 /\ (In(t, r \o s) <=> p # {})
      BY <2>4, <2>5, OnePlace
    <2>7. Listed(t, monitor[i]) <=> p # {}
      BY <2>1, <2>4, <2>6 DEF Listed
    <2>8. Listed(t, monitor[i]) => WaitsIn(local[t])
      BY <2>2 DEF ListsOK
    <2>9. WaitsIn(local[t]) /\ local[t].pc \in {"release", "condWait", "waiting"} =>
            Listed(t, monitor[i]) \/ t \in signalled \/ ToBeSignalled(t)
      BY <2>2 DEF ListsOK, WaitsIn, Listed
    <2> QED BY <2>2, <2>6, <2>7, <2>8, <2>9 DEF ToBeSignalled
  <1> QED BY <1>1, <1>2

(* Only the object's Monitor has a to_wakeup_ that is not empty. *)
LEMMA InvWakes == Inv => WakeupChain
  <1> SUFFICES ASSUME Inv, NEW i \in Ids, monitor[i].to_wakeup_ # <<>>, monitor[i].lock_ = NoThread
               PROVE  \E t \in Threads :
                        /\ waiting_monitor_[t] = i
                        /\ t \in signalled \/ local[t].pc \in {"acquire", "blocked"}
    BY DEF WakeupChain
  <1>1. markWord_ = Heavy(i)
    BY OtherMonitor
  <1>2. WakesOK(monitor[i]) /\ \A t \in Threads : WaitsIn(local[t]) <=> waiting_monitor_[t] = i
    BY <1>1, ObjectMonitor
  <1>3. PICK t \in Threads : Coming(t)
    BY <1>2 DEF WakesOK
  <1> QED BY <1>2, <1>3 DEF Coming

(* All that was returned is the hash the object has now. *)
LEMMA InvHash == Inv => HashStable
  <1> SUFFICES ASSUME Inv PROVE HashStable
    OBVIOUS
  <1>1. PICK h : hashes \subseteq {h}
    BY DEF Inv, HashInv
  <1>2. hashes = {} \/ hashes = {h}
    BY <1>1
  <1>3. Cardinality(hashes) = 0 \/ Cardinality(hashes) = 1
    BY <1>2, FS_EmptySet, FS_Singleton
  <1> QED BY <1>3 DEF HashStable

(* In managed code a thread is neither in Wait nor between lock_ and its return. *)
LEMMA InvLevels == Inv /\ Hashers = {} => LevelsKept
  <1> SUFFICES ASSUME Inv, Hashers = {}, NEW t \in Threads, local[t].pc \in {"idle", "stopped"}
               PROVE  Levels(t) = depth[t]
    BY DEF LevelsKept
  <1>1. LevelsOK(local[t], Levels(t), depth[t])
    BY DEF Inv, LevelsInv
  <1>2. ~WaitsIn(local[t]) /\ local[t].pc # "owning"
    BY DEF WaitsIn, UsingPcs
  <1> QED BY <1>1, <1>2 DEF LevelsOK

(* This one is a part of the invariant. *)
LEMMA InvStale == Inv => NoStaleMonitor
  BY DEF Inv, PlaceInv, NoStaleMonitor, UsingPcs, Inflating, InflatingPcs

(* Which threads can refer to a Monitor of the pool. *)
LEMMA InvCount == Inv => WaitersCounted
  <1> SUFFICES ASSUME Inv, NEW i \in monitors_, NEW w, NEW b,
                      w = {t \in Threads : waiting_monitor_[t] = i},
                      b = {t \in Threads : local[t].pc \in {"blocked", "owning"} /\ local[t].id = i}
               PROVE  monitor[i].waiters_counter_ = Cardinality(w) + Cardinality(b)
    BY DEF WaitersCounted
  <1>1. i \in Ids /\ PlaceInv /\ PoolInv
    BY DEF Inv, TypeOK
  <1>2. CASE markWord_ = Heavy(i)
    <2>1. CountOK(monitor[i])
      BY <1>1, <1>2, ObjectMonitor
    <2>2. w = {t \in Threads : WaitsIn(local[t])}
      BY <1>1, <1>2, ObjectMonitor
    <2>3. b = {t \in Threads : BlocksIn(local[t])}
      BY <1>1, <1>2, ObjectMonitor DEF BlocksIn
    <2> QED BY <2>1, <2>2, <2>3 DEF CountOK
  <1>3. CASE markWord_ # Heavy(i)
    <2>1. w = {}
      BY <1>1, <1>3, OtherMonitor
    <2>2. b = {}
      BY <1>1, <1>3 DEF PlaceInv, UsingPcs
    <2>3. PICK t \in Threads : Inflating(t) /\ local[t].id = i
      BY <1>1, <1>3 DEF PoolInv
    <2>4. monitor[i] = PrivateFor(local[t], t)
      BY <1>1, <2>3 DEF PlaceInv
    <2>5. monitor[i].waiters_counter_ = 0
      BY <2>4 DEF PrivateFor, Fresh, NewMonitor
    <2>6. Cardinality(w) = 0 /\ Cardinality(b) = 0
      BY <2>1, <2>2, FS_EmptySet
    <2> QED BY <2>5, <2>6
  <1> QED BY <1>2, <1>3

(* Marks, pool, Monitors and locals have their types in every reachable state: no counter
   becomes negative, and no light lock counts to the maximum. *)
THEOREM TypeCorrectness == Spec => []TypeOK
  <1>1. Inv => TypeOK
    BY DEF Inv
  <1> QED BY <1>1, Invariance, PTL

(* Monitor.cpp never uses a Monitor that was freed, or that is not the object's. *)
THEOREM NoStale == Spec => []NoStaleMonitor
  BY InvStale, Invariance, PTL

(* The lists of a Monitor hold exactly the threads that wait for it and were not signalled,
   each of them once. *)
THEOREM Lists == Spec => []ListsExact
  BY InvLists, Invariance, PTL

(* waiters_counter_, which alone keeps a Monitor from being deflated, counts the threads
   that will come back to it. *)
THEOREM Counted == Spec => []WaitersCounted
  BY InvCount, Invariance, PTL

(* Notified threads that are left in to_wakeup_ of a free Monitor have one that was
   signalled before them on its way. *)
THEOREM Wakeups == Spec => []WakeupChain
  BY InvWakes, Invariance, PTL

(* GetHashCode returns one value for all time. *)
THEOREM OneHash == Spec => []HashStable
  BY InvHash, Invariance, PTL

(* As long as nobody calls GetHashCode, a thread in managed code holds exactly the levels it
   entered and did not exit. *)
THEOREM LevelsExact == Hashers = {} /\ Spec => []LevelsKept
  <1>1. CASE Hashers = {}
    <2>1. Inv => LevelsKept
      BY <1>1, InvLevels
    <2> QED BY <2>1, Invariance, PTL
  <1>2. CASE Hashers # {}
    BY <1>2
  <1> QED BY <1>1, <1>2

-----------------------------------------------------------------------------
(* The monitor implements AbstractMonitor. *)

(* The refinement mapping without its CHOOSE: the thread the mark or the object's Monitor
   names as the owner, its levels, and the levels a thread in Wait is to get back. *)
Own ==
  IF markWord_.state = "LIGHT_LOCKED" THEN markWord_.thread
  ELSE IF IsHeavy THEN TheMonitor.owner_ ELSE NoThread
Held ==
  IF markWord_.state = "LIGHT_LOCKED" THEN markWord_.count
  ELSE IF IsHeavy THEN TheMonitor.recursive_counter_ ELSE 0
Gave(t) == IF waiting_monitor_[t] # NoId THEN local[t].counter ELSE 0

absVars == <<AbstractOwner, AbstractDepth, AbstractWaiting>>

Mapping ==
  /\ Own \in Threads \cup {NoThread} /\ Held \in Nat /\ (Own = NoThread <=> Held = 0)
  /\ \A t \in Threads : Gave(t) \in Nat /\ (Gave(t) > 0 <=> WaitsIn(local[t]))
  /\ AbstractOwner = Own
  /\ AbstractDepth = IF Own # NoThread /\ Gave(Own) > 0 THEN Gave(Own) ELSE Held
  /\ AbstractWaiting = [t \in Threads |-> IF t = Own THEN 0 ELSE Gave(t)]

LEMMA MappingHolds == Inv => Mapping
  <1> SUFFICES ASSUME Inv PROVE Mapping
    OBVIOUS
  <1>1. /\ markWord_ \in Marks /\ monitor \in [Ids -> MonitorRecords]
        /\ local \in [Threads -> Locals] /\ HeavyInv
    BY DEF Inv, TypeOK
  <1>2. NoThread \notin Threads
    BY MonitorAssumption DEF MonitorAssumption
  <1>3. Own \in Threads \cup {NoThread} /\ Held \in Nat /\ (Own = NoThread <=> Held = 0)
    <2>1. CASE markWord_.state = "LIGHT_LOCKED"
      BY <1>1, <1>2, <2>1, MarkFields DEF Own, Held
    <2>2. CASE IsHeavy
      <3>1. markWord_.id \in Ids /\ TheMonitor \in MonitorRecords
        BY <1>1, <2>2, MarkFields DEF IsHeavy, TheMonitor
      <3>2. OwnersOK(TheMonitor)
        BY <1>1, <2>2 DEF HeavyInv
      <3>3. Own = TheMonitor.owner_ /\ Held = TheMonitor.recursive_counter_
        BY <2>2 DEF Own, Held, IsHeavy
      <3>4. TheMonitor.owner_ \in Threads \cup {NoThread} /\ TheMonitor.recursive_counter_ \in Nat
        BY <3>1 DEF MonitorRecords
      <3> QED BY <3>2, <3>3, <3>4 DEF OwnersOK
    <2>3. CASE markWord_.state # "LIGHT_LOCKED" /\ ~IsHeavy
      BY <2>3 DEF Own, Held
    <2> QED BY <2>1, <2>2, <2>3
  <1>4. \A t \in Threads : Levels(t) = IF t = Own THEN Held ELSE 0
    BY <1>1, <1>2, MarkFields DEF Levels, Own, Held, IsLightOf, IsHeavy, TheMonitor
  <1>5. \A t \in Threads : Levels(t) > 0 <=> t = Own
    BY <1>2, <1>3, <1>4
  <1>6. ASSUME NEW t \in Threads
        PROVE  /\ Gave(t) \in Nat /\ (Gave(t) > 0 <=> WaitsIn(local[t]))
               /\ (waiting_monitor_[t] # NoId <=> WaitsIn(local[t]))
    <2>1. /\ waiting_monitor_[t] = IF WaitsIn(local[t]) THEN local[t].id ELSE NoId
          /\ Shape(t, local[t]) /\ local[t] \in Locals
          /\ local[t].pc \in UsingPcs => markWord_ = Heavy(local[t].id)
      BY <1>1 DEF Inv, WaitInv, ShapeInv, PlaceInv
    <2>2. WaitsIn(local[t]) => local[t].id \in Ids /\ local[t].counter > 0
      BY <1>1, <2>1, MarkFields, MarksMade DEF WaitsIn, Shape
    <2>3. local[t].counter \in Nat
      BY <2>1 DEF Locals
    <2> QED BY <2>1, <2>2, <2>3, IdsAre DEF Gave
  <1>7. AbstractOwner = Own
    <2>1. CASE Own = NoThread
      <3>1. Holder = {}
        BY <1>2, <1>5, <2>1 DEF Holder
      <3> QED BY <2>1, <3>1 DEF AbstractOwner
    <2>2. CASE Own # NoThread
      <3>1. Own \in Threads /\ Holder = {Own}
        BY <1>3, <1>5, <2>2 DEF Holder
      <3> QED BY <3>1 DEF AbstractOwner
    <2> QED BY <2>1, <2>2
  <1>8. AbstractDepth = IF Own # NoThread /\ Gave(Own) > 0 THEN Gave(Own) ELSE Held
    <2>1. CASE Own = NoThread
      <3>1. Holder = {}
        BY <1>2, <1>5, <2>1 DEF Holder
      <3> QED BY <1>3, <2>1, <3>1 DEF AbstractDepth
    <2>2. CASE Own # NoThread
      <3>1. Own \in Threads /\ Holder # {}
        BY <1>3, <1>5, <2>2 DEF Holder
      <3>2. Levels(Own) = Held
        BY <1>4, <3>1
      <3>3. waiting_monitor_[Own] # NoId <=> Gave(Own) > 0
        BY <1>6, <3>1
      <3> QED BY <1>7, <2>2, <3>1, <3>2, <3>3 DEF AbstractDepth, Gave
    <2> QED BY <2>1, <2>2
  <1>9. AbstractWaiting = [t \in Threads |-> IF t = Own THEN 0 ELSE Gave(t)]
    <2>1. \A t \in Threads :
            (IF waiting_monitor_[t] # NoId /\ Levels(t) = 0 THEN local[t].counter ELSE 0)
               = (IF t = Own THEN 0 ELSE Gave(t))
      <3> SUFFICES ASSUME NEW t \in Threads
                   PROVE  (IF waiting_monitor_[t] # NoId /\ Levels(t) = 0 THEN local[t].counter ELSE 0)
                            = (IF t = Own THEN 0 ELSE Gave(t))
        OBVIOUS
      <3>1. Levels(t) = 0 <=> t # Own
        BY <1>2, <1>3, <1>4
      <3> QED BY <3>1 DEF Gave
    <2> QED BY <2>1 DEF AbstractWaiting
  <1> QED BY <1>3, <1>6, <1>7, <1>8, <1>9 DEF Mapping

LEMMA MappingPrime == Inv' => Mapping'
  BY MappingHolds, PTL

(* How the four steps of the abstract monitor look through the mapping, and what is none. *)
LEMMA MapStutter ==
  ASSUME Mapping, Mapping', Own' = Own, Held' = Held,
         \A u \in Threads : Gave(u)' = Gave(u)
  PROVE  UNCHANGED absVars
  <1>1. PICK o : o = Own /\ o \in Threads \cup {NoThread}
    BY DEF Mapping
  <1>2. o # NoThread => Gave(o)' = Gave(o)
    BY <1>1
  <1>3. AbstractWaiting' = AbstractWaiting
    BY DEF Mapping
  <1>4. AbstractDepth' = AbstractDepth /\ AbstractOwner' = AbstractOwner
    BY <1>1, <1>2 DEF Mapping
  <1> QED BY <1>3, <1>4 DEF absVars

LEMMA MapEnter ==
  ASSUME Mapping, Mapping', NEW t \in Threads, Own \in {NoThread, t}, Gave(t) = 0,
         Own' = t, Held' = Held + 1, \A u \in Threads : Gave(u)' = Gave(u)
  PROVE  Abstract!Enter(t)
  <1>1. NoThread \notin Threads
    BY MonitorAssumption DEF MonitorAssumption
  <1>2. AbstractOwner \in {NoThread, t} /\ AbstractOwner' = t
    BY DEF Mapping
  <1>3. AbstractWaiting[t] = 0
    BY DEF Mapping
  <1>4. AbstractDepth = Held
    BY DEF Mapping
  <1>5. AbstractDepth' = Held'
    <2>1. Gave(Own)' = 0
      OBVIOUS
    <2> QED BY <2>1 DEF Mapping
  <1>6. AbstractWaiting' = AbstractWaiting
    <2>1. \A u \in Threads : (IF u = Own THEN 0 ELSE Gave(u)) = (IF u = Own THEN 0 ELSE Gave(u))'
      BY <1>1
    <2> QED BY <2>1 DEF Mapping
  <1> QED BY <1>2, <1>3, <1>4, <1>5, <1>6 DEF Abstract!Enter

LEMMA MapExit ==
  ASSUME Mapping, Mapping', NEW t \in Threads, Own = t, Gave(t) = 0,
         Held' = Held - 1, Own' = IF Held = 1 THEN NoThread ELSE t,
         \A u \in Threads : Gave(u)' = Gave(u)
  PROVE  Abstract!Exit(t)
  <1>1. NoThread \notin Threads
    BY MonitorAssumption DEF MonitorAssumption
  <1>2. AbstractOwner = t /\ AbstractDepth = Held
    BY DEF Mapping
  <1>3. AbstractOwner' = IF Held = 1 THEN NoThread ELSE t
    BY DEF Mapping
  <1>4. AbstractDepth' = Held'
    <2>1. (Own # NoThread)' => Gave(Own)' = 0
      OBVIOUS
    <2> QED BY <2>1 DEF Mapping
  <1>5. AbstractWaiting' = AbstractWaiting
    <2>1. \A u \in Threads : (IF u = Own THEN 0 ELSE Gave(u)) = (IF u = Own THEN 0 ELSE Gave(u))'
      BY <1>1
    <2> QED BY <2>1 DEF Mapping
  <1> QED BY <1>2, <1>3, <1>4, <1>5 DEF Abstract!Exit

LEMMA MapWait ==
  ASSUME Mapping, Mapping', NEW t \in Threads, Own = t, Gave(t) > 0, Own' = NoThread,
         \A u \in Threads : Gave(u)' = Gave(u)
  PROVE  Abstract!Wait(t)
  <1>1. NoThread \notin Threads
    BY MonitorAssumption DEF MonitorAssumption
  <1>2. AbstractOwner = t /\ AbstractDepth = Gave(t)
    BY <1>1 DEF Mapping
  <1>3. AbstractOwner' = NoThread /\ AbstractDepth' = 0
    BY DEF Mapping
  <1>4. AbstractWaiting' = [AbstractWaiting EXCEPT ![t] = Gave(t)]
    <2>1. AbstractWaiting = [u \in Threads |-> IF u = t THEN 0 ELSE Gave(u)]
      BY DEF Mapping
    <2>2. AbstractWaiting' = [u \in Threads |-> Gave(u)]
      BY <1>1 DEF Mapping
    <2> QED BY <2>1, <2>2
  <1> QED BY <1>2, <1>3, <1>4 DEF Abstract!Wait

LEMMA MapReturn ==
  ASSUME Mapping, Mapping', NEW t \in Threads, Own = NoThread, Gave(t) > 0, Own' = t,
         \A u \in Threads : Gave(u)' = Gave(u)
  PROVE  Abstract!Return(t)
  <1>1. NoThread \notin Threads
    BY MonitorAssumption DEF MonitorAssumption
  <1>2. AbstractOwner = NoThread /\ AbstractOwner' = t
    BY DEF Mapping
  <1>3. AbstractWaiting = [u \in Threads |-> Gave(u)]
    BY <1>1 DEF Mapping
  <1>4. AbstractWaiting' = [u \in Threads |-> IF u = t THEN 0 ELSE Gave(u)]
    BY DEF Mapping
  <1>5. AbstractDepth' = Gave(t)
    <2>1. Gave(Own)' = Gave(t)
      OBVIOUS
    <2> QED BY <1>1, <2>1 DEF Mapping
  <1>6. AbstractWaiting[t] = Gave(t) /\ AbstractWaiting' = [AbstractWaiting EXCEPT ![t] = 0]
    BY <1>3, <1>4
  <1> QED BY <1>2, <1>5, <1>6 DEF Abstract!Return

(* A step of t leaves alone what threads in Wait are to get back. *)
LEMMA GaveSame ==
  ASSUME Inv, NEW t \in Threads, Others(t), waiting_monitor_' = waiting_monitor_,
         WaitsIn(local[t]) => local'[t].counter = local[t].counter
  PROVE  \A u \in Threads : Gave(u)' = Gave(u)
  <1> SUFFICES ASSUME NEW u \in Threads PROVE Gave(u)' = Gave(u)
    OBVIOUS
  <1>1. ~WaitsIn(local[t]) => waiting_monitor_[t] = NoId
    BY DEF Inv, WaitInv
  <1> QED BY <1>1 DEF Gave, Others

(* The steps of a thread that is not in Wait, on nothing the mapping looks at. *)
LEMMA AwayStutter ==
  ASSUME Inv, Mapping, Mapping', NEW t \in Threads, Others(t),
         UNCHANGED <<markWord_, monitor, waiting_monitor_>>, ~WaitsIn(local[t])
  PROVE  UNCHANGED absVars
  <1>1. \A u \in Threads : Gave(u)' = Gave(u)
    BY GaveSame
  <1>2. Own' = Own /\ Held' = Held
    BY DEF Own, Held, IsHeavy, TheMonitor
  <1> QED BY <1>1, <1>2, MapStutter

(* Steps that change only what the mapping does not look at of a Monitor. *)
LEMMA InsideStutter ==
  ASSUME Inv, Mapping, Mapping', NEW t \in Threads, Others(t),
         UNCHANGED <<markWord_, waiting_monitor_>>,
         WaitsIn(local[t]) => local'[t].counter = local[t].counter,
         IsHeavy => /\ monitor'[markWord_.id].owner_ = TheMonitor.owner_
                    /\ monitor'[markWord_.id].recursive_counter_ = TheMonitor.recursive_counter_
  PROVE  UNCHANGED absVars
  <1>1. \A u \in Threads : Gave(u)' = Gave(u)
    BY GaveSame
  <1>2. Own' = Own /\ Held' = Held
    BY DEF Own, Held, IsHeavy, TheMonitor
  <1> QED BY <1>1, <1>2, MapStutter

(* The steps that look at the mark, or raise a flag. *)
LEMMA LookAbs ==
  ASSUME Inv, Mapping, Mapping', NEW t \in Threads,
         \/ \E trylock \in BOOLEAN : MonitorEnter(t, trylock)
         \/ MonitorExit(t) \/ Wait(t) \/ GetHashCode(t) \/ Poll(t) \/ Interrupted(t) \/ Interrupt(t)
         \/ EnterLoad(t) \/ EnterCasFail(t) \/ SuspendOwner(t) \/ OwnerSuspended(t)
         \/ ResumeOwner(t) \/ ExitLoad(t) \/ ExitCasFail(t) \/ WaitInflate(t)
         \/ WaitInterrupted(t) \/ HashLoad(t) \/ HashCasFail(t) \/ HashSleep(t)
         \/ HashFromMonitor(t) \/ HashReturn(t)
  PROVE  UNCHANGED absVars
  <1>1. UNCHANGED <<markWord_, monitor, waiting_monitor_>>
    BY DEF MonitorEnter, MonitorExit, Wait, GetHashCode, Poll, Interrupted, Interrupt, EnterLoad,
           EnterCasFail, SuspendOwner, OwnerSuspended, ResumeOwner, ExitLoad, ExitCasFail,
           WaitInflate, WaitInterrupted, HashLoad, HashCasFail, HashSleep, HashFromMonitor,
           HashReturn, waits
  <1>2. Interrupt(t) \/ Interrupted(t) \/
          local[t].pc \in {"idle", "stopped", "enter", "cas", "suspendOwner", "waitOwner", "resume",
                           "exit", "exitCas", "wait", "hash", "hashCas", "sleep", "hashMonitor",
                           "hashReturn"}
    BY DEF MonitorEnter, MonitorExit, Wait, GetHashCode, Poll, EnterLoad,
           EnterCasFail, SuspendOwner, OwnerSuspended, ResumeOwner, ExitLoad, ExitCasFail,
           WaitInflate, WaitInterrupted, HashLoad, HashCasFail, HashSleep, HashFromMonitor,
           HashReturn, At
  <1>3. CASE local' = local
    <2>1. Others(t)
      BY <1>3 DEF Others
    <2>2. local'[t].counter = local[t].counter
      BY <1>3
    <2>3. IsHeavy => /\ monitor'[markWord_.id].owner_ = TheMonitor.owner_
                     /\ monitor'[markWord_.id].recursive_counter_ = TheMonitor.recursive_counter_
      BY <1>1 DEF TheMonitor
    <2> QED BY <1>1, <2>1, <2>2, <2>3, InsideStutter
  <1>4. CASE local' # local
    <2>1. ~WaitsIn(local[t])
      BY <1>2, <1>4 DEF WaitsIn, UsingPcs, Interrupt, Interrupted
    <2>2. Others(t)
      <3>1. \E k : local' = [local EXCEPT ![t] = k]
        BY <1>4 DEF MonitorEnter, MonitorExit, Wait, GetHashCode, Poll, Interrupted, Interrupt,
           EnterLoad, EnterCasFail, SuspendOwner, OwnerSuspended, ResumeOwner, ExitLoad,
           ExitCasFail, WaitInflate, WaitInterrupted, HashLoad, HashCasFail, HashSleep,
           HashFromMonitor, HashReturn, EnterAgain, Loop, Return, Goto
      <3> QED BY <3>1 DEF Inv, TypeOK, Others
    <2> QED BY <1>1, <2>1, <2>2, AwayStutter
  <1> QED BY <1>3, <1>4

(* Monitors that are not the object's come and go unseen. *)
LEMMA InflateAbs ==
  ASSUME Inv, Mapping, Mapping', NEW t \in Threads,
         InflateLoad(t) \/ InflateOtherLoad(t) \/ InflateCasFail(t) \/ InflateOtherCasFail(t)
  PROVE  UNCHANGED absVars
  <1>1. /\ local \in [Threads -> Locals] /\ monitor \in [Ids -> MonitorRecords]
        /\ markWord_ \in Marks /\ PlaceInv
    BY DEF Inv, TypeOK
  <1>2. /\ UNCHANGED <<markWord_, waiting_monitor_>>
        /\ local[t].pc \in {"inflate", "inflateOther", "inflateCas", "inflateOtherCas"}
    BY DEF InflateLoad, InflateOtherLoad, InflateCasFail, InflateOtherCasFail, waits, At
  <1>3. ~WaitsIn(local[t])
    BY <1>2 DEF WaitsIn, UsingPcs
  <1>4. Others(t)
    <2>1. \E k : local' = [local EXCEPT ![t] = k]
      BY DEF InflateLoad, InflateOtherLoad, InflateCasFail, InflateOtherCasFail, InflateFailed,
             EnterAgain, Loop, Return, Goto
    <2> QED BY <1>1, <2>1 DEF Others
  <1>5. IsHeavy => monitor'[markWord_.id] = monitor[markWord_.id]
    <2> SUFFICES ASSUME IsHeavy PROVE monitor'[markWord_.id] = monitor[markWord_.id]
      OBVIOUS
    <2>1. markWord_ = Heavy(markWord_.id) /\ markWord_.state = "HEAVY_LOCKED"
      BY <1>1, MarkFields DEF IsHeavy
    <2>2. CASE InflateLoad(t)
      BY <2>1, <2>2 DEF InflateLoad, IsLightOf
    <2>3. CASE InflateOtherLoad(t)
      BY <2>1, <2>3 DEF InflateOtherLoad, StillOwner, IsLightOf
    <2>4. CASE InflateCasFail(t) \/ InflateOtherCasFail(t)
      <3>1. local[t].pc \in InflatingPcs
        BY <2>4 DEF InflateCasFail, InflateOtherCasFail, At, InflatingPcs
      <3>2. markWord_ # Heavy(local[t].id)
        BY <1>1, <3>1 DEF PlaceInv, Inflating
      <3>3. markWord_.id # local[t].id
        BY <2>1, <3>2
      <3>4. monitor' = [monitor EXCEPT ![local[t].id] = NewMonitor]
        BY <2>4 DEF InflateCasFail, InflateOtherCasFail, FreeMonitor
      <3> QED BY <3>3, <3>4
    <2> QED BY <2>2, <2>3, <2>4
  <1> QED BY <1>2, <1>3, <1>4, <1>5, InsideStutter DEF TheMonitor

(* The exchanges of the mark. *)
LEMMA CasAbs ==
  ASSUME Inv, Mapping, Mapping', NEW t \in Threads, Cas(t)
  PROVE  [Abstract!Next]_absVars
  <1>0. PICK l : l = local[t]
    OBVIOUS
  <1>1. /\ local \in [Threads -> Locals] /\ markWord_ \in Marks
        /\ Shape(t, l) /\ l \in Locals
        /\ l.pc \in InflatingPcs => monitor[l.id] = PrivateFor(l, t)
    BY <1>0 DEF Inv, TypeOK, ShapeInv, PlaceInv, Inflating
  <1>2. /\ UNCHANGED <<waiting_monitor_, monitor>>
        /\ l.pc \in {"cas", "exitCas", "inflateCas", "inflateOtherCas", "hashCas"}
    BY <1>0 DEF Cas, EnterCas, ExitCas, InflateCas, InflateOtherCas, HashCas, waits, At
  <1>3. ~WaitsIn(l)
    BY <1>2 DEF WaitsIn, UsingPcs
  <1>4. Others(t)
    <2>1. \E k : local' = [local EXCEPT ![t] = k]
      BY DEF Cas, EnterCas, ExitCas, InflateCas, InflateOtherCas, HashCas, Inflated, Entered,
             EnterAgain, Loop, Return, Goto
    <2> QED BY <1>1, <2>1 DEF Others
  <1>5. Gave(t) = 0 /\ \A u \in Threads : Gave(u)' = Gave(u)
    <2>1. Gave(t) = 0
      BY <1>0, <1>3 DEF Mapping
    <2> QED BY <1>0, <1>2, <1>3, <1>4, <2>1, GaveSame
  <1>6. CASE EnterCas(t)
    <2>1. /\ markWord_ = l.old_mark
          /\ markWord_' = Light(t, IF l.old_mark.state = "UNLOCKED" THEN 1 ELSE l.old_mark.count + 1)
          /\ (l.old_mark = Unlocked \/ IsLightOf(l.old_mark, t))
      BY <1>0, <1>1, <1>6 DEF EnterCas, At, Shape
    <2>2. Own' = t /\ Held' = IF l.old_mark.state = "UNLOCKED" THEN 1 ELSE l.old_mark.count + 1
      BY <2>1, MarksMade DEF Own, Held
    <2>3. CASE l.old_mark = Unlocked
      <3>1. Own = NoThread /\ Held = 0 /\ Held' = 1
        BY <2>1, <2>2, <2>3, MarksMade DEF Own, Held, IsHeavy
      <3> QED BY <1>5, <2>2, <3>1, MapEnter DEF Abstract!Next
    <2>4. CASE IsLightOf(l.old_mark, t)
      <3>1. Own = t /\ Held' = Held + 1
        BY <2>1, <2>2, <2>4 DEF Own, Held, IsLightOf
      <3> QED BY <1>5, <2>2, <3>1, MapEnter DEF Abstract!Next
    <2> QED BY <2>1, <2>3, <2>4
  <1>7. CASE ExitCas(t)
    <2>1. /\ markWord_ = l.old_mark /\ IsLightOf(markWord_, t)
          /\ markWord_' = IF markWord_.count = 1 THEN Unlocked ELSE Light(t, markWord_.count - 1)
      BY <1>0, <1>1, <1>7 DEF ExitCas, At, Shape, OneLevelLess, IsLightOf
    <2>2. Own = t /\ Held = markWord_.count
      BY <2>1 DEF Own, Held, IsLightOf
    <2>3. Own' = IF Held = 1 THEN NoThread ELSE t
      BY <2>1, <2>2, MarksMade DEF Own, IsHeavy
    <2>4. Held' = Held - 1
      BY <2>1, <2>2, MarksMade DEF Held, IsHeavy
    <2> QED BY <1>5, <2>2, <2>3, <2>4, MapExit DEF Abstract!Next
  <1>8. CASE InflateCas(t)
    <2>1. /\ markWord_ = l.old_mark /\ markWord_' = Heavy(l.id)
          /\ (markWord_.state \in {"UNLOCKED", "HASHED"} \/ IsLightOf(markWord_, t))
          /\ monitor[l.id] = Fresh(t, MarkCount(markWord_), MarkHash(markWord_))
      BY <1>0, <1>1, <1>8 DEF InflateCas, At, Shape, PrivateFor, InflatingPcs
    <2>2. IsHeavy' /\ TheMonitor' = monitor[l.id] /\ (markWord_.state # "LIGHT_LOCKED")'
      BY <1>2, <2>1, MarksMade DEF IsHeavy, TheMonitor
    <2>3. Own' = t /\ Held' = MarkCount(markWord_)
      BY <2>1, <2>2 DEF Own, Held, Fresh, NewMonitor
    <2>4. CASE markWord_.state \in {"UNLOCKED", "HASHED"}
      <3>1. Own = NoThread /\ Held = 0 /\ Held' = 1
        BY <2>3, <2>4 DEF Own, Held, IsHeavy, MarkCount
      <3> QED BY <1>5, <2>3, <3>1, MapEnter DEF Abstract!Next
    <2>5. CASE IsLightOf(markWord_, t)
      <3>1. Own' = Own /\ Held' = Held
        BY <2>3, <2>5 DEF Own, Held, IsLightOf, MarkCount
      <3> QED BY <1>5, <3>1, MapStutter
    <2> QED BY <2>1, <2>4, <2>5
  <1>9. CASE InflateOtherCas(t)
    <2>1. /\ markWord_ = l.old_mark /\ markWord_' = Heavy(l.id) /\ IsLightOf(markWord_, l.other)
          /\ monitor[l.id] = Fresh(l.other, MarkCount(markWord_), MarkHash(markWord_))
      BY <1>0, <1>1, <1>9 DEF InflateOtherCas, At, Shape, PrivateFor, InflatingPcs
    <2>2. IsHeavy' /\ TheMonitor' = monitor[l.id] /\ (markWord_.state # "LIGHT_LOCKED")'
      BY <1>2, <2>1, MarksMade DEF IsHeavy, TheMonitor
    <2>3. Own' = l.other /\ Held' = MarkCount(markWord_)
      BY <2>1, <2>2 DEF Own, Held, Fresh, NewMonitor
    <2>4. Own' = Own /\ Held' = Held
      BY <2>1, <2>3 DEF Own, Held, IsLightOf, MarkCount
    <2> QED BY <1>5, <2>4, MapStutter
  <1>10. CASE HashCas(t)
    <2>1. PICK h \in Hashes : markWord_ = Unlocked /\ markWord_' = Hashed(h)
      BY <1>10 DEF HashCas
    <2>2. Own' = Own /\ Held' = Held
      BY <2>1, MarksMade DEF Own, Held, IsHeavy
    <2> QED BY <1>5, <2>2, MapStutter
  <1> QED BY <1>6, <1>7, <1>8, <1>9, <1>10 DEF Cas

(* Inside the object's Monitor the mapping is what the Monitor says. *)
LEMMA UsedIs ==
  ASSUME Inv, NEW t \in Threads, local[t].pc \in UsingPcs, markWord_' = markWord_,
         NEW n, n = monitor'[local[t].id]
  PROVE  /\ Own = Mon(t).owner_ /\ Held = Mon(t).recursive_counter_
         /\ Own' = n.owner_ /\ Held' = n.recursive_counter_
  <1>1. /\ IsHeavy /\ markWord_.id = local[t].id /\ Mon(t) = TheMonitor
    BY UsesIt
  <1>2. IsHeavy' /\ TheMonitor' = n /\ (markWord_.state # "LIGHT_LOCKED")'
    BY <1>1 DEF IsHeavy, TheMonitor
  <1>3. markWord_.state # "LIGHT_LOCKED"
    BY <1>1 DEF IsHeavy
  <1> QED BY <1>1, <1>2, <1>3 DEF Own, Held

(* Acquire by its three ways: one more level, the free lock_, or blocked. *)
LEMMA AcquireAbs ==
  ASSUME Inv, Mapping, Mapping', NEW t \in Threads, Acquire(t) \/ AcquireBlocked(t) \/ AcquireReturn(t)
  PROVE  [Abstract!Next]_absVars
  <1>0. PICK l, k, i, m, n :
          l = local[t] /\ k = local'[t] /\ i = l.id /\ m = Mon(t) /\ n = monitor'[i]
    OBVIOUS
  <1>1. /\ TypeOK /\ local \in [Threads -> Locals] /\ monitor \in [Ids -> MonitorRecords]
        /\ Shape(t, l) /\ l \in Locals
    BY <1>0 DEF Inv, TypeOK, ShapeInv
  <1>2. /\ UNCHANGED <<markWord_, waiting_monitor_>>
        /\ l.pc \in {"acquire", "blocked", "owning"} /\ l.pc \in UsingPcs
    BY <1>0 DEF Acquire, AcquireBlocked, AcquireReturn, waits, At, UsingPcs
  <1>3. /\ Own = m.owner_ /\ Held = m.recursive_counter_
        /\ Own' = n.owner_ /\ Held' = n.recursive_counter_
    BY <1>0, <1>2, UsedIs
  <1>4. /\ i \in Ids /\ m = monitor[i] /\ m \in MonitorRecords /\ OwnersOK(m)
    <2>1. Mon(t) = TheMonitor
      BY <1>0, <1>2, UsesIt
    <2> QED BY <1>0, <1>2, <2>1, UsesIt DEF Mon
  <1>5. Others(t) /\ (WaitsIn(l) => k.counter = l.counter)
    <2>1. CASE Acquired(t) /\ l.pc \in {"acquire", "owning"}
      <3>1. /\ Others(t) /\ (WaitsIn(k) <=> WaitsIn(l)) /\ k.pc \in {"waitEnd", "idle", "hashSet"}
            /\ k.pc = "waitEnd" => k.counter = l.counter
        BY <1>0, <2>1, AcquiredIs
      <3> QED BY <3>1 DEF WaitsIn, UsingPcs
    <2>2. CASE \E p : Goto(t, p)
      BY <1>0, <1>1, <2>2, Moves
    <2>3. CASE Return(t) /\ l.op = "tryEnter"
      BY <1>0, <1>1, <2>3, Moves DEF WaitsIn
    <2> QED BY <1>0, <2>1, <2>2, <2>3 DEF Acquire, AcquireBlocked, AcquireReturn, At
  <1>6. \A u \in Threads : Gave(u)' = Gave(u)
    BY <1>0, <1>2, <1>5, GaveSame
  <1>7. CASE n.owner_ = m.owner_ /\ n.recursive_counter_ = m.recursive_counter_
    BY <1>3, <1>6, <1>7, MapStutter
  <1>8. CASE m.lock_ = NoThread /\ n.owner_ = t /\ n.recursive_counter_ = m.recursive_counter_ + 1
    <2>1. Own = NoThread /\ Own' = t /\ Held' = Held + 1
      BY <1>3, <1>4, <1>8, FreeLock
    <2>2. CASE WaitsIn(l)
      <3>1. Gave(t) > 0
        BY <1>0, <2>2 DEF Mapping
      <3> QED BY <1>6, <2>1, <3>1, MapReturn DEF Abstract!Next
    <2>3. CASE ~WaitsIn(l)
      <3>1. Gave(t) = 0
        BY <1>0, <2>3 DEF Mapping
      <3> QED BY <1>6, <2>1, <3>1, MapEnter DEF Abstract!Next
    <2> QED BY <2>2, <2>3
  <1>9. CASE /\ m.owner_ = t /\ n.owner_ = t /\ l.pc = "acquire"
             /\ n.recursive_counter_ = m.recursive_counter_ + 1
    <2>1. ~WaitsIn(l)
      BY <1>0, <1>4, <1>9 DEF WaitsIn, OwnersOK, OwnerOK
    <2>2. Gave(t) = 0
      BY <1>0, <2>1 DEF Mapping
    <2>3. Own = t /\ Own' = t /\ Held' = Held + 1
      BY <1>3, <1>9
    <2> QED BY <1>6, <2>2, <2>3, MapEnter DEF Abstract!Next
  <1>10. ASSUME NEW c,
                \/ monitor' = monitor
                \/ monitor' = [monitor EXCEPT ![i].waiters_counter_ = c]
         PROVE  n.owner_ = m.owner_ /\ n.recursive_counter_ = m.recursive_counter_
    <2>1. CASE monitor' = monitor
      BY <1>0, <1>4, <2>1
    <2>2. CASE monitor' = [monitor EXCEPT ![i].waiters_counter_ = c]
      <3>1. n = [m EXCEPT !.waiters_counter_ = c]
        BY <1>0, <1>1, <1>4, <2>2
      <3> QED BY <1>4, <3>1 DEF MonitorRecords
    <2> QED BY <1>10, <2>1, <2>2
  <1>11. TakeLock(t) => n.owner_ = t /\ n.recursive_counter_ = m.recursive_counter_ + 1
    BY <1>0, <1>1, <1>4 DEF TakeLock, MonitorRecords
  <1>12. monitor' = [monitor EXCEPT ![i].recursive_counter_ = @ + 1] =>
           n.owner_ = m.owner_ /\ n.recursive_counter_ = m.recursive_counter_ + 1
    BY <1>0, <1>1, <1>4 DEF MonitorRecords
  <1>13. CASE AcquireReturn(t)
    <2>1. monitor' = [monitor EXCEPT ![i].waiters_counter_ = m.waiters_counter_ - 1]
      BY <1>0, <1>4, <1>13 DEF AcquireReturn
    <2> QED BY <1>7, <1>10, <2>1
  <1>14. CASE AcquireBlocked(t)
    BY <1>0, <1>8, <1>11, <1>14 DEF AcquireBlocked
  <1>15. CASE Acquire(t)
    <2>1. l.pc = "acquire"
      BY <1>0, <1>15 DEF Acquire, At
    <2>2. \/ m.owner_ = t /\ monitor' = [monitor EXCEPT ![i].recursive_counter_ = @ + 1]
          \/ m.lock_ = NoThread /\ TakeLock(t)
          \/ monitor' = monitor
          \/ monitor' = [monitor EXCEPT ![i].waiters_counter_ = @ + 1]
      BY <1>0, <1>15 DEF Acquire
    <2>3. monitor' = [monitor EXCEPT ![i].waiters_counter_ = @ + 1] =>
            monitor' = [monitor EXCEPT ![i].waiters_counter_ = m.waiters_counter_ + 1]
      BY <1>4
    <2> QED BY <1>7, <1>8, <1>9, <1>10, <1>11, <1>12, <2>1, <2>2, <2>3
  <1> QED BY <1>13, <1>14, <1>15

(* The owner keeps its levels in the Monitor or, in Wait, in its locals. *)
LEMMA MapMove ==
  ASSUME Mapping, Mapping', NEW t \in Threads, Own = t, Own' = t,
         \A u \in Threads \ {t} : Gave(u)' = Gave(u),
         (IF Gave(t) > 0 THEN Gave(t) ELSE Held)' = IF Gave(t) > 0 THEN Gave(t) ELSE Held
  PROVE  UNCHANGED absVars
  <1>1. t # NoThread
    BY MonitorAssumption DEF MonitorAssumption
  <1>2. AbstractDepth = IF Gave(t) > 0 THEN Gave(t) ELSE Held
    BY <1>1 DEF Mapping
  <1>3. Gave(Own)' = Gave(t)' /\ (Own # NoThread)'
    BY <1>1
  <1>4. AbstractDepth' = (IF Gave(t) > 0 THEN Gave(t) ELSE Held)'
    BY <1>3 DEF Mapping
  <1>5. AbstractWaiting' = AbstractWaiting
    <2>1. \A u \in Threads : (IF u = Own THEN 0 ELSE Gave(u)) = (IF u = Own THEN 0 ELSE Gave(u))'
      OBVIOUS
    <2> QED BY <2>1 DEF Mapping
  <1>6. AbstractOwner' = AbstractOwner
    BY DEF Mapping
  <1> QED BY <1>2, <1>4, <1>5, <1>6 DEF absVars

(* Release of one level is Exit, of the last one of a thread in Wait the abstract Wait. *)
LEMMA ReleaseAbs ==
  ASSUME Inv, Mapping, Mapping', NEW t \in Threads, Release(t)
  PROVE  [Abstract!Next]_absVars
  <1>0. PICK l, k, i, m, n :
          l = local[t] /\ k = local'[t] /\ i = l.id /\ m = Mon(t) /\ n = monitor'[i]
    OBVIOUS
  <1>1. /\ TypeOK /\ local \in [Threads -> Locals] /\ monitor \in [Ids -> MonitorRecords]
        /\ Shape(t, l) /\ l \in Locals
    BY <1>0 DEF Inv, TypeOK, ShapeInv
  <1>2. /\ UNCHANGED <<markWord_, waiting_monitor_>> /\ m.owner_ = t
        /\ l.pc = "release" /\ l.pc \in UsingPcs
    BY <1>0 DEF Release, waits, At, UsingPcs
  <1>3. /\ Own = m.owner_ /\ Held = m.recursive_counter_
        /\ Own' = n.owner_ /\ Held' = n.recursive_counter_
    BY <1>0, <1>2, UsedIs
  <1>4. /\ i \in Ids /\ m = monitor[i] /\ m \in MonitorRecords /\ OwnersOK(m)
    <2>1. Mon(t) = TheMonitor
      BY <1>0, <1>2, UsesIt
    <2> QED BY <1>0, <1>2, <2>1, UsesIt DEF Mon
  <1>5. \/ /\ m.recursive_counter_ > 1 /\ Released(t)
           /\ monitor' = [monitor EXCEPT ![i].recursive_counter_ = @ - 1]
        \/ /\ m.recursive_counter_ = 1
           /\ \E list : monitor' = [monitor EXCEPT ![i].recursive_counter_ = 0,
                                                   ![i].owner_ = NoThread, ![i].to_wakeup_ = list]
           /\ \E p, w : local' = [local EXCEPT ![t].pc = p, ![t].other = w]
    <2>1. CASE m.recursive_counter_ > 1
      <3>1. Released(t) /\ monitor' = [monitor EXCEPT ![i].recursive_counter_ = @ - 1]
        BY <1>0, <2>1 DEF Release
      <3> QED BY <2>1, <3>1
    <2>2. CASE m.recursive_counter_ = 1
      <3>1. monitor' = [monitor EXCEPT ![i].recursive_counter_ = 0, ![i].owner_ = NoThread,
                   ![i].to_wakeup_ = IF FrontToWakeup(t) = NoThread THEN @ ELSE Tail(@)]
        BY <1>0, <2>2 DEF Release
      <3>2. \E list : monitor' = [monitor EXCEPT ![i].recursive_counter_ = 0,
                                                   ![i].owner_ = NoThread, ![i].to_wakeup_ = list]
        BY <3>1
      <3>3. \/ \E w : local' = [local EXCEPT ![t].pc = "signal", ![t].other = w]
            \/ Goto(t, "unlock")
        BY <1>0, <2>2 DEF Release
      <3>4. Goto(t, "unlock") => local' = [local EXCEPT ![t].pc = "unlock", ![t].other = l.other]
        <4>1. [l EXCEPT !.pc = "unlock", !.other = l.other] = [l EXCEPT !.pc = "unlock"]
          BY <1>1 DEF Locals
        <4> QED BY <1>0, <1>1, <4>1 DEF Goto
      <3> QED BY <2>2, <3>2, <3>3, <3>4
    <2> QED BY <1>0, <2>1, <2>2 DEF Release
  <1>6. Others(t) /\ (WaitsIn(l) => k.counter = l.counter)
    <2>1. CASE Released(t)
      <3>1. Others(t) /\ (WaitsIn(k) <=> WaitsIn(l)) /\ (WaitsIn(k) => k.counter = l.counter)
        BY <1>0, <1>2, <2>1, ReleasedIs
      <3> QED BY <3>1
    <2>2. CASE \E p, w : local' = [local EXCEPT ![t].pc = p, ![t].other = w]
      <3>1. PICK p, w : local' = [local EXCEPT ![t].pc = p, ![t].other = w]
        BY <2>2
      <3>2. k = [l EXCEPT !.pc = p, !.other = w] /\ Others(t)
        BY <1>0, <1>1, <3>1 DEF Others
      <3> QED BY <1>1, <3>2 DEF Locals
    <2> QED BY <1>5, <2>1, <2>2
  <1>7. \A u \in Threads : Gave(u)' = Gave(u)
    BY <1>0, <1>2, <1>6, GaveSame
  <1>8. CASE /\ m.recursive_counter_ > 1
             /\ monitor' = [monitor EXCEPT ![i].recursive_counter_ = @ - 1]
    <2>1. n.owner_ = t /\ n.recursive_counter_ = m.recursive_counter_ - 1
      BY <1>0, <1>1, <1>2, <1>4, <1>8 DEF MonitorRecords
    <2>2. ~WaitsIn(l)
      BY <1>0, <1>2, <1>4, <1>8 DEF OwnersOK, OwnerOK, WaitsIn
    <2>3. Gave(t) = 0
      BY <1>0, <2>2 DEF Mapping
    <2>4. Own = t /\ Held' = Held - 1 /\ Own' = IF Held = 1 THEN NoThread ELSE t
      BY <1>2, <1>3, <1>8, <2>1
    <2> QED BY <1>7, <2>3, <2>4, MapExit DEF Abstract!Next
  <1>9. CASE /\ m.recursive_counter_ = 1
             /\ \E list : monitor' = [monitor EXCEPT ![i].recursive_counter_ = 0,
                                                     ![i].owner_ = NoThread, ![i].to_wakeup_ = list]
    <2>1. PICK list : monitor' = [monitor EXCEPT ![i].recursive_counter_ = 0,
                                                 ![i].owner_ = NoThread, ![i].to_wakeup_ = list]
      BY <1>9
    <2>2. n = [m EXCEPT !.recursive_counter_ = 0, !.owner_ = NoThread, !.to_wakeup_ = list]
      BY <1>0, <1>1, <1>4, <2>1
    <2>3. n.owner_ = NoThread /\ n.recursive_counter_ = 0
      BY <1>4, <2>2 DEF MonitorRecords
    <2>4. Own = t /\ Held = 1 /\ Own' = NoThread /\ Held' = 0
      BY <1>2, <1>3, <1>9, <2>3
    <2>5. CASE WaitsIn(l)
      <3>1. Gave(t) > 0
        BY <1>0, <2>5 DEF Mapping
      <3> QED BY <1>7, <2>4, <3>1, MapWait DEF Abstract!Next
    <2>6. CASE ~WaitsIn(l)
      <3>1. Gave(t) = 0
        BY <1>0, <2>6 DEF Mapping
      <3>2. Held' = Held - 1 /\ Own' = IF Held = 1 THEN NoThread ELSE t
        BY <2>4
      <3> QED BY <1>7, <2>4, <3>1, <3>2, MapExit DEF Abstract!Next
    <2> QED BY <2>5, <2>6
  <1> QED BY <1>5, <1>8, <1>9

(* The steps on the object's Monitor that change neither its owner nor its levels. *)
LEMMA InsideAbs ==
  ASSUME Inv, Mapping, Mapping', NEW t \in Threads,
         \/ ReleaseSignal(t) \/ ReleaseUnlock(t) \/ CondWait(t) \/ Awake(t) \/ HashSet(t)
         \/ \E all \in BOOLEAN : NotifyBy(t, all)
  PROVE  UNCHANGED absVars
  <1>0. PICK l, k, i, m : l = local[t] /\ k = local'[t] /\ i = markWord_.id /\ m = TheMonitor
    OBVIOUS
  <1>1. /\ TypeOK /\ local \in [Threads -> Locals] /\ monitor \in [Ids -> MonitorRecords]
        /\ l \in Locals /\ markWord_ \in Marks
    BY <1>0 DEF Inv, TypeOK
  <1>2. UNCHANGED <<markWord_, waiting_monitor_>>
    BY DEF ReleaseSignal, ReleaseUnlock, CondWait, Awake, HashSet, NotifyBy, waits
  <1>3. Others(t) /\ (WaitsIn(l) => k.counter = l.counter)
    <2>1. CASE \E p : Goto(t, p)
      BY <1>0, <1>1, <2>1, Moves
    <2>2. CASE ReleaseUnlock(t)
      <3>1. l.pc = "unlock" /\ Released(t)
        BY <1>0, <2>2 DEF ReleaseUnlock, At
      <3>2. Others(t) /\ (WaitsIn(k) <=> WaitsIn(l)) /\ (WaitsIn(k) => k.counter = l.counter)
        BY <1>0, <3>1, ReleasedIs
      <3> QED BY <3>2
    <2>3. CASE HashSet(t)
      <3>1. l.pc = "hashSet" /\ local' = [local EXCEPT ![t].pc = "exit", ![t].op = "hashExit"]
        BY <1>0, <2>3 DEF HashSet, At
      <3> QED BY <1>1, <3>1 DEF WaitsIn, UsingPcs, Others
    <2>4. CASE local' = local
      BY <1>0, <2>4 DEF Others
    <2> QED BY <2>1, <2>2, <2>3, <2>4 DEF ReleaseSignal, CondWait, Awake, NotifyBy
  <1>4. ASSUME IsHeavy
        PROVE  /\ monitor'[i].owner_ = m.owner_
               /\ monitor'[i].recursive_counter_ = m.recursive_counter_
    <2>1. i \in Ids /\ m = monitor[i] /\ m \in MonitorRecords
      BY <1>0, <1>1, <1>4, MarkFields DEF IsHeavy, TheMonitor
    <2>2. CASE monitor' = monitor
      BY <2>1, <2>2
    <2>3. CASE ReleaseUnlock(t)
      <3>1. l.pc \in UsingPcs
        BY <1>0, <2>3 DEF ReleaseUnlock, At, UsingPcs
      <3>2. l.id = i
        BY <1>0, <3>1, UsesIt
      <3>3. monitor' = [monitor EXCEPT ![i].lock_ = NoThread]
        BY <1>0, <2>3, <3>2 DEF ReleaseUnlock
      <3> QED BY <1>1, <2>1, <3>3 DEF MonitorRecords
    <2>4. CASE HashSet(t)
      <3>1. l.monitor_p # NoId => markWord_ = Heavy(l.monitor_p)
        BY <1>0 DEF Inv, PlaceInv
      <3>2. l.monitor_p = i \/ l.monitor_p = NoId
        BY <1>0, <3>1, MarksMade
      <3>3. PICK h : monitor' = [monitor EXCEPT ![l.monitor_p].hash_code_ = h]
        BY <1>0, <2>4 DEF HashSet
      <3>4. CASE l.monitor_p = i
        BY <1>1, <2>1, <3>3, <3>4 DEF MonitorRecords
      <3>5. CASE l.monitor_p = NoId
        BY <1>1, <2>1, <3>3, <3>5, IdsAre
      <3> QED BY <3>2, <3>4, <3>5
    <2>5. CASE \E all \in BOOLEAN : NotifyBy(t, all)
      <3>1. PICK all \in BOOLEAN : NotifyBy(t, all)
        BY <2>5
      <3>2. monitor' = [monitor EXCEPT ![i] = IF all THEN MoveAll(m) ELSE MoveOne(m)]
        BY <1>0, <2>1, <3>1 DEF NotifyBy
      <3>3. monitor'[i] = MoveAll(m) \/ monitor'[i] = MoveOne(m)
        BY <1>1, <2>1, <3>2
      <3>4. /\ MoveAll(m).owner_ = m.owner_ /\ MoveOne(m).owner_ = m.owner_
            /\ MoveAll(m).recursive_counter_ = m.recursive_counter_
            /\ MoveOne(m).recursive_counter_ = m.recursive_counter_
        BY <2>1 DEF MoveAll, MoveOne, MonitorRecords
      <3> QED BY <3>3, <3>4
    <2> QED BY <2>2, <2>3, <2>4, <2>5 DEF ReleaseSignal, CondWait, Awake
  <1> QED BY <1>0, <1>2, <1>3, <1>4, InsideStutter

(* At both ends of Wait the levels move between the Monitor and the locals of its owner. *)
LEMMA WaitAbs ==
  ASSUME Inv, Mapping, Mapping', NEW t \in Threads, WaitEnlist(t) \/ WaitEnd(t)
  PROVE  UNCHANGED absVars
  <1>0. PICK l, k, i, m, n :
          l = local[t] /\ k = local'[t] /\ i = markWord_.id /\ m = TheMonitor /\ n = monitor'[i]
    OBVIOUS
  <1>1. /\ TypeOK /\ local \in [Threads -> Locals] /\ monitor \in [Ids -> MonitorRecords]
        /\ l \in Locals /\ markWord_ \in Marks /\ waiting_monitor_ \in [Threads -> Ids \cup {NoId}]
        /\ HeavyInv
    BY <1>0 DEF Inv, TypeOK
  <1>2. CASE WaitEnlist(t)
    <2>1. /\ l.pc = "wait" /\ IsHeavy /\ UNCHANGED markWord_ /\ monitor[i].owner_ = t
          /\ local' = [local EXCEPT ![t].pc = "release", ![t].id = i,
                                    ![t].counter = monitor[i].recursive_counter_]
          /\ monitor' = [monitor EXCEPT ![i].waiters_ = <<t>> \o @,
                                   ![i].recursive_counter_ = 1,
                                   ![i].waiters_counter_ = @ + 1]
          /\ waiting_monitor_' = [waiting_monitor_ EXCEPT ![t] = i]
      BY <1>0, <1>2 DEF WaitEnlist, At, IsHeavy
    <2>2. i \in Ids /\ m = monitor[i] /\ m \in MonitorRecords
      BY <1>0, <1>1, <2>1, MarkFields DEF IsHeavy, TheMonitor
    <2>3. Own = t /\ Held = m.recursive_counter_
      BY <1>0, <2>1, <2>2 DEF Own, Held, IsHeavy
    <2>4. n.owner_ = t
      BY <1>0, <1>1, <2>1, <2>2 DEF MonitorRecords
    <2>5. IsHeavy' /\ TheMonitor' = n /\ (markWord_.state # "LIGHT_LOCKED")'
      BY <1>0, <2>1 DEF IsHeavy, TheMonitor
    <2>6. Own' = t
      BY <2>4, <2>5 DEF Own
    <2>7. ~WaitsIn(l)
      BY <2>1 DEF WaitsIn, UsingPcs
    <2>8. Gave(t) = 0
      BY <1>0, <2>7 DEF Mapping
    <2>9. k.counter = m.recursive_counter_ /\ waiting_monitor_'[t] = i
      BY <1>0, <1>1, <2>1, <2>2 DEF Locals
    <2>10. Gave(t)' = Held
      BY <1>0, <2>2, <2>3, <2>9, IdsAre DEF Gave
    <2>11. Held > 0
      BY <2>3, MonitorAssumption DEF Mapping, MonitorAssumption
    <2>12. \A u \in Threads \ {t} : Gave(u)' = Gave(u)
      BY <1>1, <2>1 DEF Gave
    <2>13. (IF Gave(t) > 0 THEN Gave(t) ELSE Held)' = IF Gave(t) > 0 THEN Gave(t) ELSE Held
      BY <2>8, <2>10, <2>11
    <2> QED BY <2>3, <2>6, <2>12, <2>13, MapMove
  <1>3. CASE WaitEnd(t)
    <2>1. /\ l.pc = "waitEnd" /\ l.pc \in UsingPcs /\ UNCHANGED markWord_
          /\ monitor' = [monitor EXCEPT ![l.id].waiters_counter_ = @ - 1,
                                ![l.id].recursive_counter_ = l.counter,
                                ![l.id].waiters_ = Remove(@, t),
                                ![l.id].to_wakeup_ = Remove(@, t)]
          /\ waiting_monitor_' = [waiting_monitor_ EXCEPT ![t] = NoId]
          /\ Return(t)
      BY <1>0, <1>3 DEF WaitEnd, At, UsingPcs
    <2>2. IsHeavy /\ l.id = i /\ i \in Ids /\ m = monitor[i] /\ m \in MonitorRecords /\ OwnersOK(m)
      BY <1>0, <2>1, UsesIt DEF TheMonitor
    <2>3. m.owner_ = t
      BY <1>0, <2>1, <2>2 DEF OwnersOK, OwnerOK
    <2>4. Own = t
      BY <1>0, <2>2, <2>3 DEF Own, IsHeavy
    <2>5. PICK a, b, c : monitor' = [monitor EXCEPT ![i].waiters_counter_ = c,
                                ![i].recursive_counter_ = l.counter,
                                ![i].waiters_ = a, ![i].to_wakeup_ = b]
      BY <2>1, <2>2
    <2>6. n = [m EXCEPT !.waiters_counter_ = c, !.recursive_counter_ = l.counter,
                        !.waiters_ = a, !.to_wakeup_ = b]
      BY <1>0, <1>1, <2>2, <2>5
    <2>7. n.owner_ = t /\ n.recursive_counter_ = l.counter
      BY <2>2, <2>3, <2>6 DEF MonitorRecords
    <2>8. IsHeavy' /\ TheMonitor' = n /\ (markWord_.state # "LIGHT_LOCKED")'
      BY <1>0, <2>1, <2>2 DEF IsHeavy, TheMonitor
    <2>9. Own' = t /\ Held' = l.counter
      BY <2>7, <2>8 DEF Own, Held
    <2>10. Others(t) /\ l.op = "wait"
      BY <1>0, <1>1, <2>1, Moves DEF Inv, ShapeInv, Shape
    <2>11. WaitsIn(l)
      BY <2>1, <2>10 DEF WaitsIn
    <2>12. Gave(t) > 0 /\ Gave(t) = l.counter
      BY <1>0, <2>11 DEF Mapping, Gave
    <2>13. Gave(t)' = 0
      BY <1>1, <2>1 DEF Gave
    <2>14. \A u \in Threads \ {t} : Gave(u)' = Gave(u)
      BY <1>1, <2>1, <2>10 DEF Gave, Others
    <2>15. (IF Gave(t) > 0 THEN Gave(t) ELSE Held)' = IF Gave(t) > 0 THEN Gave(t) ELSE Held
      BY <2>9, <2>12, <2>13
    <2> QED BY <2>4, <2>9, <2>14, <2>15, MapMove
  <1> QED BY <1>2, <1>3

(* A Monitor that is deflated has no owner. *)
LEMMA DeflateAbs ==
  ASSUME Inv, Mapping, Mapping', NEW i \in Ids, Deflate(i)
  PROVE  UNCHANGED absVars
  <1>1. /\ markWord_ \in Marks /\ PoolInv /\ monitor \in [Ids -> MonitorRecords] /\ PlaceInv
        /\ WaitInv
    BY DEF Inv, TypeOK
  <1>2. /\ monitor[i].owner_ = NoThread /\ i \in monitors_ /\ WorldStopped
        /\ markWord_' = DeflatedMark(monitor[i]) /\ UNCHANGED <<local, waiting_monitor_>>
    BY DEF Deflate, Deflatable, waits
  <1>3. markWord_ = Heavy(i)
    <2>1. \A t \in Threads : ~Inflating(t)
      BY <1>2 DEF WorldStopped, At, Running, NotRunningPcs, Inflating, InflatingPcs
    <2> QED BY <1>1, <1>2, <2>1 DEF PoolInv
  <1>4. Own = NoThread
    BY <1>2, <1>3, MarksMade DEF Own, IsHeavy, TheMonitor
  <1>5. Held = 0
    BY <1>4 DEF Mapping
  <1>6. monitor[i].hash_code_ = NoHash \/ monitor[i].hash_code_ \in Hashes
    BY <1>1 DEF MonitorRecords
  <1>7. (markWord_.state \in {"UNLOCKED", "HASHED"})'
    BY <1>2, <1>6, MarksMade DEF DeflatedMark
  <1>8. Own' = NoThread /\ Held' = 0
    BY <1>7 DEF Own, Held, IsHeavy
  <1>9. \A u \in Threads : Gave(u)' = Gave(u)
    BY <1>2 DEF Gave
  <1> QED BY <1>4, <1>5, <1>8, <1>9, MapStutter

(* Every step is a step of the abstract monitor, or leaves it alone. *)
LEMMA AbstractStep ==
  ASSUME Inv, Mapping, Mapping', Next
  PROVE  [Abstract!Next]_absVars
  <1>1. CASE \E i \in Ids : Deflate(i)
    BY <1>1, DeflateAbs
  <1>2. ASSUME NEW t \in Threads, Call(t) \/ Step(t) \/ WaitTimeout(t) \/ Interrupt(t)
        PROVE  [Abstract!Next]_absVars
    <2>1. CASE Cas(t)
      BY <2>1, CasAbs
    <2>2. CASE Acquire(t) \/ AcquireBlocked(t) \/ AcquireReturn(t)
      BY <2>2, AcquireAbs
    <2>3. CASE Release(t)
      BY <2>3, ReleaseAbs
    <2>4. CASE WaitEnlist(t) \/ WaitEnd(t)
      BY <2>4, WaitAbs
    <2>5. CASE \/ ReleaseSignal(t) \/ ReleaseUnlock(t) \/ CondWait(t) \/ Awake(t) \/ HashSet(t)
               \/ \E all \in BOOLEAN : NotifyBy(t, all)
      BY <2>5, InsideAbs
    <2>6. CASE InflateLoad(t) \/ InflateOtherLoad(t) \/ InflateCasFail(t) \/ InflateOtherCasFail(t)
      BY <2>6, InflateAbs
    <2>7. CASE Call(t)
      <3>1. CASE Notify(t) \/ NotifyAll(t)
        BY <2>5, <3>1 DEF Notify, NotifyAll
      <3> QED BY <2>7, <3>1, LookAbs DEF Call
    <2>8. CASE WaitTimeout(t) \/ Interrupt(t) \/ Poll(t)
      BY <2>5, <2>8, LookAbs DEF WaitTimeout
    <2>9. CASE CasFail(t)
      BY <2>6, <2>9, LookAbs DEF CasFail
    <2>10. CASE EnterStep(t)
      BY <2>2, <2>6, <2>10, LookAbs DEF EnterStep
    <2>11. CASE ExitStep(t) \/ WaitStep(t) \/ HashStep(t)
      BY <2>3, <2>4, <2>5, <2>11, LookAbs DEF ExitStep, WaitStep, HashStep, WaitSignalled
    <2> QED BY <1>2, <2>1, <2>7, <2>8, <2>9, <2>10, <2>11 DEF Step
  <1> QED BY <1>1, <1>2 DEF Next

(* Every behaviour of the monitor of an object, over light locks, inflation by its owner or
   by another thread, Wait and deflation, is one of a reentrant lock with Wait. *)
THEOREM Refinement == Spec => RefinesMonitor
  <1>1. Init => Abstract!Init
    <2> SUFFICES ASSUME Init PROVE Abstract!Init
      OBVIOUS
    <2>1. Mapping
      BY InitInv, MappingHolds
    <2>2. Own = NoThread /\ Held = 0
      BY MarksMade DEF Init, Own, Held, IsHeavy
    <2>3. \A t \in Threads : Gave(t) = 0
      BY DEF Init, Gave
    <2>4. AbstractWaiting = [t \in Threads |-> 0]
      BY <2>1, <2>3 DEF Mapping
    <2>5. AbstractOwner = NoThread /\ AbstractDepth = 0
      BY <2>1, <2>2 DEF Mapping
    <2> QED BY <2>4, <2>5 DEF Abstract!Init
  <1>2. Inv /\ Inv' /\ [Next]_vars => [Abstract!Next]_absVars
    <2> SUFFICES ASSUME Inv, Inv', [Next]_vars PROVE [Abstract!Next]_absVars
      OBVIOUS
    <2>1. Mapping /\ Mapping'
      BY MappingHolds, MappingPrime
    <2>2. CASE Next
      BY <2>1, <2>2, AbstractStep
    <2>3. CASE UNCHANGED vars
      BY <2>3 DEF vars, absVars, AbstractOwner, AbstractDepth, AbstractWaiting, Holder, Levels
    <2> QED BY <2>2, <2>3
  <1> QED BY <1>1, <1>2, Invariance, PTL DEF Spec, RefinesMonitor, Abstract!Spec, Abstract!vars, absVars
=============================================================================
