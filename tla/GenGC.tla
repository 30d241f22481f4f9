------------------------------- MODULE GenGC -------------------------------
(***************************************************************************)
(* The generational collector (runtime/mem/gc/gen-gc/gen-gc.cpp) at work   *)
(* while managed threads run: the young collection that moves survivors,   *)
(* the tenured collection that marks and sweeps beside the threads, the    *)
(* card table that connects them (card_table-inl.h, gc_barrier_set.cpp),   *)
(* the initialisation of a new object's header (heap_manager.cpp) and the  *)
(* string table, whose weak half the collector sweeps (string_table.cpp).  *)
(*                                                                         *)
(* Memory is the addresses 1..NumTenured, then the young space.  Address   *)
(* ClassObject holds a loaded class with one static reference field; every *)
(* other instance has one reference field and a string has none.  What a   *)
(* pause does while all threads are stopped is one action; everything done *)
(* beside running threads is split at each access to shared memory.        *)
(***************************************************************************)
EXTENDS Naturals, FiniteSets

CONSTANTS NumTenured,   \* tenured slots, the class object's included
          NumYoung,     \* slots of the young space
          CardSize,     \* slots covered by one card
          MoveReserve,  \* free tenured slots a young collection asks for
          Threads,      \* managed threads
          HeapThreads,  \* those that allocate instances, load and store
          Regs,         \* virtual registers of a thread
          Strings,      \* string contents
          MaxChain,     \* tenured objects there may be to begin with
          MaxOps        \* operations the threads start in a behaviour

ASSUME SpaceAssumption == /\ NumTenured \in Nat \ {0}
                          /\ NumYoung \in Nat
                          /\ CardSize \in Nat \ {0}
                          /\ NumTenured % CardSize = 0
                          /\ MaxChain \in 0..(NumTenured - 1)
                          /\ MoveReserve \in Nat
                          /\ MoveReserve >= NumYoung

ASSUME ThreadAssumption == /\ HeapThreads \subseteq Threads
                           /\ MaxOps \in Nat
                           /\ Strings \cap {"free", "blank", "inst"} = {}

VARIABLES cls,        \* the class word: "free", "blank" (null), "inst" or a string's content
          field,      \* the reference field of an instance
          mark,       \* the objects whose mark bit is set
          card,       \* the card table
          table,      \* StringTable::table_, the weak half
          internal,   \* StringTable::internal_table_, whose strings are roots
          newStrings, \* InternalTable::new_string_table_
          recording,  \* InternalTable::record_new_string_
          reg,        \* the registers of each thread
          op,         \* what each thread is in the middle of
          gcpc,       \* where the collector is
          stack,      \* the collector's mark stack
          at,         \* the slot its current iteration has come to
          ops,        \* operations started so far
          garbage     \* history: dead when the marking began and not yet freed

heapVars == <<cls, field, mark, card>>
stringVars == <<table, internal, newStrings, recording>>
threadVars == <<reg, op, ops>>
gcVars == <<gcpc, stack, at>>
vars == <<cls, field, mark, card, table, internal, newStrings, recording,
          reg, op, ops, gcpc, stack, at, garbage>>

Null == 0
ClassObject == 1
Tenured == 1..NumTenured
Young == (NumTenured + 1)..(NumTenured + NumYoung)
Addr == Tenured \cup Young
Cards == {(a - 1) \div CardSize : a \in Addr}
CardOf(a) == (a - 1) \div CardSize

Idle == [pc |-> "run", addr |-> Null, str |-> "inst"]

OpPcs == {"run", "barrier", "weakTable", "weakNew", "weakInsert", "internalGet",
          "internalNew", "bits", "setMark", "recheck", "class", "internalInsert", "record", "fault"}

GcPcs == {"idle", "initial", "class", "drain1", "visitStrings", "drain2",
          "cards", "objects", "drain3", "sweep", "unmark", "end"}

TypeOK == /\ cls \in [Addr -> {"free", "blank", "inst"} \cup Strings]
          /\ field \in [Addr -> Addr \cup {Null}]
          /\ mark \subseteq Addr
          /\ card \in [Cards -> {"clear", "marked", "processed"}]
          /\ table \subseteq Addr /\ internal \subseteq Addr /\ newStrings \subseteq Addr
          /\ recording \in BOOLEAN
          /\ reg \in [Threads -> [Regs -> Addr \cup {Null}]]
          /\ op \in [Threads -> [pc : OpPcs, addr : Addr \cup {Null}, str : {"inst"} \cup Strings]]
          /\ ops \in 0..MaxOps
          /\ gcpc \in GcPcs
          /\ stack \subseteq Addr
          /\ at \in 0..(NumTenured + NumYoung + CardSize)
          /\ garbage \subseteq Tenured

\* The class object alone, or with the objects of a list that starts in its
\* static field and that an earlier young collection has moved.
Init == /\ \E n \in 0..MaxChain :
             /\ cls = [a \in Addr |-> IF a <= n + 1 THEN "inst" ELSE "free"]
             /\ field = [a \in Addr |-> IF a <= n THEN a + 1 ELSE Null]
        /\ mark = {}
        /\ card = [c \in Cards |-> "clear"]
        /\ table = {} /\ internal = {} /\ newStrings = {} /\ recording = FALSE
        /\ reg = [t \in Threads |-> [r \in Regs |-> Null]]
        /\ op = [t \in Threads |-> Idle]
        /\ ops = 0
        /\ gcpc = "idle" /\ stack = {} /\ at = 0 /\ garbage = {}

(***************************************************************************)
(* Objects.                                                                *)
(***************************************************************************)
Free(S) == {a \in S : cls[a] = "free"}

\* The slot an allocator hands out next: its first free one, if any.
FirstFree(S) == {a \in Free(S) : \A b \in Free(S) : a <= b}

\* An allocated slot whose class word is set.
Object(a) == a \in Addr /\ cls[a] \notin {"free", "blank"}

\* What the objects of S refer to.
Targets(S) == {field[a] : a \in S} \ {Null}

\* The least set that contains S and, with an object of it that lies in From,
\* what the object refers to, unless that is in Stop.
Closure(S, From, Stop) ==
  LET c[n \in 0..(NumTenured + NumYoung)] ==
        IF n = 0 THEN S
        ELSE LET before == c[n - 1] IN before \cup (Targets(before \cap From) \ Stop)
  IN  c[NumTenured + NumYoung]

\* Thread stacks and registers, the roots that every pause visits again.
LocalRoots == {reg[t][r] : t \in Threads, r \in Regs} \ {Null}

(***************************************************************************)
(* Managed threads.  A thread stops for the collector only between         *)
(* operations, or where it asks for memory: an allocation may wait for a   *)
(* collection before it takes its slot.                                    *)
(***************************************************************************)
AtSafepoint(t) == op[t].pc \in {"run", "weakNew", "internalNew"}

Stopped == \A t \in Threads : AtSafepoint(t)

\* A thread has dereferenced null, outside of the code whose faults become
\* exceptions.
Faulted == \E t \in Threads : op[t].pc = "fault"

\* The pause of the young collection goes on into InitialMark.
WorldRuns == gcpc # "initial" /\ ~Faulted

\* A thread starts an operation.
Begins(t) == ops < MaxOps /\ ops' = ops + 1 /\ op[t].pc = "run" /\ WorldRuns

\* A thread goes on with the operation it is in.
Continues(t, pc) == op[t].pc = pc /\ ~Faulted /\ UNCHANGED ops

\* What a thread may name as the base of an access: the class or a register.
Bases(t) == {a \in {ClassObject} \cup {reg[t][r] : r \in Regs} : a # Null /\ cls[a] = "inst"}

Goto(t, pc) == op' = [op EXCEPT ![t].pc = pc]

Return(t, a) == /\ op' = [op EXCEPT ![t] = Idle]
                /\ \E r \in Regs : reg' = [reg EXCEPT ![t][r] = a]

\* A load of a reference field or of a static field.
Load(t) == /\ Begins(t) /\ t \in HeapThreads
           /\ \E b \in Bases(t), r \in Regs : reg' = [reg EXCEPT ![t][r] = field[b]]
           /\ UNCHANGED <<heapVars, stringVars, op, gcVars, garbage>>

\* A register that goes out of use, or is overwritten by null.
Drop(t) == /\ Begins(t)
           /\ \E r \in Regs : reg[t][r] # Null /\ reg' = [reg EXCEPT ![t][r] = Null]
           /\ UNCHANGED <<heapVars, stringVars, op, gcVars, garbage>>

\* A store of a reference.  The post barrier follows the store.
Store(t) ==
  /\ Begins(t) /\ t \in HeapThreads
  /\ \E b \in Bases(t), v \in {reg[t][r] : r \in Regs} \cup {Null} :
        /\ field' = [field EXCEPT ![b] = v]
        /\ op' = [op EXCEPT ![t] = [pc |-> "barrier", addr |-> b, str |-> "inst"]]
  /\ UNCHANGED <<cls, mark, card, stringVars, reg, gcVars, garbage>>

PostBarrier(t) ==
  /\ Continues(t, "barrier")
  /\ card' = [card EXCEPT ![CardOf(op[t].addr)] = "marked"]
  /\ op' = [op EXCEPT ![t] = Idle]
  /\ UNCHANGED <<cls, field, mark, stringVars, reg, gcVars, garbage>>

\* An instance in the young space, unmarked; the collector visits none of its
\* header beside running threads, so the steps of its initialisation are one.
AllocateYoung(t) ==
  /\ Begins(t) /\ t \in HeapThreads
  /\ \E a \in FirstFree(Young) :
        /\ cls' = [cls EXCEPT ![a] = "inst"]
        /\ mark' = mark \ {a}
        /\ Return(t, a)
  /\ UNCHANGED <<field, card, stringVars, gcVars, garbage>>

\* The memory of a tenured object, taken zeroed from the allocator; str says
\* what it will be.
TakeTenured(t, str) ==
  /\ \E a \in FirstFree(Tenured) :
        /\ cls' = [cls EXCEPT ![a] = "blank"]
        /\ op' = [op EXCEPT ![t] = [pc |-> "bits", addr |-> a, str |-> str]]
  /\ UNCHANGED <<field, mark, card, stringVars, reg, gcVars, garbage>>

AllocateTenured(t) ==
  /\ Begins(t) /\ t \in HeapThreads
  /\ TakeTenured(t, "inst")

\* InitGCBits, first look at the phase: outside a sweep the bit is cleared.
InitGCBits(t) ==
  /\ Continues(t, "bits")
  /\ \/ gcpc = "sweep" /\ Goto(t, "setMark") /\ UNCHANGED mark
     \/ gcpc # "sweep" /\ Goto(t, "class") /\ mark' = mark \ {op[t].addr}
  /\ UNCHANGED <<cls, field, card, stringVars, reg, gcVars, garbage>>

SetMarked(t) == /\ Continues(t, "setMark")
                /\ mark' = mark \cup {op[t].addr}
                /\ Goto(t, "recheck")
                /\ UNCHANGED <<cls, field, card, stringVars, reg, gcVars, garbage>>

\* InitGCBits, second look: the sweep may have ended in between.
Recheck(t) == /\ Continues(t, "recheck")
              /\ mark' = IF gcpc = "sweep" THEN mark ELSE mark \ {op[t].addr}
              /\ Goto(t, "class")
              /\ UNCHANGED <<cls, field, card, stringVars, reg, gcVars, garbage>>

\* SetClass comes last: until then the sweep takes the object for alive.
SetClass(t) ==
  /\ Continues(t, "class")
  /\ cls' = [cls EXCEPT ![op[t].addr] = op[t].str]
  /\ IF op[t].str = "inst" THEN Return(t, op[t].addr)
                           ELSE Goto(t, "internalInsert") /\ UNCHANGED reg
  /\ UNCHANGED <<field, mark, card, stringVars, gcVars, garbage>>

(***************************************************************************)
(* The string table.  Each lookup and each insertion holds the lock of one *)
(* table and is one step; nothing holds the locks of both.                 *)
(***************************************************************************)
Found(tab, s) == {a \in tab : cls[a] = s}

\* A lookup that returns the string it finds, or goes on to pc.
LookUp(t, tab, s, pc) ==
  /\ \/ \E a \in Found(tab, s) : Return(t, a)
     \/ /\ Found(tab, s) = {}
        /\ op' = [op EXCEPT ![t] = [pc |-> pc, addr |-> Null, str |-> s]]
        /\ UNCHANGED reg
  /\ UNCHANGED <<heapVars, stringVars, gcVars, garbage>>

\* StringTable::GetOrInternString of character data: the internal table, then the
\* weak one.
GetOrInternString(t, s) == /\ Begins(t)
                           /\ LookUp(t, internal, s, "weakTable")

WeakTable(t) == Continues(t, "weakTable") /\ LookUp(t, table, op[t].str, "weakNew")

\* The string is created as a movable object.
WeakNew(t) ==
  /\ WorldRuns /\ Continues(t, "weakNew")
  /\ \E a \in FirstFree(Young) :
        /\ cls' = [cls EXCEPT ![a] = op[t].str]
        /\ mark' = mark \ {a}
        /\ op' = [op EXCEPT ![t].pc = "weakInsert", ![t].addr = a]
  /\ UNCHANGED <<field, card, stringVars, reg, gcVars, garbage>>

\* Mutant of InternString: the table is not looked at again under the write lock.
InternStringUnchecked(t, tab) == {op[t].addr}

\* Table::InternString: the string another thread has inserted meanwhile wins.
InternString(t, tab) == IF Found(tab, op[t].str) = {} THEN {op[t].addr}
                                                      ELSE Found(tab, op[t].str)

WeakInsert(t) ==
  /\ Continues(t, "weakInsert")
  /\ \E a \in InternString(t, table) : table' = table \cup {a} /\ Return(t, a)
  /\ UNCHANGED <<heapVars, internal, newStrings, recording, gcVars, garbage>>

\* StringTable::GetOrInternInternalString: the weak table, then the internal one.
GetOrInternInternalString(t, s) == /\ Begins(t)
                                   /\ LookUp(t, table, s, "internalGet")

InternalGet(t) == Continues(t, "internalGet") /\ LookUp(t, internal, op[t].str, "internalNew")

\* The string is created as a non-movable object.
InternalNew(t) == WorldRuns /\ Continues(t, "internalNew") /\ TakeTenured(t, op[t].str)

\* A string for which there is no memory: CreateFromMUtf8 has thrown and returns
\* null, which is not looked at and which InternString dereferences.
OutOfMemory(t) ==
  /\ WorldRuns
  /\ \/ op[t].pc = "weakNew" /\ Free(Young) = {}
     \/ op[t].pc = "internalNew" /\ Free(Tenured) = {}
  /\ op' = [op EXCEPT ![t] = [Idle EXCEPT !.pc = "fault"]]
  /\ UNCHANGED <<heapVars, stringVars, reg, ops, gcVars, garbage>>

\* InternStringNonMovable: the insertion, then under the lock again the record.
InternalInsert(t) ==
  /\ Continues(t, "internalInsert")
  /\ \E a \in InternString(t, internal) :
        /\ internal' = internal \cup {a}
        /\ op' = [op EXCEPT ![t].pc = "record", ![t].addr = a]
  /\ UNCHANGED <<heapVars, table, newStrings, recording, reg, gcVars, garbage>>

Record(t) ==
  /\ Continues(t, "record")
  /\ newStrings' = IF recording THEN newStrings \cup {op[t].addr} ELSE newStrings
  /\ Return(t, op[t].addr)
  /\ UNCHANGED <<heapVars, table, internal, recording, gcVars, garbage>>

(***************************************************************************)
(* The young collection: one pause.                                        *)
(***************************************************************************)
\* The objects in the tenured cards that are in one of the given states.
OnCards(states) == {a \in Tenured : Object(a) /\ card[CardOf(a)] \in states}

\* MarkYoung: from the local roots and from tenured objects on marked or
\* processed cards.  Only unmarked objects are pushed, and only young ones
\* are traversed.
MarkYoung ==
  LET roots == (LocalRoots \cup Targets(OnCards({"marked", "processed"}))) \cap Young
  IN  mark \cup Closure(roots \ mark, Young, mark)

\* CollectYoungAndMove when there is room: every marked young object moves to a
\* tenured slot; the references on marked and processed cards, in moved objects,
\* registers and the weak string table are redirected; strings still young in
\* that table are dropped; the young space and the card table are reset.
MoveSurvivors(marked) ==
  LET survivors == {a \in Young : Object(a) /\ a \in marked}
      dst == CHOOSE f \in [survivors -> Free(Tenured)] :
               \A a, b \in survivors : a < b => f[a] < f[b]
      moved == {dst[a] : a \in survivors}
      src(b) == CHOOSE a \in survivors : dst[a] = b
      fwd(a) == IF a \in survivors THEN dst[a] ELSE a
  IN  /\ cls' = [a \in Addr |-> IF a \in Young THEN "free"
                                ELSE IF a \in moved THEN cls[src(a)] ELSE cls[a]]
      /\ field' = [a \in Addr |-> IF a \in Young THEN Null
                                  ELSE IF a \in moved THEN fwd(field[src(a)])
                                  ELSE IF a \in OnCards({"marked", "processed"}) THEN fwd(field[a])
                                  ELSE field[a]]
      /\ mark' = marked \ (Young \cup moved)
      /\ card' = [c \in Cards |-> "clear"]
      /\ table' = {fwd(a) : a \in table} \ Young
      /\ reg' = [t \in Threads |-> [r \in Regs |-> fwd(reg[t][r])]]

\* Without room nothing moves and the marks stay.
RunYoungGC ==
  /\ gcpc = "idle" /\ Stopped
  /\ IF Cardinality(Free(Tenured)) >= MoveReserve
       THEN MoveSurvivors(MarkYoung)
       ELSE mark' = MarkYoung /\ UNCHANGED <<cls, field, card, table, reg>>
  /\ gcpc' \in {"idle", "initial"}      \* ShouldRunTenuredGC
  /\ UNCHANGED <<internal, newStrings, recording, op, ops, stack, at, garbage>>

(***************************************************************************)
(* The tenured collection.                                                 *)
(***************************************************************************)
\* What the program can still reach; a weak table entry is not a reference.
Roots == LocalRoots \cup {ClassObject} \cup internal
Reachable == Closure(Roots, Addr, {})

\* In the pause: every mark is cleared, then the local roots are marked.
InitialMark ==
  /\ gcpc = "initial"
  /\ mark' = LocalRoots /\ stack' = LocalRoots
  /\ gcpc' = "class"
  /\ garbage' = {a \in Tenured : Object(a)}
                  \ (Closure(Reachable \cup {y \in Young : Object(y)}, Addr, {}) \cup table)
  /\ UNCHANGED <<cls, field, card, stringVars, threadVars, at>>

\* The collector beside running threads has come to one of these points.
Collecting(pcs) == gcpc \in pcs /\ ~Faulted

\* MarkObjectIfNotMarked and AddToStack, for each object of S.
MarkAndPush(S) == mark' = mark \cup S /\ stack' = stack \cup (S \ mark)

VisitClassRoots ==
  /\ Collecting({"class"})
  /\ MarkAndPush({ClassObject})
  /\ gcpc' = "drain1"
  /\ UNCHANGED <<cls, field, card, stringVars, threadVars, at, garbage>>

\* MarkStack, one object: what its field holds now is marked and pushed.  The
\* code takes the last object pushed; any order is allowed here.
MarkStack ==
  /\ Collecting({"drain1", "drain2", "drain3"})
  /\ \E a \in stack : /\ mark' = mark \cup Targets({a})
                      /\ stack' = (stack \ {a}) \cup (Targets({a}) \ mark)
  /\ UNCHANGED <<cls, field, card, stringVars, threadVars, gcpc, at, garbage>>

\* VisitRoots of the internal strings once the stack is empty: record new ones
\* first, then visit all.
StartRecording ==
  /\ Collecting({"drain1"}) /\ stack = {}
  /\ recording' = TRUE
  /\ gcpc' = "visitStrings"
  /\ UNCHANGED <<heapVars, table, internal, newStrings, threadVars, stack, at, garbage>>

VisitInternalStrings ==
  /\ Collecting({"visitStrings"})
  /\ MarkAndPush(internal)
  /\ gcpc' = "drain2" /\ at' = 1
  /\ UNCHANGED <<cls, field, card, stringVars, threadVars, garbage>>

\* The visit of the cards goes on with slot next, or ends in MarkStack.
NextCard(next) == at' = next /\ gcpc' = IF next \in Addr THEN "cards" ELSE "drain3"

\* CardTable::VisitMarked beside running threads, once the stack is empty: a
\* marked or processed card becomes processed before its objects are visited;
\* the card of a young range is marked again instead.
VisitCard ==
  /\ Collecting({"drain2", "cards"}) /\ (gcpc = "drain2" => stack = {})
  /\ LET c == CardOf(at)
     IN  IF card[c] = "clear" \/ at \in Young
           THEN /\ card' = [card EXCEPT ![c] = IF @ = "clear" THEN @ ELSE "marked"]
                /\ NextCard(at + CardSize)
           ELSE /\ card' = [card EXCEPT ![c] = "processed"]
                /\ gcpc' = "objects"
                /\ UNCHANGED at
  /\ UNCHANGED <<cls, field, mark, stringVars, threadVars, stack, garbage>>

\* Mutant of VisitCardObject: the card becomes processed after its object's visit.
VisitCardObjectFirst ==
  /\ Collecting({"objects"})
  /\ LET found == IF Object(at) /\ at \in mark THEN Targets({at}) \cap Tenured ELSE {}
     IN  mark' = mark \cup found /\ stack' = stack \cup found
  /\ card' = [card EXCEPT ![CardOf(at)] = "processed"]
  /\ IF at % CardSize = 0 THEN NextCard(at + 1) ELSE at' = at + 1 /\ UNCHANGED gcpc
  /\ UNCHANGED <<cls, field, stringVars, threadVars, garbage>>

\* One object of the card: what a marked object refers to in the tenured space
\* is marked and pushed, marked before or not.
VisitCardObject ==
  /\ Collecting({"objects"})
  /\ LET found == IF Object(at) /\ at \in mark THEN Targets({at}) \cap Tenured ELSE {}
     IN  mark' = mark \cup found /\ stack' = stack \cup found
  /\ IF at % CardSize = 0 THEN NextCard(at + 1) ELSE at' = at + 1 /\ UNCHANGED gcpc
  /\ UNCHANGED <<cls, field, card, stringVars, threadVars, garbage>>

\* Mutant of ReMarked: dead objects on marked cards are followed too.
ReMarkedFromDead ==
  LET from == {a \in Addr : Object(a) /\ card[CardOf(a)] = "marked"}
      pushed == LocalRoots \cup (Targets(from) \cap Tenured)
  IN  mark \cup Closure(pushed, Addr, mark) \cup newStrings

\* ReMark's marking: the local roots again, the targets of young or marked
\* objects on marked cards, and the strings interned since the recording began.
\* (An object that is marked on the way is pushed as well, so its targets are
\* followed whether the visit of its card finds it marked or not.)
ReMarked ==
  LET m1 == mark \cup LocalRoots
      from == {a \in Addr : Object(a) /\ card[CardOf(a)] = "marked" /\ (a \in Young \/ a \in m1)}
      pushed == LocalRoots \cup (Targets(from) \cap Tenured)
      m2 == mark \cup Closure(pushed, Addr, mark)
  IN  m2 \cup newStrings

\* SweepStringTable: a tenured string that is not marked leaves the weak table.
SweepStringTable(marked) == {a \in table : a \in Young \/ a \in marked \/ ~Object(a)}

\* The second pause: ReMark, the young marks cleared, the weak table swept; the
\* threads run again once the phase is the sweep's.
ReMark ==
  /\ gcpc = "drain3" /\ stack = {} /\ Stopped
  /\ mark' = ReMarked \ Young
  /\ table' = SweepStringTable(ReMarked)
  /\ recording' = FALSE /\ newStrings' = {}
  /\ gcpc' = "sweep" /\ at' = 1
  /\ UNCHANGED <<cls, field, card, internal, threadVars, stack, garbage>>

\* The cards that cover free tenured slots only.
EmptyCards == {c \in Cards : \A a \in Addr : CardOf(a) = c => a \in Tenured /\ cls[a] = "free"}

\* Sweep, one tenured slot: an object with a class word and no mark is freed.
\* After the last one VisitAndRemoveFreePools clears the cards of the pools, sets
\* of cards here, that are empty by now.  No thread looks at such a card or marks
\* it, and none frees memory, so that this is part of the last step.
SweepSlot ==
  /\ Collecting({"sweep"}) /\ at \in Tenured
  /\ IF Object(at) /\ at \notin mark
       THEN /\ cls' = [cls EXCEPT ![at] = "free"]
            /\ field' = [field EXCEPT ![at] = Null]
            /\ garbage' = garbage \ {at}
       ELSE UNCHANGED <<cls, field, garbage>>
  /\ IF at = NumTenured
       THEN \E pools \in SUBSET EmptyCards' :
              card' = [c \in Cards |-> IF c \in pools THEN "clear" ELSE card[c]]
       ELSE UNCHANGED card
  /\ at' = at + 1
  /\ UNCHANGED <<mark, stringVars, threadVars, gcpc, stack>>

\* The scope of GC_PHASE_SWEEP ends before the marks are cleared.
SweepEnds ==
  /\ Collecting({"sweep"}) /\ at \notin Tenured
  /\ gcpc' = "unmark" /\ at' = 0
  /\ UNCHANGED <<heapVars, stringVars, threadVars, stack, garbage>>

\* The marks are cleared, beside running threads but before one of them or the
\* collector looks at a mark again, so that this is one step.
UnMark ==
  /\ Collecting({"unmark"})
  /\ mark' = mark \ Tenured
  /\ gcpc' = "end"
  /\ UNCHANGED <<cls, field, card, stringVars, threadVars, stack, at, garbage>>

\* The last safepoint, where the concurrent scope of Sweep ends.
CycleEnds ==
  /\ gcpc = "end" /\ Stopped
  /\ gcpc' = "idle"
  /\ UNCHANGED <<heapVars, stringVars, threadVars, stack, at, garbage>>

ThreadStep(t) ==
  \/ Load(t) \/ Drop(t) \/ Store(t) \/ PostBarrier(t)
  \/ AllocateYoung(t) \/ AllocateTenured(t)
  \/ InitGCBits(t) \/ SetMarked(t) \/ Recheck(t) \/ SetClass(t)
  \/ \E s \in Strings : GetOrInternString(t, s) \/ GetOrInternInternalString(t, s)
  \/ WeakTable(t) \/ WeakNew(t) \/ WeakInsert(t)
  \/ InternalGet(t) \/ InternalNew(t) \/ InternalInsert(t) \/ Record(t) \/ OutOfMemory(t)

GCStep ==
  \/ RunYoungGC \/ InitialMark \/ VisitClassRoots \/ MarkStack
  \/ StartRecording \/ VisitInternalStrings \/ VisitCard \/ VisitCardObject
  \/ ReMark \/ SweepSlot \/ SweepEnds \/ UnMark \/ CycleEnds

\* The signal ends the process: nothing changes any more.
Ended == Faulted /\ UNCHANGED vars

Next == GCStep \/ (\E t \in Threads : ThreadStep(t)) \/ Ended

Spec == Init /\ [][Next]_vars

(***************************************************************************)
(* Properties.                                                             *)
(***************************************************************************)
\* Addresses a thread holds inside an operation, outside its registers.
Held == {op[t].addr : t \in {u \in Threads : op[u].pc \in {"barrier", "weakInsert", "internalInsert", "record"}}}

\* No object the program can reach is ever freed or left behind by a move: what
\* registers, static and instance fields and the internal strings lead to, what
\* a thread is working on, and every entry of the weak string table, is an
\* initialised object; and memory whose header a thread is still writing is not
\* given to another.  (MarkStack, ReMark, the cards, InitGCBits, SweepStringTable.)
NoDanglingReference ==
  /\ \A a \in Closure(Roots \cup Held, Addr, {}) \cup table : Object(a)
  /\ \A t \in Threads : op[t].pc \in {"bits", "setMark", "recheck", "class"} => cls[op[t].addr] = "blank"

\* A string the program got from the string table stays the one string with its
\* content in its table for as long as the program can reach it: neither a
\* race of two threads nor a sweep makes a second one.  (InternString, Sweep.)
InternedOnce ==
  /\ \A a \in Addr : cls[a] \in Strings /\ a \notin table \cup internal => a \notin Reachable
  /\ \A tab \in {table, internal} : \A a, b \in tab : cls[a] = cls[b] => a = b

\* What was garbage when a tenured collection began to mark is freed when it
\* ends: marking follows no reference of a dead tenured object.  (ReMark, Sweep.)
GarbageCollected == gcpc = "unmark" => garbage = {}
=============================================================================
