------------------------ MODULE ClassInitializerProofs ------------------------
(***************************************************************************)
(* Proofs about ClassInitializer for any number of threads, any class      *)
(* hierarchy and any behaviour of the cctors.                              *)
(*                                                                         *)
(* The inductive invariant Inv follows the activations on the stacks: one  *)
(* that is past its first locked section owns its class (ActiveInv), is    *)
(* the only one that does (UniqueInv), and has settled the classes it      *)
(* depends on as far as its pc says (FrameInv), where "settled" must be    *)
(* told in a way that lasts: initialized, or being initialized by an       *)
(* activation further out on the same stack (Settled). LinkInv and         *)
(* ReturnInv carry a result of an activation to the one that called it.    *)
(***************************************************************************)
EXTENDS ClassInitializer, Integers, SequenceTheorems, TLAPS

Pcs == {"check", "lock", "wait", "woken", "base", "baseRet", "ifaces", "ifaceRet",
        "cctor", "run", "useRet", "final", "initRet"}

(* An activation of Initialize past its first locked section: it has made   *)
(* itself the initializer of its class.                                     *)
Active(f) == f.kind = "init" /\ f.pc \notin {"check", "lock", "wait", "woken"}

(* ... and has not started the cctor. *)
Early(f) == f.kind = "init" /\ f.pc \in {"base", "baseRet", "ifaces", "ifaceRet", "cctor"}

Untouched == {"INITIAL", "LOADED", "VERIFIED"}

(* An initializer owns its class, unless a thread that waited has spoiled it. *)
ActiveInv ==
  \A t \in Threads : \A n \in 1..Len(stack[t]) :
    Active(stack[t][n]) =>
      /\ state[stack[t][n].cls] \notin Untouched
      /\ Early(stack[t][n]) => ran[stack[t][n].cls] = 0
      /\ stack[t][n].cls \notin spoiled =>
           state[stack[t][n].cls] = "INITIALIZING" /\ initTid[stack[t][n].cls] = t

(* A class has one initializer in all the stacks. *)
UniqueInv ==
  \A t, u \in Threads : \A m \in 1..Len(stack[t]), n \in 1..Len(stack[u]) :
    Active(stack[t][m]) /\ Active(stack[u][n]) /\ stack[t][m].cls = stack[u][n].cls
      => t = u /\ m = n

(* The cctor of a class that nobody has begun to initialize has not run. *)
FreshInv == \A c \in Classes : state[c] \in Untouched => ran[c] = 0

(* The thread that a class under initialization names is at it. *)
OwnerInv ==
  \A c \in Classes : \A t \in Threads : state[c] = "INITIALIZING" /\ initTid[c] = t =>
    \E n \in 1..Len(stack[t]) : Active(stack[t][n]) /\ stack[t][n].cls = c

(* What the n-th activation of the stack fs may rely on for good, the       *)
(* classes being in the states st: d is initialized, or an activation that  *)
(* does not end before the n-th one initializes it.                         *)
Settled(st, fs, d, n) ==
  \/ st[d] = "INITIALIZED"
  \/ \E m \in 1..Len(fs) : m >= n /\ Active(fs[m]) /\ fs[m].cls = d

(* Such a set of interfaces as InterfacesReady asks for *)
Closed(st, fs, S, n) ==
  \A j \in S : \/ Settled(st, fs, j, n)
               \/ /\ j \notin DefaultMethods
                  /\ \A x \in 1..Len(IfacesOf[j]) : IfacesOf[j][x] \in S

IfaceSettled(st, fs, i, n) ==
  \E S \in SUBSET Interfaces : i \in S /\ Closed(st, fs, S, n)

(* How far the activation f, the n-th of fs, is, and what it has settled. *)
Good(st, fs, f, n) ==
  /\ f.kind = "iface" => f.cls \in Interfaces /\ f.pc \in {"ifaces", "ifaceRet", "initRet"}
  /\ f.kind = "init" => f.pc # "initRet"
  /\ f.pc = "baseRet" => f.cls \notin Interfaces /\ Base[f.cls] # NoClass
  /\ f.kind = "init" /\ f.pc \in {"check", "lock", "wait", "woken", "base", "baseRet"} => f.k = 1
  /\ f.kind = "init" /\ f.cls \notin Interfaces /\ Base[f.cls] # NoClass
     /\ f.pc \in {"ifaces", "ifaceRet", "cctor", "run", "useRet", "final"}
       => Settled(st, fs, Base[f.cls], n)
  /\ f.pc \in {"ifaces", "ifaceRet"} =>
       /\ f.k >= 1 /\ f.k <= Len(IfacesOf[f.cls]) + 1
       /\ \A x \in 1..Len(IfacesOf[f.cls]) : x < f.k => IfaceSettled(st, fs, IfacesOf[f.cls][x], n)
  /\ f.pc = "ifaceRet" => f.k <= Len(IfacesOf[f.cls])
  /\ f.kind = "init" /\ f.cls \notin Interfaces /\ f.pc \in {"cctor", "run", "useRet", "final"} =>
       \A x \in 1..Len(IfacesOf[f.cls]) : IfaceSettled(st, fs, IfacesOf[f.cls][x], n)

FrameInv ==
  \A t \in Threads : \A n \in 1..Len(stack[t]) : Good(state, stack[t], stack[t][n], n)

(* An activation f that called another one, g. *)
Linked(f, g) ==
  \/ f.pc = "baseRet" /\ g.kind = "init" /\ g.cls = Base[f.cls]
  \/ f.pc = "ifaceRet" /\ g.kind = "iface" /\ g.cls = IfacesOf[f.cls][f.k]
  \/ f.pc = "initRet" /\ g.kind = "init" /\ g.cls = f.cls
  \/ f.pc = "useRet" /\ g.kind = "init"

LinkInv ==
  \A t \in Threads : \A n \in 1..Len(stack[t]) : n > 1 => Linked(stack[t][n], stack[t][n - 1])

(* The result true, where the innermost activation of fs is f. *)
Answer(st, fs, f) ==
  /\ f.pc = "baseRet" => Settled(st, fs, Base[f.cls], 1)
  /\ f.pc = "ifaceRet" => IfaceSettled(st, fs, IfacesOf[f.cls][f.k], 1)
  /\ f.pc = "initRet" => Settled(st, fs, f.cls, 1)

ReturnInv ==
  \A t \in Threads : ret[t] = "true" /\ stack[t] # <<>> /\ ~aborted
                       => Answer(state, stack[t], stack[t][1])

Inv ==
  /\ TypeOK /\ ActiveInv /\ UniqueInv /\ FreshInv /\ OwnerInv /\ FrameInv /\ LinkInv /\ ReturnInv
  /\ CctorRunsOnce /\ AbortsOnlyAfterSpoiling /\ FailureThrows

-------------------------------------------------------------------------------
(* What the operations on a stack do to its activations *)

Stacks == [Threads -> Seq(Frame)]

(* The activation g goes on with the work of f. *)
Same(f, g) == g.kind = f.kind /\ g.cls = f.cls /\ (Active(f) => Active(g))

(* ... and has not become the initializer, nor gone back before the cctor. *)
Keeps(f, g) == Same(f, g) /\ (Active(g) => Active(f)) /\ (Early(g) => Early(f))

(* From the stack fs to gs: the innermost activation goes on; it goes on    *)
(* under a new one; it is taken off.                                        *)
Moved(fs, gs) ==
  /\ Len(fs) >= 1 /\ Len(gs) = Len(fs)
  /\ Same(fs[1], gs[1])
  /\ \A n \in 2..Len(fs) : gs[n] = fs[n]
Pushed(fs, gs) ==
  /\ Len(fs) >= 1 /\ Len(gs) = Len(fs) + 1
  /\ ~Active(gs[1]) /\ Keeps(fs[1], gs[2])
  /\ \A n \in 2..Len(fs) : gs[n + 1] = fs[n]
Popped(fs, gs) ==
  /\ Len(fs) >= 1 /\ Len(gs) = Len(fs) - 1
  /\ \A n \in 2..Len(fs) : gs[n - 1] = fs[n]

Others(t) == \A u \in Threads \ {t} : stack'[u] = stack[u]

(* An activation stays one when its pc, its index or its uses change. *)
LEMMA FrameFields ==
  ASSUME NEW f \in Frame
  PROVE  /\ \A p \in Pcs : [f EXCEPT !.pc = p] \in Frame
         /\ \A p \in Pcs : [f EXCEPT !.k = @ + 1, !.pc = p] \in Frame
         /\ [f EXCEPT !.k = @ + 1] \in Frame
         /\ \A p \in Pcs : \A S : [f EXCEPT !.pc = p, !.uses = @ \ S] \in Frame
  <1>1. \A p \in Pcs : [f EXCEPT !.pc = p] \in Frame
    BY DEF Frame, Pcs
  <1>2. [f EXCEPT !.k = @ + 1] \in Frame
    BY DEF Frame
  <1>3. \A p \in Pcs : \A S : [f EXCEPT !.pc = p, !.uses = @ \ S] \in Frame
    BY DEF Frame, Pcs
  <1>4. ASSUME NEW p \in Pcs
        PROVE  [f EXCEPT !.k = @ + 1, !.pc = p] \in Frame
    <2>1. [[f EXCEPT !.k = @ + 1] EXCEPT !.pc = p] \in Frame
      BY <1>2 DEF Frame, Pcs
    <2>2. [f EXCEPT !.k = @ + 1, !.pc = p] = [[f EXCEPT !.k = @ + 1] EXCEPT !.pc = p]
      BY DEF Frame
    <2> QED BY <2>1, <2>2
  <1> QED BY <1>1, <1>2, <1>3, <1>4

LEMMA FrameClass ==
  ASSUME NEW sk \in Stacks, NEW u \in Threads, NEW n \in 1..Len(sk[u])
  PROVE  sk[u] \in Seq(Frame) /\ sk[u][n] \in Frame /\ sk[u][n].cls \in Classes
  <1>1. sk[u] \in Seq(Frame) /\ sk[u][n] \in Frame
    BY DEF Stacks
  <1>2. \A f \in Frame : f.cls \in Classes
    BY DEF Frame
  <1> QED BY <1>1, <1>2

LEMMA NewFrames ==
  ASSUME ClassAssumption, NEW c \in Classes, NEW kind \in {"init", "iface"}, NEW p \in Pcs
  PROVE  NewFrame(kind, c, p) \in Frame
  BY DEF ClassAssumption, NewFrame, Frame, Pcs

(* The innermost activation is replaced. *)
LEMMA Replace ==
  ASSUME stack \in Stacks, NEW t \in Threads, stack[t] # <<>>, NEW g \in Frame,
         stack' = [stack EXCEPT ![t][1] = g]
  PROVE  /\ stack' \in Stacks /\ Others(t) /\ stack'[t][1] = g
         /\ Same(stack[t][1], g) => Moved(stack[t], stack'[t])
  BY DEF Stacks, Others, Moved

LEMMA GotoShape ==
  ASSUME stack \in Stacks, NEW t \in Threads, stack[t] # <<>>, NEW p \in Pcs, Goto(t, p)
  PROVE  /\ stack' \in Stacks /\ Others(t)
         /\ stack'[t][1] = [stack[t][1] EXCEPT !.pc = p]
         /\ Same(stack[t][1], [stack[t][1] EXCEPT !.pc = p]) => Moved(stack[t], stack'[t])
  <1>1. stack[t][1] \in Frame
    BY DEF Stacks
  <1>2. [stack[t][1] EXCEPT !.pc = p] \in Frame
    BY <1>1, FrameFields
  <1>3. stack' = [stack EXCEPT ![t][1] = [stack[t][1] EXCEPT !.pc = p]]
    BY DEF Goto, Stacks
  <1> QED BY <1>2, <1>3, Replace

LEMMA PushShape ==
  ASSUME stack \in Stacks, NEW t \in Threads, stack[t] # <<>>, NEW f \in Frame, NEW g \in Frame,
         stack' = [stack EXCEPT ![t] = <<f, g>> \o Tail(@)],
         ~Active(f), Keeps(stack[t][1], g)
  PROVE  /\ stack' \in Stacks /\ Others(t)
         /\ stack'[t][1] = f /\ stack'[t][2] = g
         /\ Pushed(stack[t], stack'[t])
  <1>1. <<f, g>> \in Seq(Frame) /\ Tail(stack[t]) \in Seq(Frame)
    BY DEF Stacks
  <1>2. <<f, g>> \o Tail(stack[t]) \in Seq(Frame)
    BY <1>1
  <1>3. stack'[t] = <<f, g>> \o Tail(stack[t])
    BY DEF Stacks
  <1>4. stack'[t][1] = f /\ stack'[t][2] = g /\ Pushed(stack[t], stack'[t])
    BY <1>1, <1>3 DEF Pushed, Stacks
  <1> QED BY <1>2, <1>4 DEF Stacks, Others

LEMMA PopShape ==
  ASSUME stack \in Stacks, NEW t \in Threads, stack[t] # <<>>,
         stack' = [stack EXCEPT ![t] = Tail(@)]
  PROVE  stack' \in Stacks /\ Others(t) /\ Popped(stack[t], stack'[t])
  BY DEF Stacks, Others, Popped

-------------------------------------------------------------------------------
(* Ownership of the classes *)

(* Every initializer on the stack gs was one, e places further in, on fs.   *)
Came(fs, gs, e) ==
  \A n \in 1..Len(gs) : Active(gs[n]) =>
    /\ n - e \in 1..Len(fs)
    /\ Active(fs[n - e]) /\ fs[n - e].cls = gs[n].cls
    /\ Early(gs[n]) => Early(fs[n - e])

LEMMA Origins ==
  ASSUME NEW fs \in Seq(Frame), NEW gs \in Seq(Frame)
  PROVE  /\ Moved(fs, gs) /\ Keeps(fs[1], gs[1]) => Came(fs, gs, 0)
         /\ Pushed(fs, gs) => Came(fs, gs, 1)
         /\ Popped(fs, gs) => Came(fs, gs, -1)
  <1>1. ASSUME Moved(fs, gs), Keeps(fs[1], gs[1]), NEW n \in 1..Len(gs), Active(gs[n])
        PROVE  Active(fs[n]) /\ fs[n].cls = gs[n].cls /\ (Early(gs[n]) => Early(fs[n]))
    <2>1. CASE n = 1
      BY <1>1, <2>1 DEF Keeps, Same
    <2>2. CASE n # 1
      BY <1>1, <2>2 DEF Moved
    <2> QED BY <2>1, <2>2
  <1>2. ASSUME Pushed(fs, gs), NEW n \in 1..Len(gs), Active(gs[n])
        PROVE  /\ n - 1 \in 1..Len(fs)
               /\ Active(fs[n - 1]) /\ fs[n - 1].cls = gs[n].cls
               /\ Early(gs[n]) => Early(fs[n - 1])
    <2>1. n # 1
      BY <1>2 DEF Pushed
    <2>2. CASE n = 2
      BY <1>2, <2>2 DEF Pushed, Keeps, Same
    <2>3. CASE n # 2
      <3>1. n - 1 \in 2..Len(fs) /\ (n - 1) + 1 = n
        BY <1>2, <2>1, <2>3 DEF Pushed
      <3>2. gs[n] = fs[n - 1]
        BY <1>2, <3>1 DEF Pushed
      <3> QED BY <1>2, <3>1, <3>2
    <2> QED BY <2>2, <2>3
  <1>3. ASSUME Popped(fs, gs), NEW n \in 1..Len(gs)
        PROVE  n + 1 \in 2..Len(fs) /\ gs[n] = fs[n + 1]
    <2>1. n + 1 \in 2..Len(fs) /\ (n + 1) - 1 = n
      BY <1>3 DEF Popped
    <2> QED BY <1>3, <2>1 DEF Popped
  <1>4. Moved(fs, gs) /\ Keeps(fs[1], gs[1]) => Came(fs, gs, 0)
    BY <1>1 DEF Came, Moved
  <1>5. Pushed(fs, gs) => Came(fs, gs, 1)
    BY <1>2 DEF Came
  <1>6. Popped(fs, gs) => Came(fs, gs, -1)
    BY <1>3 DEF Came
  <1> QED BY <1>4, <1>5, <1>6

(* The state of a class c changes, if at all, to a final one, and then the  *)
(* class has no initializer or is spoiled.                                  *)
StateStep(c) ==
  /\ \A d \in Classes \ {c} : state'[d] = state[d]
  /\ \/ state'[c] = state[c]
     \/ /\ state'[c] \in {"ERRONEOUS", "INITIALIZED"}
        /\ \/ c \in spoiled'
           \/ \A u \in Threads : \A n \in 1..Len(stack'[u]) :
                Active(stack'[u][n]) => stack'[u][n].cls # c

LEMMA ActiveOwns ==
  ASSUME ActiveInv, NEW t \in Threads, NEW n \in 1..Len(stack[t]), Active(stack[t][n])
  PROVE  /\ state[stack[t][n].cls] \notin Untouched
         /\ Early(stack[t][n]) => ran[stack[t][n].cls] = 0
         /\ stack[t][n].cls \notin spoiled =>
              state[stack[t][n].cls] = "INITIALIZING" /\ initTid[stack[t][n].cls] = t
  BY DEF ActiveInv

LEMMA OneActive ==
  ASSUME UniqueInv, NEW t \in Threads, NEW u \in Threads,
         NEW m \in 1..Len(stack[t]), NEW n \in 1..Len(stack[u]),
         Active(stack[t][m]), Active(stack[u][n]), stack[t][m].cls = stack[u][n].cls
  PROVE  t = u /\ m = n
  BY DEF UniqueInv

LEMMA Ownership ==
  ASSUME TypeOK, ActiveInv, UniqueInv, FreshInv, stack' \in Stacks,
         NEW t \in Threads, Others(t), NEW e \in {-1, 0, 1}, Came(stack[t], stack'[t], e),
         NEW c \in Classes, StateStep(c),
         initTid' = initTid, ran' = ran, spoiled \subseteq spoiled'
  PROVE  ActiveInv' /\ UniqueInv' /\ FreshInv'
  <1> DEFINE off(u) == IF u = t THEN e ELSE 0
  <1>1. ASSUME NEW u \in Threads, NEW n \in 1..Len(stack'[u]), Active(stack'[u][n])
        PROVE  /\ n - off(u) \in 1..Len(stack[u])
               /\ Active(stack[u][n - off(u)])
               /\ stack[u][n - off(u)].cls = stack'[u][n].cls
               /\ Early(stack'[u][n]) => Early(stack[u][n - off(u)])
    <2>1. CASE u = t
      BY <1>1, <2>1 DEF Came
    <2>2. CASE u # t
      <3>1. stack'[u] = stack[u] /\ n - off(u) = n
        BY <2>2 DEF Others
      <3> QED BY <1>1, <3>1
    <2> QED BY <2>1, <2>2
  <1> HIDE DEF off
  <1>2. \A u \in Threads : off(u) \in {-1, 0, 1}
    BY DEF off
  <1>3. ActiveInv'
    <2>1. SUFFICES ASSUME NEW u \in Threads, NEW n \in 1..Len(stack'[u]), Active(stack'[u][n]),
                          NEW d \in Classes, d = stack'[u][n].cls
                   PROVE  /\ state'[d] \notin Untouched
                          /\ Early(stack'[u][n]) => ran'[d] = 0
                          /\ d \notin spoiled' => state'[d] = "INITIALIZING" /\ initTid'[d] = u
      <3>1. \A u \in Threads : \A n \in 1..Len(stack'[u]) : stack'[u][n].cls \in Classes
        BY FrameClass
      <3> QED BY <3>1, <2>1 DEF ActiveInv
    <2>2. /\ state[d] \notin Untouched
          /\ Early(stack'[u][n]) => ran[d] = 0
          /\ d \notin spoiled => state[d] = "INITIALIZING" /\ initTid[d] = u
      BY <2>1, <1>1 DEF ActiveInv
    <2>3. CASE state'[d] = state[d]
      BY <2>2, <2>3
    <2>4. CASE state'[d] # state[d]
      BY <2>1, <2>2, <2>4 DEF StateStep, Untouched
    <2> QED BY <2>3, <2>4
  <1>4. UniqueInv'
    <2>1. SUFFICES ASSUME NEW u \in Threads, NEW v \in Threads,
                          NEW m \in 1..Len(stack'[u]), NEW n \in 1..Len(stack'[v]),
                          Active(stack'[u][m]), Active(stack'[v][n]),
                          stack'[u][m].cls = stack'[v][n].cls
                   PROVE  u = v /\ m = n
      BY DEF UniqueInv
    <2>2. PICK a \in 1..Len(stack[u]) : /\ a = m - off(u) /\ Active(stack[u][a])
                                        /\ stack[u][a].cls = stack'[u][m].cls
      BY <2>1, <1>1
    <2>3. PICK b \in 1..Len(stack[v]) : /\ b = n - off(v) /\ Active(stack[v][b])
                                        /\ stack[v][b].cls = stack'[v][n].cls
      BY <2>1, <1>1
    <2>4. u = v /\ a = b
      BY <2>1, <2>2, <2>3, OneActive, SMTT(30)
    <2> QED BY <2>2, <2>3, <2>4, <1>2
  <1>5. FreshInv'
    BY DEF FreshInv, StateStep, Untouched
  <1> QED BY <1>3, <1>4, <1>5

(* The steps that move no state of a class. *)
LEMMA QuietOwnership ==
  ASSUME TypeOK, ActiveInv, UniqueInv, FreshInv, stack' \in Stacks,
         NEW t \in Threads, Others(t), NEW e \in {-1, 0, 1}, Came(stack[t], stack'[t], e),
         stack[t] # <<>> \/ stack'[t] # <<>>,
         UNCHANGED <<state, initTid, ran, spoiled>>
  PROVE  ActiveInv' /\ UniqueInv' /\ FreshInv'
  <1>1. PICK f \in Frame : TRUE
    BY DEF TypeOK, Stacks
  <1>2. f.cls \in Classes
    BY DEF Frame
  <1>3. StateStep(f.cls)
    BY <1>2 DEF StateStep
  <1> QED BY <1>2, <1>3, Ownership

-------------------------------------------------------------------------------
(* Lasting facts about the dependencies *)

(* Every initializer from the n-th place of fs on is, from the m-th place   *)
(* on, in gs.                                                               *)
Outlives(fs, n, gs, m) ==
  \A x \in 1..Len(fs) : x >= n /\ Active(fs[x]) =>
    \E y \in 1..Len(gs) : y >= m /\ Active(gs[y]) /\ gs[y].cls = fs[x].cls

(* INITIALIZED is for good. *)
Lasting(st, st2) == \A c \in Classes : st[c] = "INITIALIZED" => st2[c] = "INITIALIZED"

LEMMA Survivors ==
  ASSUME NEW fs \in Seq(Frame), NEW gs \in Seq(Frame)
  PROVE  /\ \A n \in 1..Len(fs) : Outlives(fs, n, fs, n)
         /\ Moved(fs, gs) => \A n \in 1..Len(fs) : Outlives(fs, n, gs, n)
         /\ Pushed(fs, gs) => \A n \in 1..Len(fs) : Outlives(fs, n, gs, n + 1)
         /\ Popped(fs, gs) => \A n \in 2..Len(fs) : Outlives(fs, n, gs, n - 1)
         /\ Popped(fs, gs) /\ ~Active(fs[1]) => Outlives(fs, 1, gs, 1)
  <1>1. \A n \in 1..Len(fs) : Outlives(fs, n, fs, n)
    BY DEF Outlives
  <1>2. ASSUME Moved(fs, gs), NEW x \in 1..Len(fs), Active(fs[x])
        PROVE  x \in 1..Len(gs) /\ Active(gs[x]) /\ gs[x].cls = fs[x].cls
    <2>1. CASE x = 1
      BY <1>2, <2>1 DEF Moved, Same
    <2>2. CASE x # 1
      BY <1>2, <2>2 DEF Moved
    <2> QED BY <2>1, <2>2
  <1>3. ASSUME Pushed(fs, gs), NEW x \in 1..Len(fs), Active(fs[x])
        PROVE  x + 1 \in 1..Len(gs) /\ Active(gs[x + 1]) /\ gs[x + 1].cls = fs[x].cls
    <2>1. CASE x = 1
      BY <1>3, <2>1 DEF Pushed, Keeps, Same
    <2>2. CASE x # 1
      BY <1>3, <2>2 DEF Pushed
    <2> QED BY <2>1, <2>2
  <1>4. ASSUME Popped(fs, gs), NEW x \in 2..Len(fs)
        PROVE  x - 1 \in 1..Len(gs) /\ gs[x - 1] = fs[x]
    BY <1>4 DEF Popped
  <1>5. Moved(fs, gs) => \A n \in 1..Len(fs) : Outlives(fs, n, gs, n)
    BY <1>2 DEF Outlives
  <1>6. ASSUME Pushed(fs, gs), NEW n \in 1..Len(fs)
        PROVE  Outlives(fs, n, gs, n + 1)
    <2>1. \A x \in 1..Len(fs) : x >= n => x + 1 >= n + 1
      OBVIOUS
    <2> QED BY <1>3, <1>6, <2>1 DEF Outlives
  <1>7. ASSUME Popped(fs, gs), NEW n \in 2..Len(fs)
        PROVE  Outlives(fs, n, gs, n - 1)
    <2>1. \A x \in 1..Len(fs) : x >= n => x - 1 >= n - 1 /\ x \in 2..Len(fs)
      OBVIOUS
    <2> QED BY <1>4, <1>7, <2>1 DEF Outlives
  <1>8. ASSUME Popped(fs, gs), ~Active(fs[1])
        PROVE  Outlives(fs, 1, gs, 1)
    <2>1. \A x \in 1..Len(fs) : Active(fs[x]) => x - 1 >= 1 /\ x \in 2..Len(fs)
      BY <1>8
    <2> QED BY <1>4, <1>8, <2>1 DEF Outlives
  <1> QED BY <1>1, <1>5, <1>6, <1>7, <1>8

LEMMA SettledLasts ==
  ASSUME NEW st, NEW st2, Lasting(st, st2),
         NEW fs \in Seq(Frame), NEW gs \in Seq(Frame), NEW n \in Nat, NEW m \in Nat,
         Outlives(fs, n, gs, m)
  PROVE  /\ \A d \in Classes : Settled(st, fs, d, n) => Settled(st2, gs, d, m)
         /\ \A i \in Interfaces : ClassAssumption /\ IfaceSettled(st, fs, i, n) => IfaceSettled(st2, gs, i, m)
  <1>1. \A d \in Classes : Settled(st, fs, d, n) => Settled(st2, gs, d, m)
    BY DEF Settled, Outlives, Lasting
  <1>2. ASSUME ClassAssumption, NEW i \in Interfaces, IfaceSettled(st, fs, i, n)
        PROVE  IfaceSettled(st2, gs, i, m)
    <2>1. PICK S \in SUBSET Interfaces : i \in S /\ Closed(st, fs, S, n)
      BY <1>2 DEF IfaceSettled
    <2>2. \A j \in S : j \in Classes
      BY <1>2, <2>1 DEF ClassAssumption
    <2>3. Closed(st2, gs, S, m)
      BY <1>1, <2>1, <2>2 DEF Closed
    <2> QED BY <2>1, <2>3 DEF IfaceSettled
  <1> QED BY <1>1, <1>2

LEMMA GoodLasts ==
  ASSUME ClassAssumption, NEW st, NEW st2, Lasting(st, st2),
         NEW fs \in Seq(Frame), NEW gs \in Seq(Frame), NEW n \in Nat, NEW m \in Nat,
         Outlives(fs, n, gs, m), NEW f \in Frame, Good(st, fs, f, n)
  PROVE  Good(st2, gs, f, m)
  <1>1. f.cls \in Classes /\ f.kind \in {"init", "iface"}
    BY DEF Frame
  <1>2. \A x \in 1..Len(IfacesOf[f.cls]) : IfacesOf[f.cls][x] \in Interfaces
    BY <1>1 DEF ClassAssumption
  <1>3. Base[f.cls] # NoClass => Base[f.cls] \in Classes
    BY <1>1 DEF ClassAssumption
  <1>4. /\ \A d \in Classes : Settled(st, fs, d, n) => Settled(st2, gs, d, m)
        /\ \A i \in Interfaces : IfaceSettled(st, fs, i, n) => IfaceSettled(st2, gs, i, m)
    BY SettledLasts
  <1>5. Base[f.cls] # NoClass /\ Settled(st, fs, Base[f.cls], n) => Settled(st2, gs, Base[f.cls], m)
    BY <1>3, <1>4
  <1>6. \A x \in 1..Len(IfacesOf[f.cls]) :
          IfaceSettled(st, fs, IfacesOf[f.cls][x], n) => IfaceSettled(st2, gs, IfacesOf[f.cls][x], m)
    BY <1>2, <1>4
  <1> QED BY <1>5, <1>6 DEF Good

(* What the classes and the other threads do in a step of t *)
Around(t) ==
  /\ Others(t) /\ Lasting(state, state')
  /\ \A u \in Threads \ {t} : ret'[u] = ret[u]

(* A stack whose activations are as FrameInv, LinkInv and ReturnInv say *)
Sound(st, fs, r) ==
  /\ \A n \in 1..Len(fs) : Good(st, fs, fs[n], n)
  /\ \A n \in 1..Len(fs) : n > 1 => Linked(fs[n], fs[n - 1])
  /\ r = "true" /\ fs # <<>> => Answer(st, fs, fs[1])

LEMMA AllSound ==
  FrameInv /\ LinkInv /\ ReturnInv /\ ~aborted
    => \A t \in Threads : Sound(state, stack[t], ret[t])
  BY DEF FrameInv, LinkInv, ReturnInv, Sound

LEMMA SoundLasts ==
  ASSUME ClassAssumption, NEW st, NEW st2, Lasting(st, st2), NEW fs \in Seq(Frame), NEW r,
         Sound(st, fs, r)
  PROVE  Sound(st2, fs, r)
  <1>1. ASSUME NEW n \in 1..Len(fs)
        PROVE  Good(st2, fs, fs[n], n)
    <2>1. fs[n] \in Frame /\ Outlives(fs, n, fs, n) /\ Good(st, fs, fs[n], n)
      BY Survivors DEF Sound
    <2> QED BY <2>1, GoodLasts
  <1>2. ASSUME r = "true", fs # <<>>
        PROVE  Answer(st2, fs, fs[1])
    <2>1. /\ fs[1] \in Frame /\ fs[1].cls \in Classes /\ Outlives(fs, 1, fs, 1)
          /\ Answer(st, fs, fs[1]) /\ Good(st, fs, fs[1], 1) /\ 1 \in 1..Len(fs)
      <3>1. 1 \in 1..Len(fs)
        BY <1>2
      <3>2. fs[1] \in Frame /\ Outlives(fs, 1, fs, 1) /\ Good(st, fs, fs[1], 1)
        BY <3>1, Survivors DEF Sound
      <3> QED BY <1>2, <3>1, <3>2 DEF Sound, Frame
    <2>2. /\ \A d \in Classes : Settled(st, fs, d, 1) => Settled(st2, fs, d, 1)
          /\ \A i \in Interfaces : IfaceSettled(st, fs, i, 1) => IfaceSettled(st2, fs, i, 1)
      BY <2>1, SettledLasts
    <2>3. fs[1].pc = "baseRet" => Base[fs[1].cls] \in Classes
      BY <2>1 DEF Good, ClassAssumption
    <2>4. fs[1].pc = "ifaceRet" => IfacesOf[fs[1].cls][fs[1].k] \in Interfaces
      <3>1. fs[1].k \in Nat /\ IfacesOf[fs[1].cls] \in Seq(Interfaces)
        BY <2>1 DEF Frame, ClassAssumption
      <3>2. fs[1].pc = "ifaceRet" => fs[1].k \in 1..Len(IfacesOf[fs[1].cls])
        BY <2>1, <3>1 DEF Good
      <3> QED BY <3>1, <3>2
    <2> QED BY <2>1, <2>2, <2>3, <2>4 DEF Answer
  <1> QED BY <1>1, <1>2 DEF Sound

LEMMA OthersSound ==
  ASSUME ClassAssumption, TypeOK, FrameInv, LinkInv, ReturnInv, ~aborted,
         NEW t \in Threads, Around(t), NEW r, aborted' \/ r = ret'[t], Sound(state', stack'[t], r)
  PROVE  FrameInv' /\ LinkInv' /\ ReturnInv'
  <1>1. ASSUME NEW u \in Threads \ {t}
        PROVE  Sound(state', stack'[u], ret'[u])
    <2>1. Sound(state, stack[u], ret[u])
      BY AllSound
    <2>2. stack[u] \in Seq(Frame) /\ stack'[u] = stack[u] /\ ret'[u] = ret[u] /\ Lasting(state, state')
      BY DEF TypeOK, Around, Others
    <2> QED BY <2>1, <2>2, SoundLasts
  <1>2. FrameInv' /\ LinkInv'
    BY <1>1 DEF FrameInv, LinkInv, Sound
  <1>3. ReturnInv'
    BY <1>1 DEF ReturnInv, Sound
  <1> QED BY <1>2, <1>3

(* The innermost activation goes on and asks for no result. *)
LEMMA MoveSound ==
  ASSUME ClassAssumption, NEW st, NEW st2, Lasting(st, st2), NEW r, NEW r2,
         NEW fs \in Seq(Frame), NEW gs \in Seq(Frame), Sound(st, fs, r), Moved(fs, gs),
         Good(st2, gs, gs[1], 1), gs[1].pc \notin {"baseRet", "ifaceRet", "initRet"}
  PROVE  Sound(st2, gs, r2)
  <1>1. ASSUME NEW n \in 1..Len(gs)
        PROVE  Good(st2, gs, gs[n], n)
    <2>1. CASE n # 1
      <3>1. n \in 1..Len(fs) /\ fs[n] \in Frame /\ gs[n] = fs[n] /\ Good(st, fs, fs[n], n)
        BY <2>1 DEF Moved, Sound
      <3>2. Outlives(fs, n, gs, n) /\ n \in Nat
        BY <3>1, Survivors
      <3> QED BY <3>1, <3>2, GoodLasts
    <2> QED BY <2>1
  <1>2. ASSUME NEW n \in 1..Len(gs), n > 1
        PROVE  Linked(gs[n], gs[n - 1])
    <2>1. n \in 1..Len(fs) /\ n \in 2..Len(fs)
      BY <1>2 DEF Moved
    <2>2. gs[n] = fs[n] /\ Linked(fs[n], fs[n - 1])
      BY <1>2, <2>1 DEF Moved, Sound
    <2>3. gs[n - 1].kind = fs[n - 1].kind /\ gs[n - 1].cls = fs[n - 1].cls
      <3>1. CASE n = 2
        BY <3>1 DEF Moved, Same
      <3>2. CASE n # 2
        <4>1. n - 1 \in 2..Len(fs)
          BY <1>2, <2>1, <3>2
        <4> QED BY <4>1 DEF Moved
      <3> QED BY <3>1, <3>2
    <2> QED BY <2>2, <2>3 DEF Linked
  <1> QED BY <1>1, <1>2 DEF Sound, Answer

(* A new activation is put on the innermost one. *)
LEMMA PushSound ==
  ASSUME ClassAssumption, NEW st, NEW st2, Lasting(st, st2), NEW r, NEW r2,
         NEW fs \in Seq(Frame), NEW gs \in Seq(Frame), Sound(st, fs, r), Pushed(fs, gs),
         Good(st2, gs, gs[1], 1), Good(st2, gs, gs[2], 2), Linked(gs[2], gs[1]),
         gs[1].pc \notin {"baseRet", "ifaceRet", "initRet"}
  PROVE  Sound(st2, gs, r2)
  <1>1. ASSUME NEW n \in 1..Len(gs), n > 2
        PROVE  n - 1 \in 2..Len(fs) /\ gs[n] = fs[n - 1]
    <2>1. n - 1 \in 2..Len(fs) /\ (n - 1) + 1 = n
      BY <1>1 DEF Pushed
    <2> QED BY <2>1 DEF Pushed
  <1>2. ASSUME NEW n \in 1..Len(gs)
        PROVE  Good(st2, gs, gs[n], n)
    <2>1. CASE n > 2
      <3>1. fs[n - 1] \in Frame /\ gs[n] = fs[n - 1] /\ Good(st, fs, fs[n - 1], n - 1)
        BY <1>1, <2>1 DEF Sound
      <3>2. Outlives(fs, n - 1, gs, (n - 1) + 1) /\ (n - 1) + 1 = n
        BY <1>1, <2>1, Survivors
      <3>3. n - 1 \in Nat /\ n \in Nat /\ Outlives(fs, n - 1, gs, n)
        BY <3>2, <2>1
      <3> QED BY <3>1, <3>3, GoodLasts
    <2> QED BY <2>1
  <1>3. ASSUME NEW n \in 1..Len(gs), n > 1
        PROVE  Linked(gs[n], gs[n - 1])
    <2>1. CASE n = 2
      BY <2>1
    <2>2. CASE n = 3
      <3>1. gs[3] = fs[2] /\ Linked(fs[2], fs[1])
        BY <1>1, <2>2 DEF Sound
      <3> QED BY <2>2, <3>1 DEF Pushed, Keeps, Same, Linked
    <2>3. CASE n > 3
      <3>1. gs[n] = fs[n - 1] /\ gs[n - 1] = fs[(n - 1) - 1] /\ n - 1 \in 2..Len(fs)
        BY <1>1, <2>3
      <3>2. Linked(fs[n - 1], fs[(n - 1) - 1])
        BY <3>1 DEF Sound
      <3> QED BY <3>1, <3>2
    <2> QED BY <1>3, <2>1, <2>2, <2>3
  <1> QED BY <1>2, <1>3 DEF Sound, Answer

(* The innermost activation returns; true must be what its caller takes it  *)
(* for.                                                                     *)
LEMMA PopSound ==
  ASSUME ClassAssumption, NEW st, NEW st2, Lasting(st, st2), NEW r, NEW r2,
         NEW fs \in Seq(Frame), NEW gs \in Seq(Frame), Sound(st, fs, r), Popped(fs, gs),
         r2 = "true" /\ fs[1].kind = "init" => Settled(st2, gs, fs[1].cls, 1),
         r2 = "true" /\ fs[1].kind = "iface" => IfaceSettled(st2, gs, fs[1].cls, 1)
  PROVE  Sound(st2, gs, r2)
  <1>1. ASSUME NEW n \in 1..Len(gs)
        PROVE  n + 1 \in 2..Len(fs) /\ gs[n] = fs[n + 1]
    <2>1. n + 1 \in 2..Len(fs) /\ (n + 1) - 1 = n
      BY DEF Popped
    <2> QED BY <2>1 DEF Popped
  <1>2. ASSUME NEW n \in 1..Len(gs)
        PROVE  Good(st2, gs, gs[n], n)
    <2>1. fs[n + 1] \in Frame /\ gs[n] = fs[n + 1] /\ Good(st, fs, fs[n + 1], n + 1)
      BY <1>1 DEF Sound
    <2>2. Outlives(fs, n + 1, gs, (n + 1) - 1) /\ (n + 1) - 1 = n
      BY <1>1, Survivors
    <2>3. n + 1 \in Nat /\ n \in Nat /\ Outlives(fs, n + 1, gs, n)
      BY <2>2
    <2> QED BY <2>1, <2>3, GoodLasts
  <1>3. ASSUME NEW n \in 1..Len(gs), n > 1
        PROVE  Linked(gs[n], gs[n - 1])
    <2>1. PICK m \in 1..Len(gs) : m + 1 = n /\ m = n - 1
      BY <1>3
    <2>2. gs[m] = fs[m + 1] /\ gs[n] = fs[n + 1] /\ n + 1 \in 2..Len(fs)
      BY <1>1, <2>1
    <2>3. n + 1 \in 1..Len(fs) /\ n + 1 > 1 /\ (n + 1) - 1 = n
      BY <2>2
    <2>4. Linked(fs[n + 1], fs[(n + 1) - 1])
      BY <2>3 DEF Sound
    <2> QED BY <2>1, <2>2, <2>3, <2>4
  <1>4. ASSUME r2 = "true", gs # <<>>
        PROVE  Answer(st2, gs, gs[1])
    <2>1. gs[1] = fs[2] /\ Linked(fs[2], fs[1])
      BY <1>1, <1>4 DEF Sound
    <2>2. 2 \in 1..Len(fs) /\ Good(st, fs, fs[2], 2)
      BY <1>1, <1>4 DEF Sound
    <2> QED BY <1>4, <2>1, <2>2 DEF Linked, Answer
  <1> QED BY <1>2, <1>3, <1>4 DEF Sound

-------------------------------------------------------------------------------
(* The steps on a stack, all parts of the invariant about stacks together *)

StackInv ==
  ActiveInv /\ UniqueInv /\ FreshInv /\ OwnerInv /\ FrameInv /\ LinkInv /\ ReturnInv

(* The thread a class names stays at it, unless it leaves its innermost     *)
(* activation and the class with it.                                        *)
LEMMA OwnerKept ==
  ASSUME TypeOK, OwnerInv, stack' \in Stacks, NEW t \in Threads, Others(t),
         NEW n \in {1, 2}, NEW m \in {1, 2}, Outlives(stack[t], n, stack'[t], m),
         n = 2 => state'[stack[t][1].cls] # "INITIALIZING",
         \A c \in Classes : state'[c] = "INITIALIZING" => state[c] = "INITIALIZING",
         initTid' = initTid
  PROVE  OwnerInv'
  <1>1. SUFFICES ASSUME NEW c \in Classes, NEW u \in Threads,
                        state'[c] = "INITIALIZING", initTid[c] = u
                 PROVE  \E y \in 1..Len(stack'[u]) : Active(stack'[u][y]) /\ stack'[u][y].cls = c
    BY DEF OwnerInv
  <1>2. PICK x \in 1..Len(stack[u]) : Active(stack[u][x]) /\ stack[u][x].cls = c
    BY <1>1 DEF OwnerInv
  <1>3. CASE u # t
    BY <1>2, <1>3 DEF Others
  <1>4. CASE u = t
    <2>1. x >= n
      BY <1>1, <1>2, <1>4
    <2> QED BY <1>2, <1>4, <2>1 DEF Outlives
  <1> QED BY <1>3, <1>4

(* The innermost activation as it stands in the new stack *)
LEMMA TopGood ==
  ASSUME ClassAssumption, TypeOK, FrameInv, stack' \in Stacks, NEW t \in Threads, stack[t] # <<>>,
         Lasting(state, state')
  PROVE  /\ Moved(stack[t], stack'[t]) => Good(state', stack'[t], stack[t][1], 1)
         /\ Pushed(stack[t], stack'[t]) => Good(state', stack'[t], stack[t][1], 2)
  <1>1. /\ stack[t] \in Seq(Frame) /\ stack'[t] \in Seq(Frame)
        /\ 1 \in 1..Len(stack[t]) /\ stack[t][1] \in Frame
    BY DEF TypeOK, Stacks
  <1>2. Good(state, stack[t], stack[t][1], 1)
    BY <1>1 DEF FrameInv
  <1>3. ASSUME Moved(stack[t], stack'[t])
        PROVE  Good(state', stack'[t], stack[t][1], 1)
    <2>1. Outlives(stack[t], 1, stack'[t], 1)
      BY <1>1, <1>3, Survivors
    <2> QED BY <1>1, <1>2, <2>1, GoodLasts
  <1>4. ASSUME Pushed(stack[t], stack'[t])
        PROVE  Good(state', stack'[t], stack[t][1], 2)
    <2>1. Outlives(stack[t], 1, stack'[t], 1 + 1)
      BY <1>1, <1>4, Survivors
    <2>2. Outlives(stack[t], 1, stack'[t], 2)
      BY <2>1
    <2> QED BY <1>1, <1>2, <2>2, GoodLasts
  <1> QED BY <1>3, <1>4

Quiet(t) ==
  /\ stack' \in Stacks /\ Others(t)
  /\ \A u \in Threads \ {t} : ret'[u] = ret[u]
  /\ UNCHANGED <<state, initTid, ran, spoiled>>

LEMMA QuietMove ==
  ASSUME ClassAssumption, Inv, ~aborted, NEW t \in Threads, Quiet(t),
         Moved(stack[t], stack'[t]), Keeps(stack[t][1], stack'[t][1]),
         Good(state, stack'[t], stack[t][1], 1) => Good(state, stack'[t], stack'[t][1], 1),
         stack'[t][1].pc \notin {"baseRet", "ifaceRet", "initRet"}
  PROVE  StackInv'
  <1>1. stack[t] \in Seq(Frame) /\ stack'[t] \in Seq(Frame) /\ stack[t] # <<>> /\ 1 \in 1..Len(stack[t])
    BY DEF Inv, TypeOK, Quiet, Stacks, Moved
  <1>2. Lasting(state, state') /\ state' = state
    BY DEF Lasting, Quiet
  <1>3. Good(state', stack'[t], stack'[t][1], 1)
    BY <1>1, <1>2, TopGood DEF Inv, Quiet
  <1>4. Sound(state, stack[t], ret[t])
    BY AllSound DEF Inv
  <1>5. Sound(state', stack'[t], ret'[t])
    BY <1>1, <1>2, <1>3, <1>4, MoveSound
  <1>6. FrameInv' /\ LinkInv' /\ ReturnInv'
    BY <1>2, <1>5, OthersSound DEF Inv, Around, Quiet
  <1>7. Outlives(stack[t], 1, stack'[t], 1)
    BY <1>1, Survivors
  <1>8. OwnerInv'
    BY <1>7, OwnerKept DEF Inv, Quiet
  <1>9. Came(stack[t], stack'[t], 0)
    BY <1>1, Origins
  <1>10. ActiveInv' /\ UniqueInv' /\ FreshInv'
    BY <1>1, <1>9, QuietOwnership DEF Inv, Quiet
  <1> QED BY <1>6, <1>8, <1>10 DEF StackInv

LEMMA QuietPush ==
  ASSUME ClassAssumption, Inv, ~aborted, NEW t \in Threads, Quiet(t),
         Pushed(stack[t], stack'[t]),
         Good(state, stack'[t], stack[t][1], 2) => Good(state, stack'[t], stack'[t][2], 2),
         Good(state, stack'[t], stack'[t][1], 1), Linked(stack'[t][2], stack'[t][1]),
         stack'[t][1].pc \notin {"baseRet", "ifaceRet", "initRet"}
  PROVE  StackInv'
  <1>1. stack[t] \in Seq(Frame) /\ stack'[t] \in Seq(Frame) /\ stack[t] # <<>> /\ 1 \in 1..Len(stack[t])
    BY DEF Inv, TypeOK, Quiet, Stacks, Pushed
  <1>2. Lasting(state, state') /\ state' = state
    BY DEF Lasting, Quiet
  <1>3. Good(state', stack'[t], stack'[t][2], 2)
    BY <1>1, <1>2, TopGood DEF Inv, Quiet
  <1>4. Sound(state, stack[t], ret[t])
    BY AllSound DEF Inv
  <1>5. Sound(state', stack'[t], ret'[t])
    BY <1>1, <1>2, <1>3, <1>4, PushSound
  <1>6. FrameInv' /\ LinkInv' /\ ReturnInv'
    BY <1>2, <1>5, OthersSound DEF Inv, Around, Quiet
  <1>7. Outlives(stack[t], 1, stack'[t], 2)
    <2>1. Outlives(stack[t], 1, stack'[t], 1 + 1)
      BY <1>1, Survivors
    <2> QED BY <2>1
  <1>8. OwnerInv'
    BY <1>7, OwnerKept DEF Inv, Quiet
  <1>9. Came(stack[t], stack'[t], 1)
    BY <1>1, Origins
  <1>10. ActiveInv' /\ UniqueInv' /\ FreshInv'
    BY <1>1, <1>9, QuietOwnership DEF Inv, Quiet
  <1> QED BY <1>6, <1>8, <1>10 DEF StackInv

(* The innermost activation returns; the state of its class may change.     *)
LEMMA PopStep ==
  ASSUME ClassAssumption, Inv, ~aborted, NEW t \in Threads,
         stack' \in Stacks, Others(t), \A u \in Threads \ {t} : ret'[u] = ret[u],
         Popped(stack[t], stack'[t]), StateStep(stack[t][1].cls), Lasting(state, state'),
         initTid' = initTid, ran' = ran, spoiled \subseteq spoiled',
         Active(stack[t][1]) => state'[stack[t][1].cls] # "INITIALIZING",
         ~aborted' /\ ret'[t] = "true" /\ stack[t][1].kind = "init"
           => Settled(state', stack'[t], stack[t][1].cls, 1),
         ~aborted' /\ ret'[t] = "true" /\ stack[t][1].kind = "iface"
           => IfaceSettled(state', stack'[t], stack[t][1].cls, 1)
  PROVE  StackInv'
  <1>1. stack[t] \in Seq(Frame) /\ stack'[t] \in Seq(Frame) /\ stack[t] # <<>> /\ 1 \in 1..Len(stack[t])
    BY DEF Inv, TypeOK, Stacks, Popped
  <1>2. stack[t][1].cls \in Classes
    BY <1>1, FrameClass DEF Inv, TypeOK, Stacks
  <1>4. Sound(state, stack[t], ret[t])
    BY AllSound DEF Inv
  <1> DEFINE r == IF aborted' THEN "none" ELSE ret'[t]
  <1>5. Sound(state', stack'[t], r)
    <2>1. /\ r = "true" /\ stack[t][1].kind = "init" => Settled(state', stack'[t], stack[t][1].cls, 1)
          /\ r = "true" /\ stack[t][1].kind = "iface"
               => IfaceSettled(state', stack'[t], stack[t][1].cls, 1)
      OBVIOUS
    <2> HIDE DEF r
    <2> QED BY <1>1, <1>4, <2>1, PopSound
  <1>6. FrameInv' /\ LinkInv' /\ ReturnInv'
    <2>1. aborted' \/ r = ret'[t]
      OBVIOUS
    <2> HIDE DEF r
    <2> QED BY <1>5, <2>1, OthersSound DEF Inv, Around
  <1>7. \A c \in Classes : state'[c] = "INITIALIZING" => state[c] = "INITIALIZING"
    BY <1>2 DEF StateStep
  <1>8. OwnerInv'
    <2>1. CASE Active(stack[t][1])
      <3>1. \A x \in 1..Len(stack[t]) : x >= 2 => x \in 2..Len(stack[t])
        BY <1>1
      <3>2. Outlives(stack[t], 2, stack'[t], 1)
        <4>1. CASE Len(stack[t]) >= 2
          <5>1. Outlives(stack[t], 2, stack'[t], 2 - 1)
            BY <1>1, <4>1, Survivors
          <5> QED BY <5>1
        <4>2. CASE ~(Len(stack[t]) >= 2)
          BY <1>1, <4>2 DEF Outlives
        <4> QED BY <4>1, <4>2
      <3> QED BY <1>7, <2>1, <3>2, OwnerKept DEF Inv
    <2>2. CASE ~Active(stack[t][1])
      <3>1. Outlives(stack[t], 1, stack'[t], 1)
        BY <1>1, <2>2, Survivors
      <3> QED BY <1>7, <3>1, OwnerKept DEF Inv
    <2> QED BY <2>1, <2>2
  <1>9. Came(stack[t], stack'[t], -1)
    BY <1>1, Origins
  <1>10. ActiveInv' /\ UniqueInv' /\ FreshInv'
    BY <1>2, <1>9, Ownership DEF Inv
  <1> QED BY <1>6, <1>8, <1>10 DEF StackInv

(* ... or does not. *)
LEMMA QuietPop ==
  ASSUME ClassAssumption, Inv, ~aborted, NEW t \in Threads, Quiet(t),
         Popped(stack[t], stack'[t]), ~Active(stack[t][1]),
         ret'[t] = "true" /\ stack[t][1].kind = "init"
           => Settled(state, stack'[t], stack[t][1].cls, 1),
         ret'[t] = "true" /\ stack[t][1].kind = "iface"
           => IfaceSettled(state, stack'[t], stack[t][1].cls, 1)
  PROVE  StackInv'
  <1>1. StateStep(stack[t][1].cls) /\ Lasting(state, state')
    BY DEF Quiet, StateStep, Lasting
  <1> QED BY <1>1, PopStep DEF Quiet

-------------------------------------------------------------------------------
(* The operators of the model *)

LEMMA Innermost ==
  ASSUME TypeOK, NEW t \in Threads, stack[t] # <<>>
  PROVE  /\ Top(t) = stack[t][1] /\ stack[t] \in Seq(Frame) /\ stack \in Stacks
         /\ Len(stack[t]) >= 1 /\ 1 \in 1..Len(stack[t])
         /\ stack[t][1] \in Frame
         /\ stack[t][1].cls \in Classes /\ stack[t][1].kind \in {"init", "iface"}
         /\ stack[t][1].pc \in Pcs /\ stack[t][1].k \in Nat
  <1>1. /\ stack[t] \in Seq(Frame) /\ stack \in Stacks /\ Len(stack[t]) >= 1
        /\ 1 \in 1..Len(stack[t]) /\ stack[t][1] \in Frame
    BY DEF TypeOK, Stacks
  <1>2. Top(t) = stack[t][1]
    BY <1>1 DEF Top
  <1>3. \A f \in Frame : f.cls \in Classes /\ f.kind \in {"init", "iface"} /\ f.pc \in Pcs /\ f.k \in Nat
    BY DEF Frame, Pcs
  <1> QED BY <1>1, <1>2, <1>3

LEMMA ReturnShape ==
  ASSUME TypeOK, NEW t \in Threads, stack[t] # <<>>, NEW r \in Outcome, Return(t, r)
  PROVE  /\ stack' \in Stacks /\ Others(t) /\ Popped(stack[t], stack'[t])
         /\ \A u \in Threads \ {t} : ret'[u] = ret[u]
         /\ ret'[t] = r /\ ret' \in [Threads -> Outcome]
  <1>1. stack' \in Stacks /\ Others(t) /\ Popped(stack[t], stack'[t])
    BY Innermost, PopShape DEF Return
  <1>2. /\ \A u \in Threads \ {t} : ret'[u] = ret[u]
        /\ ret'[t] = r /\ ret' \in [Threads -> Outcome]
    BY DEF Return, TypeOK
  <1> QED BY <1>1, <1>2

LEMMA StateOrder ==
  /\ States = {"INITIAL", "LOADED", "VERIFIED", "INITIALIZING", "ERRONEOUS", "INITIALIZED"}
  /\ StateNo["INITIAL"] = 0 /\ StateNo["LOADED"] = 1 /\ StateNo["VERIFIED"] = 2
  /\ StateNo["INITIALIZING"] = 3 /\ StateNo["ERRONEOUS"] = 4 /\ StateNo["INITIALIZED"] = 5
  BY DEF States, StateNo

LEMMA Ordered ==
  ASSUME TypeOK, NEW c \in Classes
  PROVE  /\ state[c] \in {"INITIAL", "LOADED", "VERIFIED", "INITIALIZING", "ERRONEOUS", "INITIALIZED"}
         /\ StateNo[state[c]] < StateNo["INITIALIZING"] => state[c] \in Untouched
         /\ StateNo[state[c]] < StateNo["VERIFIED"] => state[c] \in Untouched
  <1>1. state[c] \in {"INITIAL", "LOADED", "VERIFIED", "INITIALIZING", "ERRONEOUS", "INITIALIZED"}
    BY StateOrder DEF TypeOK
  <1> QED BY <1>1, StateOrder DEF Untouched

(* SetState to a final state changes nothing but a state before it.         *)
LEMMA SetFinal ==
  ASSUME TypeOK, ~aborted, NEW c \in Classes, NEW s \in {"ERRONEOUS", "INITIALIZED"}, SetState(c, s)
  PROVE  /\ state' \in [Classes -> States] /\ aborted' \in BOOLEAN
         /\ Lasting(state, state')
         /\ \A d \in Classes \ {c} : state'[d] = state[d]
         /\ state'[c] = state[c] \/ state'[c] = s
         /\ state'[c] # "INITIALIZING"
         /\ state[c] \in Untouched \cup {"INITIALIZING"} => ~aborted'
         /\ ~aborted' => state'[c] = s
  <1>1. CASE state[c] = "ERRONEOUS" \/ StateNo[s] <= StateNo[state[c]]
    <2>1. aborted' /\ state' = state
      BY <1>1 DEF SetState
    <2>2. state[c] \notin Untouched \cup {"INITIALIZING"}
      BY <1>1, Ordered, StateOrder DEF Untouched
    <2> QED BY <2>1, <2>2 DEF TypeOK, Lasting
  <1>2. CASE ~(state[c] = "ERRONEOUS" \/ StateNo[s] <= StateNo[state[c]])
    <2>1. state' = [state EXCEPT ![c] = s] /\ aborted' = aborted
      BY <1>2 DEF SetState
    <2>2. state[c] # "INITIALIZED"
      BY <1>2, StateOrder
    <2>3. state' \in [Classes -> States]
      BY <2>1, StateOrder DEF TypeOK
    <2>4. Lasting(state, state') /\ state'[c] = s /\ \A d \in Classes \ {c} : state'[d] = state[d]
      BY <2>1, <2>2 DEF TypeOK, Lasting
    <2>5. aborted' \in BOOLEAN /\ ~aborted'
      BY <2>1 DEF TypeOK
    <2> QED BY <2>3, <2>4, <2>5
  <1> QED BY <1>1, <1>2

(* What is left to show of a step that changes no class *)
LEMMA QuietInv ==
  ASSUME Inv, stack' \in Stacks, StackInv', FailureThrows',
         waiting' \in [Classes -> SUBSET Threads], ret' \in [Threads -> Outcome],
         pending' \in [Threads -> BOOLEAN], calls' \in [Threads -> 0..MaxCalls],
         UNCHANGED <<state, initTid, aborted, ran, spoiled>>
  PROVE  Inv'
  <1>1. TypeOK'
    BY DEF Inv, TypeOK, Stacks
  <1>2. CctorRunsOnce' /\ AbortsOnlyAfterSpoiling'
    BY DEF Inv, CctorRunsOnce, AbortsOnlyAfterSpoiling
  <1> QED BY <1>1, <1>2 DEF Inv, StackInv

-------------------------------------------------------------------------------
(* The steps, one by one: first those that only move the activation on *)

(* A Goto that keeps the innermost activation what it is *)
LEMMA QuietGoto ==
  ASSUME ClassAssumption, Inv, ~aborted, NEW t \in Threads, stack[t] # <<>>,
         NEW p \in Pcs \ {"baseRet", "ifaceRet", "initRet"}, Goto(t, p),
         \A u \in Threads \ {t} : ret'[u] = ret[u],
         UNCHANGED <<state, initTid, ran, spoiled>>,
         Keeps(stack[t][1], [stack[t][1] EXCEPT !.pc = p]),
         Good(state, stack'[t], stack[t][1], 1)
           => Good(state, stack'[t], [stack[t][1] EXCEPT !.pc = p], 1)
  PROVE  stack' \in Stacks /\ StackInv'
  <1>1. stack \in Stacks
    BY DEF Inv, TypeOK, Stacks
  <1>2. /\ stack' \in Stacks /\ Others(t) /\ stack'[t][1] = [stack[t][1] EXCEPT !.pc = p]
        /\ Moved(stack[t], stack'[t])
    BY <1>1, GotoShape DEF Keeps
  <1>3. stack'[t][1].pc = p
    BY <1>2, Innermost DEF Inv, Frame
  <1>4. StackInv'
    BY <1>2, <1>3, QuietMove DEF Quiet
  <1> QED BY <1>2, <1>4

LEMMA PcFields ==
  ASSUME NEW f \in Frame, NEW p \in Pcs
  PROVE  /\ [f EXCEPT !.pc = p].pc = p /\ [f EXCEPT !.pc = p].kind = f.kind
         /\ [f EXCEPT !.pc = p].cls = f.cls /\ [f EXCEPT !.pc = p].k = f.k
  BY DEF Frame

LEMMA WaitingSteps ==
  ASSUME ClassAssumption, Inv, ~aborted, NEW t \in Threads,
         Wake(t) \/ WaitForInitializer(t) \/ (Interrupt(t) /\ ~aborted)
  PROVE  Inv'
  <1> USE DEF Inv
  <1>1. stack[t] # <<>> /\ stack[t][1].kind = "init" /\ stack[t][1].pc \in {"wait", "lock"}
    BY Innermost DEF Wake, WaitForInitializer, Interrupt, At
  <1>2. stack[t][1] \in Frame /\ stack[t][1].cls \in Classes /\ Top(t) = stack[t][1]
    BY <1>1, Innermost
  <1>3. ASSUME NEW p \in {"wait", "woken"}, Goto(t, p),
               UNCHANGED <<state, initTid, ret, ran, spoiled>>
        PROVE  stack' \in Stacks /\ StackInv'
    <2>1. Keeps(stack[t][1], [stack[t][1] EXCEPT !.pc = p])
      BY <1>1, <1>2, <1>3, PcFields DEF Keeps, Same, Active, Early, Pcs
    <2>2. Good(state, stack'[t], stack[t][1], 1)
            => Good(state, stack'[t], [stack[t][1] EXCEPT !.pc = p], 1)
      BY <1>1, <1>2, <1>3, PcFields DEF Good, Pcs
    <2> QED BY <1>1, <1>3, <2>1, <2>2, QuietGoto DEF Pcs
  <1>4. CASE Wake(t)
    <2>1. stack' \in Stacks /\ StackInv'
      BY <1>3, <1>4 DEF Wake
    <2> QED BY <1>4, <2>1, QuietInv DEF Wake, FailureThrows, TypeOK
  <1>5. CASE WaitForInitializer(t)
    <2>1. stack' \in Stacks /\ StackInv'
      BY <1>3, <1>5 DEF WaitForInitializer, Wait
    <2>2. waiting' \in [Classes -> SUBSET Threads]
      BY <1>2, <1>5 DEF WaitForInitializer, Wait, TypeOK
    <2> QED BY <1>5, <2>1, <2>2, QuietInv DEF WaitForInitializer, FailureThrows, TypeOK
  <1>6. CASE Interrupt(t)
    <2>1. stack' \in Stacks
      BY <1>6 DEF Interrupt, TypeOK, Stacks
    <2>2. StackInv'
      <3>1. UNCHANGED <<state, initTid, stack, ret, aborted, ran, spoiled>>
        BY <1>6 DEF Interrupt
      <3>2. ActiveInv' /\ UniqueInv' /\ FreshInv'
        BY <3>1 DEF ActiveInv, UniqueInv, FreshInv
      <3>3. OwnerInv' /\ FrameInv' /\ LinkInv' /\ ReturnInv'
        BY <3>1 DEF OwnerInv, FrameInv, LinkInv, ReturnInv
      <3> QED BY <3>2, <3>3 DEF StackInv
    <2>3. waiting' \in [Classes -> SUBSET Threads]
      BY <1>2, <1>6 DEF Interrupt, TypeOK
    <2> QED BY <1>6, <2>1, <2>2, <2>3, QuietInv DEF Interrupt, FailureThrows, TypeOK
  <1> QED BY <1>4, <1>5, <1>6

(* A return from an activation that does not own its class: what is settled *)
(* for it is settled for its caller.                                        *)
LEMMA QuietReturn ==
  ASSUME ClassAssumption, Inv, ~aborted, NEW t \in Threads, stack[t] # <<>>, ~Active(stack[t][1]),
         NEW r \in Outcome, Return(t, r),
         UNCHANGED <<state, initTid, ran, spoiled>>,
         r = "true" /\ stack[t][1].kind = "init" => Settled(state, stack[t], stack[t][1].cls, 1),
         r = "true" /\ stack[t][1].kind = "iface"
           => stack[t][1].cls \in Interfaces /\ IfaceSettled(state, stack[t], stack[t][1].cls, 1)
  PROVE  /\ stack' \in Stacks /\ StackInv'
         /\ \A u \in Threads \ {t} : ret'[u] = ret[u]
         /\ ret'[t] = r /\ ret' \in [Threads -> Outcome]
  <1>1. /\ stack' \in Stacks /\ Others(t) /\ Popped(stack[t], stack'[t])
        /\ \A u \in Threads \ {t} : ret'[u] = ret[u]
        /\ ret'[t] = r /\ ret' \in [Threads -> Outcome]
    BY ReturnShape DEF Inv
  <1>2. stack[t] \in Seq(Frame) /\ stack'[t] \in Seq(Frame) /\ stack[t][1].cls \in Classes
    BY <1>1, Innermost DEF Inv, Stacks
  <1>3. Outlives(stack[t], 1, stack'[t], 1) /\ Lasting(state, state)
    BY <1>1, <1>2, Survivors DEF Lasting
  <1>4. /\ r = "true" /\ stack[t][1].kind = "init"
             => Settled(state, stack'[t], stack[t][1].cls, 1)
        /\ r = "true" /\ stack[t][1].kind = "iface"
             => IfaceSettled(state, stack'[t], stack[t][1].cls, 1)
    <2>1. /\ \A d \in Classes : Settled(state, stack[t], d, 1) => Settled(state, stack'[t], d, 1)
          /\ \A i \in Interfaces :
               IfaceSettled(state, stack[t], i, 1) => IfaceSettled(state, stack'[t], i, 1)
      BY <1>2, <1>3, SettledLasts
    <2> QED BY <1>2, <2>1
  <1>5. StackInv'
    BY <1>1, <1>4, QuietPop DEF Quiet
  <1> QED BY <1>1, <1>5

LEMMA CheckStep ==
  ASSUME ClassAssumption, Inv, ~aborted, NEW t \in Threads, CheckInitialized(t)
  PROVE  Inv'
  <1> USE DEF Inv
  <1>1. /\ stack[t] # <<>> /\ stack[t][1].kind = "init" /\ stack[t][1].pc = "check"
        /\ stack[t][1] \in Frame /\ stack[t][1].cls \in Classes /\ Top(t) = stack[t][1]
    BY Innermost DEF CheckInitialized, At
  <1>2. CASE state[stack[t][1].cls] = "INITIALIZED"
    <2>1. Return(t, "true") /\ "true" \in Outcome
      BY <1>1, <1>2 DEF CheckInitialized, Outcome
    <2>2. ~Active(stack[t][1]) /\ Settled(state, stack[t], stack[t][1].cls, 1)
      BY <1>1, <1>2 DEF Active, Settled
    <2>3. UNCHANGED <<state, initTid, waiting, pending, calls, aborted, ran, spoiled>>
      BY DEF CheckInitialized
    <2>4. /\ stack' \in Stacks /\ StackInv'
          /\ \A u \in Threads \ {t} : ret'[u] = ret[u]
          /\ ret'[t] = "true" /\ ret' \in [Threads -> Outcome]
      BY <1>1, <2>1, <2>2, <2>3, QuietReturn
    <2> QED BY <2>3, <2>4, QuietInv DEF FailureThrows, TypeOK
  <1>3. CASE state[stack[t][1].cls] # "INITIALIZED"
    <2>1. /\ Goto(t, "lock")
          /\ UNCHANGED <<state, initTid, waiting, ret, pending, calls, aborted, ran, spoiled>>
      BY <1>1, <1>3 DEF CheckInitialized
    <2>2. Keeps(stack[t][1], [stack[t][1] EXCEPT !.pc = "lock"])
      BY <1>1, PcFields DEF Keeps, Same, Active, Early, Pcs
    <2>3. Good(state, stack'[t], stack[t][1], 1)
            => Good(state, stack'[t], [stack[t][1] EXCEPT !.pc = "lock"], 1)
      BY <1>1, PcFields DEF Good, Pcs
    <2>4. stack' \in Stacks /\ StackInv'
      BY <1>1, <2>1, <2>2, <2>3, QuietGoto DEF Pcs
    <2> QED BY <2>1, <2>4, QuietInv DEF FailureThrows, TypeOK
  <1> QED BY <1>2, <1>3

LEMMA FoundDoneStep ==
  ASSUME ClassAssumption, Inv, ~aborted, NEW t \in Threads, FoundDone(t)
  PROVE  Inv'
  <1> USE DEF Inv
  <1>1. /\ stack[t] # <<>> /\ stack[t][1].kind = "init" /\ stack[t][1].pc = "lock"
        /\ stack[t][1] \in Frame /\ stack[t][1].cls \in Classes /\ Top(t) = stack[t][1]
        /\ stack[t] \in Seq(Frame)
    BY Innermost DEF FoundDone, At
  <1>2. UNCHANGED <<state, initTid, waiting, calls, aborted, ran, spoiled>>
    BY DEF FoundDone
  <1>3. ~Active(stack[t][1])
    BY <1>1 DEF Active
  <1>4. CASE Return(t, "true") /\ UNCHANGED pending /\ Settled(state, stack[t], stack[t][1].cls, 1)
    <2>1. /\ stack' \in Stacks /\ StackInv'
          /\ \A u \in Threads \ {t} : ret'[u] = ret[u]
          /\ ret'[t] = "true" /\ ret' \in [Threads -> Outcome]
      BY <1>1, <1>2, <1>3, <1>4, QuietReturn DEF Outcome
    <2> QED BY <1>2, <1>4, <2>1, QuietInv DEF FailureThrows, TypeOK
  <1>5. CASE Return(t, "false") /\ Throw(t)
    <2>1. /\ stack' \in Stacks /\ StackInv'
          /\ \A u \in Threads \ {t} : ret'[u] = ret[u]
          /\ ret'[t] = "false" /\ ret' \in [Threads -> Outcome]
      BY <1>1, <1>2, <1>3, <1>5, QuietReturn DEF Outcome
    <2>2. pending' \in [Threads -> BOOLEAN] /\ pending'[t] /\ \A u \in Threads : pending[u] => pending'[u]
      BY <1>5 DEF Throw, TypeOK
    <2>3. FailureThrows'
      BY <2>1, <2>2 DEF FailureThrows
    <2> QED BY <1>2, <2>1, <2>2, <2>3, QuietInv DEF TypeOK
  <1>6. ASSUME state[stack[t][1].cls] = "INITIALIZED" \/
               (state[stack[t][1].cls] = "INITIALIZING" /\ initTid[stack[t][1].cls] = t)
        PROVE  Settled(state, stack[t], stack[t][1].cls, 1)
    <2>1. CASE state[stack[t][1].cls] = "INITIALIZED"
      BY <2>1 DEF Settled
    <2>2. CASE state[stack[t][1].cls] = "INITIALIZING" /\ initTid[stack[t][1].cls] = t
      <3>1. PICK n \in 1..Len(stack[t]) : Active(stack[t][n]) /\ stack[t][n].cls = stack[t][1].cls
        BY <1>1, <2>2 DEF OwnerInv
      <3> QED BY <1>1, <3>1 DEF Settled
    <2> QED BY <1>6, <2>1, <2>2
  <1> QED BY <1>1, <1>4, <1>5, <1>6 DEF FoundDone

LEMMA InterfaceInitializedStep ==
  ASSUME ClassAssumption, Inv, ~aborted, NEW t \in Threads, InterfaceInitialized(t)
  PROVE  Inv'
  <1> USE DEF Inv
  <1>1. /\ stack[t] # <<>> /\ stack[t][1].kind = "iface" /\ stack[t][1].pc = "initRet"
        /\ stack[t][1].cls \in Classes /\ 1 \in 1..Len(stack[t])
    BY Innermost DEF InterfaceInitialized, At
  <1>2. UNCHANGED <<state, initTid, waiting, pending, calls, aborted, ran, spoiled>>
        /\ Return(t, ret[t]) /\ ret[t] \in Outcome
    BY DEF InterfaceInitialized, TypeOK
  <1>3. stack[t][1].cls \in Interfaces
    BY <1>1 DEF FrameInv, Good
  <1>4. ASSUME ret[t] = "true"
        PROVE  IfaceSettled(state, stack[t], stack[t][1].cls, 1)
    <2>1. Settled(state, stack[t], stack[t][1].cls, 1)
      BY <1>1, <1>4 DEF ReturnInv, Answer
    <2>2. Closed(state, stack[t], {stack[t][1].cls}, 1)
      BY <2>1 DEF Closed
    <2> QED BY <1>3, <2>2 DEF IfaceSettled
  <1>5. ~Active(stack[t][1])
    BY <1>1 DEF Active
  <1>6. /\ stack' \in Stacks /\ StackInv'
        /\ \A u \in Threads \ {t} : ret'[u] = ret[u]
        /\ ret'[t] = ret[t] /\ ret' \in [Threads -> Outcome]
    BY <1>1, <1>2, <1>3, <1>4, <1>5, QuietReturn
  <1>7. FailureThrows'
    BY <1>2, <1>6 DEF FailureThrows
  <1> QED BY <1>2, <1>6, <1>7, QuietInv DEF TypeOK

-------------------------------------------------------------------------------
(* The calls *)

(* A call of a new activation f; the innermost one goes to p. *)
LEMMA QuietCall ==
  ASSUME ClassAssumption, Inv, ~aborted, NEW t \in Threads, stack[t] # <<>>,
         NEW p \in {"baseRet", "ifaceRet", "initRet"},
         NEW f \in Frame, f.pc \notin {"baseRet", "ifaceRet", "initRet"}, ~Active(f),
         Call(t, p, f),
         UNCHANGED <<state, initTid, waiting, pending, calls, aborted, ran, spoiled>>,
         Keeps(stack[t][1], [stack[t][1] EXCEPT !.pc = p]),
         Good(state, stack'[t], stack[t][1], 2)
           => Good(state, stack'[t], [stack[t][1] EXCEPT !.pc = p], 2),
         Good(state, stack'[t], f, 1), Linked([stack[t][1] EXCEPT !.pc = p], f)
  PROVE  Inv'
  <1>1. stack \in Stacks /\ stack[t][1] \in Frame /\ Top(t) = stack[t][1]
    BY Innermost DEF Inv
  <1>2. [stack[t][1] EXCEPT !.pc = p] \in Frame
    BY <1>1, FrameFields DEF Pcs
  <1>3. stack' = [stack EXCEPT ![t] = <<f, [stack[t][1] EXCEPT !.pc = p]>> \o Tail(@)]
    BY <1>1 DEF Call
  <1>4. /\ stack' \in Stacks /\ Others(t) /\ Pushed(stack[t], stack'[t])
        /\ stack'[t][1] = f /\ stack'[t][2] = [stack[t][1] EXCEPT !.pc = p]
    <2>1. /\ stack \in Stacks /\ stack[t] # <<>> /\ [stack[t][1] EXCEPT !.pc = p] \in Frame
          /\ ~Active(f) /\ Keeps(stack[t][1], [stack[t][1] EXCEPT !.pc = p])
      BY <1>1, <1>2
    <2> DEFINE g == [stack[t][1] EXCEPT !.pc = p]
    <2>2. stack' = [stack EXCEPT ![t] = <<f, g>> \o Tail(@)]
      BY <1>3
    <2> HIDE DEF g
    <2>3. g \in Frame /\ Keeps(stack[t][1], g)
      BY <2>1 DEF g
    <2>4. /\ stack' \in Stacks /\ Others(t) /\ Pushed(stack[t], stack'[t])
          /\ stack'[t][1] = f /\ stack'[t][2] = g
      BY <2>1, <2>2, <2>3, PushShape
    <2> QED BY <2>4 DEF g
  <1>5. /\ \A u \in Threads \ {t} : ret'[u] = ret[u]
        /\ ret'[t] = "none" /\ ret' \in [Threads -> Outcome]
    BY DEF Call, Inv, TypeOK, Outcome
  <1>6. StackInv'
    BY <1>4, <1>5, QuietPush DEF Quiet
  <1>7. FailureThrows'
    BY <1>5 DEF FailureThrows, Inv
  <1> QED BY <1>4, <1>5, <1>6, <1>7, QuietInv DEF Inv, TypeOK

(* A new activation has settled nothing, and needs nothing. *)
LEMMA NewGood ==
  ASSUME ClassAssumption, NEW st, NEW fs, NEW n, NEW c \in Classes
  PROVE  /\ Good(st, fs, NewFrame("init", c, "check"), n)
         /\ c \in Interfaces => Good(st, fs, NewFrame("iface", c, "ifaces"), n)
         /\ ~Active(NewFrame("init", c, "check")) /\ ~Active(NewFrame("iface", c, "ifaces"))
         /\ NewFrame("init", c, "check") \in Frame /\ NewFrame("iface", c, "ifaces") \in Frame
         /\ NewFrame("init", c, "check").pc = "check" /\ NewFrame("init", c, "check").kind = "init"
         /\ NewFrame("init", c, "check").cls = c
         /\ NewFrame("iface", c, "ifaces").pc = "ifaces"
         /\ NewFrame("iface", c, "ifaces").kind = "iface" /\ NewFrame("iface", c, "ifaces").cls = c
  <1>1. /\ Good(st, fs, NewFrame("init", c, "check"), n)
        /\ ~Active(NewFrame("init", c, "check")) /\ ~Active(NewFrame("iface", c, "ifaces"))
    BY DEF Good, NewFrame, Active
  <1>2. c \in Interfaces => Good(st, fs, NewFrame("iface", c, "ifaces"), n)
    <2>1. Len(IfacesOf[c]) \in Nat
      BY DEF ClassAssumption
    <2> QED BY <2>1 DEF Good, NewFrame
  <1>3. NewFrame("init", c, "check") \in Frame /\ NewFrame("iface", c, "ifaces") \in Frame
    BY NewFrames DEF Pcs
  <1> QED BY <1>1, <1>2, <1>3 DEF NewFrame

LEMMA InitializeBaseStep ==
  ASSUME ClassAssumption, Inv, ~aborted, NEW t \in Threads, InitializeBase(t)
  PROVE  Inv'
  <1> USE DEF Inv
  <1>1. /\ stack[t] # <<>> /\ stack[t][1].kind = "init" /\ stack[t][1].pc = "base"
        /\ stack[t][1] \in Frame /\ stack[t][1].cls \in Classes /\ Top(t) = stack[t][1]
    BY Innermost DEF InitializeBase, At
  <1>2. UNCHANGED <<state, initTid, waiting, pending, calls, aborted, ran, spoiled>>
    BY DEF InitializeBase
  <1>3. ASSUME NEW p \in {"cctor", "ifaces", "baseRet"}
        PROVE  Keeps(stack[t][1], [stack[t][1] EXCEPT !.pc = p])
    BY <1>1, <1>3, PcFields DEF Keeps, Same, Active, Early, Pcs
  <1>4. CASE stack[t][1].cls \in Interfaces
    <2>1. Goto(t, "cctor") /\ UNCHANGED ret
      BY <1>1, <1>4 DEF InitializeBase
    <2>2. Good(state, stack'[t], stack[t][1], 1)
            => Good(state, stack'[t], [stack[t][1] EXCEPT !.pc = "cctor"], 1)
      BY <1>1, <1>4, PcFields DEF Good, Pcs
    <2>3. stack' \in Stacks /\ StackInv'
      BY <1>1, <1>2, <1>3, <2>1, <2>2, QuietGoto DEF Pcs
    <2> QED BY <1>2, <2>1, <2>3, QuietInv DEF FailureThrows, TypeOK
  <1>5. CASE stack[t][1].cls \notin Interfaces /\ Base[stack[t][1].cls] = NoClass
    <2>1. Goto(t, "ifaces") /\ UNCHANGED ret
      BY <1>1, <1>5 DEF InitializeBase
    <2>2. Len(IfacesOf[stack[t][1].cls]) \in Nat
      BY <1>1 DEF ClassAssumption
    <2>3. Good(state, stack'[t], stack[t][1], 1)
            => Good(state, stack'[t], [stack[t][1] EXCEPT !.pc = "ifaces"], 1)
      BY <1>1, <1>5, <2>2, PcFields DEF Good, Pcs
    <2>4. stack' \in Stacks /\ StackInv'
      BY <1>1, <1>2, <1>3, <2>1, <2>3, QuietGoto DEF Pcs
    <2> QED BY <1>2, <2>1, <2>4, QuietInv DEF FailureThrows, TypeOK
  <1>6. CASE stack[t][1].cls \notin Interfaces /\ Base[stack[t][1].cls] # NoClass
    <2> DEFINE c == Base[stack[t][1].cls]
               f == NewFrame("init", c, "check")
    <2>1. c \in Classes
      BY <1>1, <1>6 DEF ClassAssumption
    <2>2. Call(t, "baseRet", f)
      BY <1>1, <1>6 DEF InitializeBase
    <2>3. /\ Good(state, stack'[t], f, 1) /\ ~Active(f) /\ f \in Frame
          /\ f.pc = "check" /\ f.kind = "init" /\ f.cls = c
      BY <2>1, NewGood
    <2>4. Good(state, stack'[t], stack[t][1], 2)
            => Good(state, stack'[t], [stack[t][1] EXCEPT !.pc = "baseRet"], 2)
      BY <1>1, <1>6, PcFields DEF Good, Pcs
    <2>5. Linked([stack[t][1] EXCEPT !.pc = "baseRet"], f)
      BY <1>1, <2>3, PcFields DEF Linked, Pcs
    <2> HIDE DEF f
    <2> QED BY <1>1, <1>2, <1>3, <2>2, <2>3, <2>4, <2>5, QuietCall
  <1> QED BY <1>4, <1>5, <1>6

(* The interfaces that are settled hold what each of them needs. *)
LEMMA SettledClosed ==
  ASSUME ClassAssumption, NEW st, NEW fs, NEW n
  PROVE  Closed(st, fs, {j \in Interfaces : IfaceSettled(st, fs, j, n)}, n)
  <1> DEFINE All == {j \in Interfaces : IfaceSettled(st, fs, j, n)}
  <1>1. SUFFICES ASSUME NEW j \in All, ~Settled(st, fs, j, n)
                 PROVE  /\ j \notin DefaultMethods
                        /\ \A x \in 1..Len(IfacesOf[j]) : IfacesOf[j][x] \in All
    BY DEF Closed
  <1>2. PICK S \in SUBSET Interfaces : j \in S /\ Closed(st, fs, S, n)
    BY DEF IfaceSettled
  <1>3. j \notin DefaultMethods /\ \A x \in 1..Len(IfacesOf[j]) : IfacesOf[j][x] \in S
    BY <1>1, <1>2 DEF Closed
  <1>4. \A i \in S : i \in All
    BY <1>2 DEF IfaceSettled
  <1> QED BY <1>3, <1>4

LEMMA SettledThroughBases ==
  ASSUME ClassAssumption, NEW st, NEW fs, NEW n, NEW i \in Interfaces, i \notin DefaultMethods,
         \A x \in 1..Len(IfacesOf[i]) : IfaceSettled(st, fs, IfacesOf[i][x], n)
  PROVE  IfaceSettled(st, fs, i, n)
  <1> DEFINE All == {j \in Interfaces : IfaceSettled(st, fs, j, n)}
             S == All \cup {i}
  <1>1. Closed(st, fs, All, n)
    BY SettledClosed
  <1>2. \A x \in 1..Len(IfacesOf[i]) : IfacesOf[i][x] \in All
    BY DEF ClassAssumption
  <1>3. Closed(st, fs, S, n)
    BY <1>1, <1>2 DEF Closed
  <1>4. S \in SUBSET Interfaces /\ i \in S
    OBVIOUS
  <1> QED BY <1>3, <1>4 DEF IfaceSettled

-------------------------------------------------------------------------------
(* The loops over the interfaces *)

(* The innermost activation is replaced by one at its next interface, or    *)
(* otherwise further on.                                                    *)
LEMMA QuietReplace ==
  ASSUME ClassAssumption, Inv, ~aborted, NEW t \in Threads, stack[t] # <<>>,
         NEW g \in Frame, g.pc \notin {"baseRet", "ifaceRet", "initRet"},
         stack' = [stack EXCEPT ![t][1] = g],
         UNCHANGED <<state, initTid, waiting, ret, pending, calls, aborted, ran, spoiled>>,
         Keeps(stack[t][1], g),
         Good(state, stack'[t], stack[t][1], 1) => Good(state, stack'[t], g, 1)
  PROVE  Inv'
  <1>1. stack \in Stacks
    BY DEF Inv, TypeOK, Stacks
  <1>2. stack' \in Stacks /\ Others(t) /\ stack'[t][1] = g /\ Moved(stack[t], stack'[t])
    BY <1>1, Replace DEF Keeps
  <1>3. StackInv'
    BY <1>2, QuietMove DEF Quiet
  <1> QED BY <1>2, <1>3, QuietInv DEF Inv, FailureThrows, TypeOK

LEMMA NextInterfaceStep ==
  ASSUME ClassAssumption, Inv, ~aborted, NEW t \in Threads, NextInterface(t)
  PROVE  Inv'
  <1> USE DEF Inv
  <1> DEFINE f == stack[t][1]
             L == Len(IfacesOf[f.cls])
  <1>1. /\ stack[t] # <<>> /\ f.pc = "ifaces" /\ f.kind \in {"init", "iface"}
        /\ f \in Frame /\ f.cls \in Classes /\ Top(t) = f /\ f.k \in Nat /\ 1 \in 1..Len(stack[t])
    BY Innermost DEF NextInterface
  <1>2. UNCHANGED <<state, initTid, waiting, pending, calls, aborted, ran, spoiled>>
    BY DEF NextInterface
  <1>3. IfacesOf[f.cls] \in Seq(Interfaces) /\ L \in Nat
    BY <1>1 DEF ClassAssumption
  <1>4. Good(state, stack[t], f, 1)
    BY <1>1 DEF FrameInv
  <1> HIDE DEF f
  <1>5. CASE f.k > L /\ f.kind = "init"
    <2>1. Goto(t, "cctor") /\ UNCHANGED ret
      BY <1>1, <1>5 DEF NextInterface
    <2>2. Keeps(f, [f EXCEPT !.pc = "cctor"])
      BY <1>1, <1>5, PcFields DEF Keeps, Same, Active, Early, Pcs
    <2>3. \A x \in 1..L : x < f.k
      BY <1>1, <1>3, <1>5
    <2>4. Good(state, stack'[t], f, 1) => Good(state, stack'[t], [f EXCEPT !.pc = "cctor"], 1)
      BY <1>1, <1>5, <2>3, PcFields DEF Good, Pcs
    <2>5. stack' \in Stacks /\ StackInv'
      BY <1>1, <1>2, <2>1, <2>2, <2>4, QuietGoto DEF Pcs, f
    <2> QED BY <1>2, <2>1, <2>5, QuietInv DEF FailureThrows, TypeOK
  <1>6. CASE f.k > L /\ f.kind = "iface" /\ f.cls \notin DefaultMethods
    <2>1. Return(t, "true") /\ "true" \in Outcome
      BY <1>1, <1>6 DEF NextInterface, Outcome
    <2>2. \A x \in 1..L : IfaceSettled(state, stack[t], IfacesOf[f.cls][x], 1)
      <3>1. \A x \in 1..L : x < f.k
        BY <1>1, <1>3, <1>6
      <3> QED BY <1>1, <1>4, <3>1 DEF Good
    <2>3. f.cls \in Interfaces
      BY <1>4, <1>6 DEF Good
    <2>4. IfaceSettled(state, stack[t], f.cls, 1)
      BY <1>6, <2>2, <2>3, SettledThroughBases
    <2>5. ~Active(f)
      BY <1>6 DEF Active
    <2>6. /\ stack' \in Stacks /\ StackInv'
          /\ \A u \in Threads \ {t} : ret'[u] = ret[u]
          /\ ret'[t] = "true" /\ ret' \in [Threads -> Outcome]
      BY <1>1, <1>2, <1>6, <2>1, <2>3, <2>4, <2>5, QuietReturn DEF f
    <2> QED BY <1>2, <2>6, QuietInv DEF FailureThrows, TypeOK
  <1>7. CASE f.k > L /\ f.kind = "iface" /\ f.cls \in DefaultMethods
    <2> DEFINE g == NewFrame("init", f.cls, "check")
    <2>1. Call(t, "initRet", g)
      BY <1>1, <1>7 DEF NextInterface
    <2>2. /\ Good(state, stack'[t], g, 1) /\ ~Active(g) /\ g \in Frame
          /\ g.pc = "check" /\ g.kind = "init" /\ g.cls = f.cls
      BY <1>1, NewGood
    <2> HIDE DEF g
    <2>3. Keeps(f, [f EXCEPT !.pc = "initRet"])
      BY <1>1, <1>7, PcFields DEF Keeps, Same, Active, Early, Pcs
    <2>4. Good(state, stack'[t], f, 2) => Good(state, stack'[t], [f EXCEPT !.pc = "initRet"], 2)
      BY <1>1, <1>7, PcFields DEF Good, Pcs
    <2>5. Linked([f EXCEPT !.pc = "initRet"], g)
      BY <1>1, <2>2, PcFields DEF Linked, Pcs
    <2> QED BY <1>1, <1>2, <2>1, <2>2, <2>3, <2>4, <2>5, QuietCall DEF f
  <1>8. CASE ~(f.k > L) /\ state[IfacesOf[f.cls][f.k]] = "INITIALIZED"
    <2> DEFINE g == [f EXCEPT !.k = @ + 1]
    <2>1. f.k \in 1..L /\ IfacesOf[f.cls][f.k] \in Interfaces
      BY <1>1, <1>3, <1>4, <1>8 DEF Good
    <2>2. stack' = [stack EXCEPT ![t][1] = g] /\ UNCHANGED ret
      BY <1>1, <1>8 DEF NextInterface, TypeOK, f
    <2>3. g \in Frame /\ g.kind = f.kind /\ g.cls = f.cls /\ g.pc = f.pc /\ g.k = f.k + 1
      <3>1. g \in Frame
        BY <1>1, FrameFields
      <3>2. g.kind = f.kind /\ g.cls = f.cls /\ g.pc = f.pc /\ g.k = f.k + 1
        BY <1>1 DEF Frame
      <3> QED BY <3>1, <3>2
    <2> HIDE DEF g
    <2>4. Keeps(f, g)
      BY <2>3 DEF Keeps, Same, Active, Early
    <2>5. IfaceSettled(state, stack'[t], IfacesOf[f.cls][f.k], 1)
      <3>1. Closed(state, stack'[t], {IfacesOf[f.cls][f.k]}, 1)
        BY <1>8 DEF Closed, Settled
      <3> QED BY <2>1, <3>1 DEF IfaceSettled
    <2>6. \A x \in 1..L : x < f.k + 1 => x < f.k \/ x = f.k
      BY <1>1
    <2>7. Good(state, stack'[t], f, 1) => Good(state, stack'[t], g, 1)
      BY <1>1, <1>3, <2>1, <2>3, <2>5, <2>6 DEF Good
    <2> QED BY <1>1, <1>2, <2>2, <2>3, <2>4, <2>7, QuietReplace DEF f
  <1>9. CASE ~(f.k > L) /\ state[IfacesOf[f.cls][f.k]] # "INITIALIZED"
    <2> DEFINE i == IfacesOf[f.cls][f.k]
               g == NewFrame("iface", i, "ifaces")
    <2>1. f.k \in 1..L /\ i \in Interfaces /\ i \in Classes
      BY <1>1, <1>3, <1>4, <1>9 DEF Good, ClassAssumption
    <2>2. Call(t, "ifaceRet", g)
      BY <1>1, <1>9 DEF NextInterface
    <2>3. /\ Good(state, stack'[t], g, 1) /\ ~Active(g) /\ g \in Frame
          /\ g.pc = "ifaces" /\ g.kind = "iface" /\ g.cls = i
      BY <2>1, NewGood
    <2> HIDE DEF g
    <2>4. Keeps(f, [f EXCEPT !.pc = "ifaceRet"])
      BY <1>1, PcFields DEF Keeps, Same, Active, Early, Pcs
    <2>5. Good(state, stack'[t], f, 2) => Good(state, stack'[t], [f EXCEPT !.pc = "ifaceRet"], 2)
      BY <1>1, <2>1, PcFields DEF Good, Pcs
    <2>6. Linked([f EXCEPT !.pc = "ifaceRet"], g)
      BY <1>1, <2>3, PcFields DEF Linked, Pcs
    <2> QED BY <1>1, <1>2, <2>2, <2>3, <2>4, <2>5, <2>6, QuietCall DEF f
  <1> QED BY <1>1, <1>5, <1>6, <1>7, <1>8, <1>9

-------------------------------------------------------------------------------
(* The ends of an initialization *)

(* An activation sets the final state of its class and returns: it owns the *)
(* class, or nobody has begun with it, or the class is spoiled now.         *)
LEMMA FinalReturn ==
  ASSUME ClassAssumption, Inv, ~aborted, NEW t \in Threads, stack[t] # <<>>,
         stack[t][1].kind = "init",
         NEW s \in {"ERRONEOUS", "INITIALIZED"}, SetState(stack[t][1].cls, s),
         NEW r \in {"true", "false"}, Return(t, r),
         r = "true" => s = "INITIALIZED",
         r = "false" => pending'[t],
         \A u \in Threads \ {t} : pending[u] => pending'[u],
         \/ Active(stack[t][1]) /\ spoiled' = spoiled
         \/ state[stack[t][1].cls] \in Untouched /\ spoiled' = spoiled
         \/ ~Active(stack[t][1]) /\ spoiled' = spoiled \cup {stack[t][1].cls},
         waiting' \in [Classes -> SUBSET Threads], pending' \in [Threads -> BOOLEAN],
         UNCHANGED <<initTid, calls, ran>>
  PROVE  Inv'
  <1> USE DEF Inv
  <1> DEFINE c == stack[t][1].cls
  <1>1. c \in Classes /\ stack[t] \in Seq(Frame) /\ 1 \in 1..Len(stack[t])
    BY Innermost
  <1>2. /\ state' \in [Classes -> States] /\ aborted' \in BOOLEAN
        /\ Lasting(state, state')
        /\ \A d \in Classes \ {c} : state'[d] = state[d]
        /\ state'[c] = state[c] \/ state'[c] = s
        /\ state'[c] # "INITIALIZING"
        /\ state[c] \in Untouched \cup {"INITIALIZING"} => ~aborted'
        /\ ~aborted' => state'[c] = s
    BY <1>1, SetFinal
  <1>3. /\ stack' \in Stacks /\ Others(t) /\ Popped(stack[t], stack'[t])
        /\ \A u \in Threads \ {t} : ret'[u] = ret[u]
        /\ ret'[t] = r /\ ret' \in [Threads -> Outcome]
    BY ReturnShape DEF Outcome
  <1>4. spoiled \subseteq spoiled' /\ spoiled' \subseteq Classes
    BY <1>1 DEF TypeOK
  <1>5. ASSUME c \notin spoiled', NEW u \in Threads, NEW n \in 1..Len(stack'[u]),
               Active(stack'[u][n]), stack'[u][n].cls = c
        PROVE  FALSE
    <2>1. Came(stack[t], stack'[t], -1)
      BY <1>1, <1>3, Origins DEF Stacks
    <2>2. PICK m \in 1..Len(stack[u]) : /\ Active(stack[u][m]) /\ stack[u][m].cls = c
                                        /\ u = t => m = n + 1
      <3>1. CASE u = t
        <4>1. n - (-1) \in 1..Len(stack[t]) /\ Active(stack[t][n - (-1)]) /\ stack[t][n - (-1)].cls = c
          BY <1>5, <2>1, <3>1 DEF Came
        <4>2. n - (-1) = n + 1
          OBVIOUS
        <4> QED BY <3>1, <4>1, <4>2
      <3>2. CASE u # t
        BY <1>3, <1>5, <3>2 DEF Others
      <3> QED BY <3>1, <3>2
    <2>3. CASE Active(stack[t][1])
      <3>1. u = t /\ m = 1
        BY <1>1, <2>2, <2>3 DEF UniqueInv
      <3> QED BY <2>2, <3>1
    <2>4. CASE state[c] \in Untouched
      <3>1. state[stack[u][m].cls] \notin Untouched
        BY <2>2, ActiveOwns
      <3> QED BY <2>2, <2>4, <3>1
    <2> QED BY <1>5, <2>3, <2>4
  <1>6. StateStep(c)
    BY <1>2, <1>5 DEF StateStep
  <1>7. ~aborted' /\ r = "true" => Settled(state', stack'[t], c, 1)
    BY <1>2 DEF Settled
  <1>8. StackInv'
    BY <1>2, <1>3, <1>4, <1>6, <1>7, PopStep
  <1>9. AbortsOnlyAfterSpoiling'
    <2>1. SUFFICES ASSUME aborted'
                   PROVE  c \in spoiled'
      BY DEF AbortsOnlyAfterSpoiling
    <2>2. state[c] \notin Untouched \cup {"INITIALIZING"}
      BY <1>2, <2>1
    <2>3. Active(stack[t][1]) /\ spoiled' = spoiled => c \in spoiled
      <3>1. Active(stack[t][1]) /\ c \notin spoiled => state[c] = "INITIALIZING"
        BY <1>1, ActiveOwns
      <3> QED BY <2>2, <3>1
    <2> QED BY <2>2, <2>3
  <1>10. FailureThrows'
    BY <1>3 DEF FailureThrows
  <1>11. TypeOK'
    BY <1>2, <1>3, <1>4 DEF TypeOK, Stacks
  <1>12. CctorRunsOnce'
    BY DEF CctorRunsOnce
  <1> QED BY <1>8, <1>9, <1>10, <1>11, <1>12 DEF StackInv

LEMMA DependencyFailedStep ==
  ASSUME ClassAssumption, Inv, ~aborted, NEW t \in Threads, stack[t] # <<>>,
         Active(stack[t][1]), ret[t] = "false", DependencyFailed(t)
  PROVE  Inv'
  <1>1. Top(t) = stack[t][1] /\ stack[t][1].cls \in Classes
    BY Innermost DEF Inv
  <1>2. /\ SetState(stack[t][1].cls, "ERRONEOUS") /\ Return(t, "false")
        /\ UNCHANGED <<initTid, pending, calls, ran, spoiled>>
    BY <1>1 DEF DependencyFailed
  <1>3. waiting' \in [Classes -> SUBSET Threads]
    BY <1>1 DEF DependencyFailed, NotifyAll, Inv, TypeOK
  <1>4. pending'[t] /\ pending' \in [Threads -> BOOLEAN]
    BY <1>2 DEF Inv, FailureThrows, TypeOK
  <1> QED BY <1>2, <1>3, <1>4, FinalReturn DEF Active

LEMMA FinishStep ==
  ASSUME ClassAssumption, Inv, ~aborted, NEW t \in Threads, Finish(t)
  PROVE  Inv'
  <1>1. /\ Top(t) = stack[t][1] /\ stack[t][1].cls \in Classes /\ stack[t] # <<>>
        /\ stack[t][1].kind = "init" /\ stack[t][1].pc = "final"
    BY Innermost DEF Inv, Finish, At
  <1>2. Active(stack[t][1])
    BY <1>1 DEF Active
  <1>3. waiting' \in [Classes -> SUBSET Threads]
    BY <1>1 DEF Finish, NotifyAll, Inv, TypeOK
  <1>4. UNCHANGED <<initTid, pending, calls, ran, spoiled>> /\ pending' \in [Threads -> BOOLEAN]
    BY DEF Finish, Inv, TypeOK
  <1>5. CASE pending[t]
    <2>1. SetState(stack[t][1].cls, "ERRONEOUS") /\ Return(t, "false") /\ pending'[t]
      BY <1>1, <1>4, <1>5 DEF Finish
    <2> QED BY <1>1, <1>2, <1>3, <1>4, <2>1, FinalReturn
  <1>6. CASE ~pending[t]
    <2>1. SetState(stack[t][1].cls, "INITIALIZED") /\ Return(t, "true")
      BY <1>1, <1>6 DEF Finish
    <2> QED BY <1>1, <1>2, <1>3, <1>4, <2>1, FinalReturn
  <1> QED BY <1>5, <1>6

LEMMA VerifyFailsStep ==
  ASSUME ClassAssumption, Inv, ~aborted, NEW t \in Threads, VerifyFails(t)
  PROVE  Inv'
  <1>1. /\ Top(t) = stack[t][1] /\ stack[t][1].cls \in Classes /\ stack[t] # <<>>
        /\ stack[t][1].kind = "init"
    BY Innermost DEF Inv, VerifyFails, At
  <1>2. state[stack[t][1].cls] \in Untouched
    BY <1>1, Ordered DEF VerifyFails, Inv
  <1>3. /\ SetState(stack[t][1].cls, "ERRONEOUS") /\ Return(t, "false")
        /\ UNCHANGED <<initTid, waiting, calls, ran, spoiled>>
    BY <1>1 DEF VerifyFails
  <1>4. /\ pending'[t] /\ pending' \in [Threads -> BOOLEAN]
        /\ \A u \in Threads \ {t} : pending[u] => pending'[u]
        /\ waiting' \in [Classes -> SUBSET Threads]
    BY <1>3 DEF VerifyFails, Throw, Inv, TypeOK
  <1> QED BY <1>1, <1>2, <1>3, <1>4, FinalReturn

LEMMA AfterWaitStep ==
  ASSUME ClassAssumption, Inv, ~aborted, NEW t \in Threads, AfterWait(t)
  PROVE  Inv'
  <1> USE DEF Inv
  <1> DEFINE c == stack[t][1].cls
  <1>1. /\ Top(t) = stack[t][1] /\ c \in Classes /\ stack[t] # <<>>
        /\ stack[t][1].kind = "init" /\ stack[t][1].pc = "woken" /\ stack[t][1] \in Frame
    BY Innermost DEF AfterWait, At
  <1>2. ~Active(stack[t][1])
    BY <1>1 DEF Active
  <1>3. UNCHANGED <<initTid, calls, ran>>
    BY DEF AfterWait
  <1>4. CASE /\ pending[t] /\ SetState(c, "ERRONEOUS") /\ spoiled' = spoiled \cup {c}
             /\ Return(t, "false") /\ UNCHANGED <<waiting, pending>>
    <2>1. /\ pending'[t] /\ pending' \in [Threads -> BOOLEAN]
          /\ waiting' \in [Classes -> SUBSET Threads]
      BY <1>4 DEF TypeOK
    <2> QED BY <1>1, <1>2, <1>3, <1>4, <2>1, FinalReturn
  <1>5. CASE Wait(t, c) /\ UNCHANGED <<state, aborted, spoiled, ret, pending>>
    <2>1. Goto(t, "wait") /\ waiting' \in [Classes -> SUBSET Threads]
      BY <1>1, <1>5 DEF Wait, TypeOK
    <2>2. Keeps(stack[t][1], [stack[t][1] EXCEPT !.pc = "wait"])
      BY <1>1, PcFields DEF Keeps, Same, Active, Early, Pcs
    <2>3. Good(state, stack'[t], stack[t][1], 1)
            => Good(state, stack'[t], [stack[t][1] EXCEPT !.pc = "wait"], 1)
      BY <1>1, PcFields DEF Good, Pcs
    <2>4. stack' \in Stacks /\ StackInv'
      BY <1>1, <1>3, <1>5, <2>1, <2>2, <2>3, QuietGoto DEF Pcs
    <2> QED BY <1>3, <1>5, <2>1, <2>4, QuietInv DEF FailureThrows, TypeOK
  <1>6. CASE Throw(t) /\ Return(t, "false") /\ UNCHANGED <<state, aborted, spoiled, waiting>>
    <2>1. /\ stack' \in Stacks /\ StackInv'
          /\ \A u \in Threads \ {t} : ret'[u] = ret[u]
          /\ ret'[t] = "false" /\ ret' \in [Threads -> Outcome]
      BY <1>1, <1>2, <1>3, <1>6, QuietReturn DEF Outcome
    <2>2. pending' \in [Threads -> BOOLEAN] /\ pending'[t] /\ \A u \in Threads : pending[u] => pending'[u]
      BY <1>6 DEF Throw, TypeOK
    <2>3. FailureThrows'
      BY <2>1, <2>2 DEF FailureThrows
    <2> QED BY <1>3, <1>6, <2>1, <2>2, <2>3, QuietInv DEF TypeOK
  <1>7. CASE /\ state[c] = "INITIALIZED" /\ Return(t, "true")
             /\ UNCHANGED <<state, aborted, spoiled, waiting, pending>>
    <2>1. Settled(state, stack[t], c, 1)
      BY <1>7 DEF Settled
    <2>2. /\ stack' \in Stacks /\ StackInv'
          /\ \A u \in Threads \ {t} : ret'[u] = ret[u]
          /\ ret'[t] = "true" /\ ret' \in [Threads -> Outcome]
      BY <1>1, <1>2, <1>3, <1>7, <2>1, QuietReturn DEF Outcome
    <2> QED BY <1>3, <1>7, <2>2, QuietInv DEF FailureThrows, TypeOK
  <1> QED BY <1>1, <1>4, <1>5, <1>6, <1>7 DEF AfterWait

LEMMA BaseReturnedStep ==
  ASSUME ClassAssumption, Inv, ~aborted, NEW t \in Threads, BaseReturned(t)
  PROVE  Inv'
  <1> USE DEF Inv
  <1> DEFINE f == stack[t][1]
  <1>1. /\ Top(t) = f /\ f.cls \in Classes /\ stack[t] # <<>> /\ f \in Frame
        /\ f.kind = "init" /\ f.pc = "baseRet" /\ 1 \in 1..Len(stack[t]) /\ stack[t] \in Seq(Frame)
    BY Innermost DEF BaseReturned, At
  <1>2. CASE ret[t] = "false" /\ DependencyFailed(t)
    <2>1. Active(f)
      BY <1>1 DEF Active
    <2> QED BY <1>1, <1>2, <2>1, DependencyFailedStep
  <1>3. CASE /\ ret[t] = "true" /\ Goto(t, "ifaces")
             /\ UNCHANGED <<state, initTid, waiting, ret, pending, calls, aborted, ran, spoiled>>
    <2>1. Keeps(f, [f EXCEPT !.pc = "ifaces"])
      BY <1>1, PcFields DEF Keeps, Same, Active, Early, Pcs
    <2>2. Settled(state, stack[t], Base[f.cls], 1)
      BY <1>1, <1>3 DEF ReturnInv, Answer
    <2>3. Base[f.cls] \in Classes
      BY <1>1 DEF FrameInv, Good, ClassAssumption
    <2>4. Settled(state, stack'[t], Base[f.cls], 1)
      <3>1. stack' \in Stacks /\ Moved(stack[t], stack'[t])
        BY <1>1, <1>3, <2>1, GotoShape DEF Keeps, Pcs, TypeOK, Stacks
      <3>2. stack'[t] \in Seq(Frame)
        BY <3>1 DEF Stacks
      <3>3. Outlives(stack[t], 1, stack'[t], 1) /\ Lasting(state, state)
        BY <1>1, <3>1, <3>2, Survivors DEF Lasting
      <3>4. \A d \in Classes : Settled(state, stack[t], d, 1) => Settled(state, stack'[t], d, 1)
        BY <1>1, <3>2, <3>3, SettledLasts
      <3> QED BY <2>2, <2>3, <3>4
    <2>5. Len(IfacesOf[f.cls]) \in Nat
      BY <1>1 DEF ClassAssumption
    <2>6. Good(state, stack'[t], f, 1) => Good(state, stack'[t], [f EXCEPT !.pc = "ifaces"], 1)
      BY <1>1, <2>4, <2>5, PcFields DEF Good, Pcs
    <2>7. stack' \in Stacks /\ StackInv'
      BY <1>1, <1>3, <2>1, <2>6, QuietGoto DEF Pcs
    <2> QED BY <1>3, <2>7, QuietInv DEF FailureThrows, TypeOK
  <1> QED BY <1>2, <1>3 DEF BaseReturned

LEMMA InterfaceReturnedStep ==
  ASSUME ClassAssumption, Inv, ~aborted, NEW t \in Threads, InterfaceReturned(t)
  PROVE  Inv'
  <1> USE DEF Inv
  <1> DEFINE f == stack[t][1]
  <1>1. /\ Top(t) = f /\ f.cls \in Classes /\ stack[t] # <<>> /\ f \in Frame
        /\ f.pc = "ifaceRet" /\ 1 \in 1..Len(stack[t]) /\ stack[t] \in Seq(Frame) /\ f.k \in Nat
    BY Innermost DEF InterfaceReturned
  <1>2. CASE ret[t] = "false" /\ f.kind = "init" /\ DependencyFailed(t)
    <2>1. Active(f)
      BY <1>1, <1>2 DEF Active
    <2> QED BY <1>1, <1>2, <2>1, DependencyFailedStep
  <1>3. CASE /\ ret[t] = "false" /\ f.kind = "iface" /\ Return(t, "false")
             /\ UNCHANGED <<state, initTid, waiting, pending, calls, aborted, ran, spoiled>>
    <2>1. ~Active(f)
      BY <1>3 DEF Active
    <2>2. /\ stack' \in Stacks /\ StackInv'
          /\ \A u \in Threads \ {t} : ret'[u] = ret[u]
          /\ ret'[t] = "false" /\ ret' \in [Threads -> Outcome]
      BY <1>1, <1>3, <2>1, QuietReturn DEF Outcome
    <2>3. FailureThrows'
      BY <1>3, <2>2 DEF FailureThrows
    <2> QED BY <1>3, <2>2, <2>3, QuietInv DEF TypeOK
  <1>4. CASE /\ ret[t] = "true"
             /\ stack' = [stack EXCEPT ![t][1] = [f EXCEPT !.k = @ + 1, !.pc = "ifaces"]]
             /\ UNCHANGED <<state, initTid, waiting, ret, pending, calls, aborted, ran, spoiled>>
    <2> DEFINE g == [f EXCEPT !.k = @ + 1, !.pc = "ifaces"]
    <2>1. stack' = [stack EXCEPT ![t][1] = g]
      BY <1>4
    <2>2. /\ g \in Frame /\ g.kind = f.kind /\ g.cls = f.cls /\ g.pc = "ifaces" /\ g.k = f.k + 1
      <3>1. "ifaces" \in Pcs /\ f \in Frame
        BY <1>1 DEF Pcs
      <3>2. g \in Frame
        BY <3>1, FrameFields
      <3>3. g = [f EXCEPT !.k = @ + 1, !.pc = "ifaces"]
        OBVIOUS
      <3> HIDE DEF g, f
      <3>4. g.kind = f.kind /\ g.cls = f.cls /\ g.pc = "ifaces" /\ g.k = f.k + 1
        BY <3>1, <3>3 DEF Frame
      <3> QED BY <3>2, <3>4
    <2> HIDE DEF g
    <2>3. Keeps(f, g)
      BY <1>1, <2>2 DEF Keeps, Same, Active, Early
    <2>4. Good(state, stack[t], f, 1)
      BY <1>1 DEF FrameInv
    <2>5. IfacesOf[f.cls] \in Seq(Interfaces) /\ Len(IfacesOf[f.cls]) \in Nat
      BY <1>1 DEF ClassAssumption
    <2>6. f.k \in 1..Len(IfacesOf[f.cls]) /\ IfacesOf[f.cls][f.k] \in Interfaces
      BY <1>1, <2>4, <2>5 DEF Good
    <2>7. IfaceSettled(state, stack[t], IfacesOf[f.cls][f.k], 1)
      BY <1>1, <1>4 DEF ReturnInv, Answer
    <2>8. IfaceSettled(state, stack'[t], IfacesOf[f.cls][f.k], 1)
      <3>1. stack' \in Stacks /\ Moved(stack[t], stack'[t])
        BY <1>1, <2>1, <2>2, <2>3, Replace DEF Keeps, TypeOK, Stacks
      <3>2. stack'[t] \in Seq(Frame)
        BY <3>1 DEF Stacks
      <3>3. Outlives(stack[t], 1, stack'[t], 1) /\ Lasting(state, state)
        BY <1>1, <3>1, <3>2, Survivors DEF Lasting
      <3>4. \A i \in Interfaces :
              IfaceSettled(state, stack[t], i, 1) => IfaceSettled(state, stack'[t], i, 1)
        BY <1>1, <3>2, <3>3, SettledLasts
      <3> QED BY <2>6, <2>7, <3>4
    <2>9. \A x \in 1..Len(IfacesOf[f.cls]) : x < f.k + 1 => x < f.k \/ x = f.k
      BY <1>1
    <2>10. Good(state, stack'[t], f, 1) => Good(state, stack'[t], g, 1)
      <3> HIDE DEF f, Inv
      <3>1. SUFFICES ASSUME Good(state, stack'[t], f, 1)
                     PROVE  Good(state, stack'[t], g, 1)
        OBVIOUS
      <3>2. /\ g.kind = "iface" => g.cls \in Interfaces
            /\ g.kind = "init" /\ g.cls \notin Interfaces /\ Base[g.cls] # NoClass
                 => Settled(state, stack'[t], Base[g.cls], 1)
        BY <1>1, <2>2, <3>1 DEF Good
      <3>3. g.k >= 1 /\ g.k <= Len(IfacesOf[g.cls]) + 1
        BY <2>2, <2>5, <2>6
      <3>4. \A x \in 1..Len(IfacesOf[f.cls]) :
              x < f.k => IfaceSettled(state, stack'[t], IfacesOf[f.cls][x], 1)
        BY <1>1, <3>1 DEF Good
      <3>5. \A x \in 1..Len(IfacesOf[g.cls]) :
              x < g.k => IfaceSettled(state, stack'[t], IfacesOf[g.cls][x], 1)
        BY <2>2, <2>8, <2>9, <3>4
      <3> QED BY <2>2, <3>2, <3>3, <3>5 DEF Good
    <2> QED BY <1>1, <1>4, <2>1, <2>2, <2>3, <2>10, QuietReplace
  <1> QED BY <1>1, <1>2, <1>3, <1>4 DEF InterfaceReturned

-------------------------------------------------------------------------------
(* The cctor, and the beginnings *)

LEMMA CctorGoto ==
  ASSUME ClassAssumption, Inv, ~aborted, NEW t \in Threads, stack[t] # <<>>,
         stack[t][1].kind = "init", stack[t][1].pc \in {"run", "useRet"},
         NEW p \in {"run", "final"}, Goto(t, p),
         \A u \in Threads \ {t} : ret'[u] = ret[u],
         UNCHANGED <<state, initTid, ran, spoiled>>
  PROVE  stack' \in Stacks /\ StackInv'
  <1>1. stack[t][1] \in Frame
    BY Innermost DEF Inv
  <1>2. Keeps(stack[t][1], [stack[t][1] EXCEPT !.pc = p])
    BY <1>1, PcFields DEF Keeps, Same, Active, Early, Pcs
  <1>3. Good(state, stack'[t], stack[t][1], 1)
          => Good(state, stack'[t], [stack[t][1] EXCEPT !.pc = p], 1)
    BY <1>1, PcFields DEF Good, Pcs
  <1> QED BY <1>2, <1>3, QuietGoto DEF Pcs

LEMMA CctorUsedStep ==
  ASSUME ClassAssumption, Inv, ~aborted, NEW t \in Threads, CctorUsed(t)
  PROVE  Inv'
  <1> USE DEF Inv
  <1>1. stack[t] # <<>> /\ stack[t][1].kind = "init" /\ stack[t][1].pc = "useRet"
    BY Innermost DEF CctorUsed, At
  <1>2. /\ UNCHANGED <<state, initTid, waiting, calls, aborted, ran, spoiled>>
        /\ ret' \in [Threads -> Outcome] /\ ret'[t] = "none"
        /\ \A u \in Threads \ {t} : ret'[u] = ret[u]
    BY DEF CctorUsed, TypeOK, Outcome
  <1>3. stack' \in Stacks /\ StackInv'
    BY <1>1, <1>2, CctorGoto DEF CctorUsed
  <1>4. pending' \in [Threads -> BOOLEAN] /\ \A u \in Threads \ {t} : pending'[u] = pending[u]
    BY DEF CctorUsed, TypeOK
  <1>5. FailureThrows'
    BY <1>2, <1>4 DEF FailureThrows
  <1> QED BY <1>2, <1>3, <1>4, <1>5, QuietInv DEF TypeOK

LEMMA CctorEndsStep ==
  ASSUME ClassAssumption, Inv, ~aborted, NEW t \in Threads, CctorEnds(t)
  PROVE  Inv'
  <1> USE DEF Inv
  <1>1. stack[t] # <<>> /\ stack[t][1].kind = "init" /\ stack[t][1].pc = "run"
    BY Innermost DEF CctorEnds, At
  <1>2. UNCHANGED <<state, initTid, waiting, ret, calls, aborted, ran, spoiled>>
    BY DEF CctorEnds
  <1>3. stack' \in Stacks /\ StackInv'
    BY <1>1, <1>2, CctorGoto DEF CctorEnds
  <1>4. pending' \in [Threads -> BOOLEAN] /\ \A u \in Threads : pending[u] => pending'[u]
    <2>1. CASE UNCHANGED pending
      BY <2>1 DEF TypeOK
    <2>2. CASE Throw(t)
      BY <2>2 DEF Throw, TypeOK
    <2> QED BY <2>1, <2>2 DEF CctorEnds
  <1>5. FailureThrows'
    BY <1>2, <1>4 DEF FailureThrows
  <1> QED BY <1>2, <1>3, <1>4, <1>5, QuietInv DEF TypeOK

LEMMA CctorUsesStep ==
  ASSUME ClassAssumption, Inv, ~aborted, NEW t \in Threads, NEW c \in Classes, CctorUses(t, c)
  PROVE  Inv'
  <1> USE DEF Inv
  <1> DEFINE f == stack[t][1]
             g == [f EXCEPT !.pc = "useRet", !.uses = @ \ {c}]
             h == NewFrame("init", c, "check")
  <1>1. /\ Top(t) = f /\ f.cls \in Classes /\ stack[t] # <<>> /\ f \in Frame /\ stack \in Stacks
        /\ f.kind = "init" /\ f.pc = "run"
    BY Innermost DEF CctorUses, At
  <1>2. UNCHANGED <<state, initTid, waiting, pending, calls, aborted, ran, spoiled>>
    BY DEF CctorUses
  <1>3. g \in Frame
    BY <1>1, FrameFields DEF Pcs
  <1>4. g.kind = f.kind /\ g.cls = f.cls /\ g.pc = "useRet" /\ g.k = f.k
    BY <1>1 DEF Frame
  <1>5. stack' = [stack EXCEPT ![t] = <<h, g>> \o Tail(@)]
    BY <1>1 DEF CctorUses
  <1>6. /\ Good(state, stack'[t], h, 1) /\ ~Active(h) /\ h \in Frame
        /\ h.pc = "check" /\ h.kind = "init" /\ h.cls = c
    BY NewGood
  <1> HIDE DEF g, h
  <1>7. Keeps(f, g)
    BY <1>1, <1>4 DEF Keeps, Same, Active, Early
  <1>8. /\ stack' \in Stacks /\ Others(t) /\ Pushed(stack[t], stack'[t])
        /\ stack'[t][1] = h /\ stack'[t][2] = g
    <2>1. /\ stack \in Stacks /\ stack[t] # <<>> /\ h \in Frame /\ g \in Frame
          /\ ~Active(h) /\ Keeps(stack[t][1], g)
      BY <1>1, <1>3, <1>6, <1>7
    <2> HIDE DEF f, Inv
    <2> QED BY <1>5, <2>1, PushShape
  <1>9. Good(state, stack'[t], f, 2) => Good(state, stack'[t], g, 2)
    BY <1>1, <1>4 DEF Good
  <1>10. Linked(g, h)
    BY <1>4, <1>6 DEF Linked
  <1>11. /\ \A u \in Threads \ {t} : ret'[u] = ret[u]
         /\ ret'[t] = "none" /\ ret' \in [Threads -> Outcome]
    BY DEF CctorUses, TypeOK, Outcome
  <1>12. StackInv'
    BY <1>2, <1>6, <1>8, <1>9, <1>10, <1>11, QuietPush DEF Quiet
  <1>13. FailureThrows'
    BY <1>2, <1>11 DEF FailureThrows
  <1> QED BY <1>2, <1>8, <1>11, <1>12, <1>13, QuietInv DEF TypeOK

LEMMA InitializeClassStep ==
  ASSUME ClassAssumption, Inv, ~aborted, NEW t \in Threads, NEW c \in Classes,
         NEW stale \in BOOLEAN, InitializeClass(t, c, stale)
  PROVE  Inv'
  <1> USE DEF Inv
  <1> DEFINE h == NewFrame("init", c, "check")
  <1>1. UNCHANGED <<state, initTid, waiting, aborted, ran, spoiled>>
    BY DEF InitializeClass
  <1>2. /\ \A st, fs : Good(st, fs, h, 1)
        /\ ~Active(h) /\ h \in Frame /\ h.pc = "check"
    BY NewGood
  <1>3. stack[t] = <<>> /\ stack' = [stack EXCEPT ![t] = <<h>>]
    BY DEF InitializeClass
  <1> HIDE DEF h
  <1>4. /\ stack' \in Stacks /\ Others(t) /\ stack'[t] = <<h>>
        /\ stack'[t][1] = h /\ Len(stack'[t]) = 1 /\ stack[t] \in Seq(Frame) /\ Len(stack[t]) = 0
    BY <1>2, <1>3 DEF TypeOK, Stacks, Others
  <1>5. /\ \A u \in Threads \ {t} : ret'[u] = ret[u] /\ pending'[u] = pending[u]
        /\ ret'[t] = "none" /\ ret' \in [Threads -> Outcome] /\ pending' \in [Threads -> BOOLEAN]
    BY DEF InitializeClass, TypeOK, Outcome
  <1>6. calls' \in [Threads -> 0..MaxCalls]
    <2>1. calls[t] - 1 \in 0..MaxCalls
      BY DEF InitializeClass, TypeOK, ClassAssumption
    <2> QED BY <2>1 DEF InitializeClass, TypeOK
  <1>7. Sound(state', stack'[t], ret'[t])
    BY <1>2, <1>4, <1>5 DEF Sound
  <1>8. FrameInv' /\ LinkInv' /\ ReturnInv'
    BY <1>1, <1>4, <1>5, <1>7, OthersSound DEF Around, Lasting
  <1>9. OwnerInv'
    <2>1. Outlives(stack[t], 1, stack'[t], 1)
      BY <1>4 DEF Outlives
    <2>2. \A d \in Classes : state'[d] = "INITIALIZING" => state[d] = "INITIALIZING"
      BY <1>1
    <2>3. TypeOK /\ OwnerInv /\ stack' \in Stacks /\ Others(t) /\ initTid' = initTid
      BY <1>1, <1>4
    <2> HIDE DEF Inv
    <2> QED BY <2>1, <2>2, <2>3, OwnerKept
  <1>10. ActiveInv' /\ UniqueInv' /\ FreshInv'
    <2>1. Came(stack[t], stack'[t], 0)
      BY <1>2, <1>4 DEF Came
    <2>2. stack'[t] # <<>>
      BY <1>4
    <2> QED BY <1>1, <1>4, <2>1, <2>2, QuietOwnership
  <1>11. FailureThrows'
    BY <1>5 DEF FailureThrows
  <1>12. StackInv'
    BY <1>8, <1>9, <1>10 DEF StackInv
  <1> QED BY <1>1, <1>4, <1>5, <1>6, <1>11, <1>12, QuietInv DEF TypeOK

(* The part about dependencies of a step that moves the innermost           *)
(* activation on and may begin with a class                                 *)
LEMMA MoveDependencies ==
  ASSUME ClassAssumption, Inv, ~aborted, NEW t \in Threads, stack' \in Stacks, Others(t),
         ret' = ret, Lasting(state, state'), Moved(stack[t], stack'[t]),
         Good(state', stack'[t], stack[t][1], 1) => Good(state', stack'[t], stack'[t][1], 1),
         stack'[t][1].pc \notin {"baseRet", "ifaceRet", "initRet"}
  PROVE  FrameInv' /\ LinkInv' /\ ReturnInv'
  <1>1. stack[t] \in Seq(Frame) /\ stack'[t] \in Seq(Frame) /\ stack[t] # <<>>
    BY DEF Inv, TypeOK, Stacks, Moved
  <1>2. Good(state', stack'[t], stack'[t][1], 1)
    BY <1>1, TopGood DEF Inv
  <1>3. Sound(state, stack[t], ret[t])
    BY AllSound DEF Inv
  <1>4. Sound(state', stack'[t], ret'[t])
    BY <1>1, <1>2, <1>3, MoveSound
  <1> QED BY <1>4, OthersSound DEF Inv, Around

LEMMA InvokeCctorStep ==
  ASSUME ClassAssumption, Inv, ~aborted, NEW t \in Threads, InvokeCctor(t)
  PROVE  Inv'
  <1> USE DEF Inv
  <1> DEFINE f == stack[t][1]
             g == [f EXCEPT !.pc = "run"]
             c == f.cls
  <1>1. /\ Top(t) = f /\ c \in Classes /\ stack[t] # <<>> /\ f \in Frame /\ stack \in Stacks
        /\ f.kind = "init" /\ f.pc = "cctor" /\ 1 \in 1..Len(stack[t]) /\ stack[t] \in Seq(Frame)
    BY Innermost DEF InvokeCctor, At
  <1>2. UNCHANGED <<state, initTid, waiting, ret, pending, calls, aborted, spoiled>> /\ Goto(t, "run")
    BY DEF InvokeCctor
  <1>3. ran' = [ran EXCEPT ![c] = @ + 1]
    BY <1>1 DEF InvokeCctor
  <1>4. Keeps(f, g) /\ ~Early(g) /\ g.pc = "run" /\ Active(f)
    BY <1>1, PcFields DEF Keeps, Same, Active, Early, Pcs
  <1>5. stack' \in Stacks /\ Others(t) /\ stack'[t][1] = g /\ Moved(stack[t], stack'[t])
    BY <1>1, <1>2, <1>4, GotoShape DEF Keeps, Pcs
  <1>6. Good(state', stack'[t], f, 1) => Good(state', stack'[t], g, 1)
    BY <1>1, PcFields DEF Good, Pcs
  <1>7. Lasting(state, state')
    BY <1>2 DEF Lasting
  <1>8. FrameInv' /\ LinkInv' /\ ReturnInv'
    BY <1>2, <1>4, <1>5, <1>6, <1>7, MoveDependencies
  <1>9. OwnerInv'
    <2>1. Outlives(stack[t], 1, stack'[t], 1)
      BY <1>1, <1>5, Survivors DEF Stacks
    <2> QED BY <1>2, <1>5, <2>1, OwnerKept
  <1>10. ran[c] = 0 /\ state[c] \notin Untouched
    <2>1. Early(f)
      BY <1>1 DEF Early
    <2>2. ActiveInv
      OBVIOUS
    <2>3. Early(f) => ran[f.cls] = 0
      BY <1>1, <1>4, <2>2, ActiveOwns
    <2>4. state[f.cls] \notin Untouched
      BY <1>1, <1>4, <2>2, ActiveOwns
    <2> QED BY <2>1, <2>3, <2>4
  <1>11. ran' \in [Classes -> Nat] /\ ran'[c] = 1 /\ \A d \in Classes \ {c} : ran'[d] = ran[d]
    BY <1>1, <1>3, <1>10 DEF TypeOK
  <1>12. FreshInv' /\ CctorRunsOnce'
    <2>1. \A d \in Classes : d = c \/ ran'[d] = ran[d]
      BY <1>11
    <2>2. FreshInv /\ CctorRunsOnce
      OBVIOUS
    <2> HIDE DEF Inv, c, f
    <2>3. FreshInv'
      BY <1>2, <1>10, <2>1, <2>2 DEF FreshInv
    <2>4. CctorRunsOnce'
      <3>1. ran'[c] = 1
        BY <1>11
      <3> QED BY <2>1, <2>2, <3>1 DEF CctorRunsOnce
    <2> QED BY <2>3, <2>4
  <1>13. ASSUME NEW u \in Threads, NEW n \in 1..Len(stack'[u]), Active(stack'[u][n])
         PROVE  /\ n \in 1..Len(stack[u]) /\ Active(stack[u][n])
                /\ stack[u][n].cls = stack'[u][n].cls /\ stack'[u][n].cls \in Classes
                /\ Early(stack'[u][n]) => Early(stack[u][n]) /\ stack'[u][n].cls # c
    <2>1. stack'[u][n].cls \in Classes
      BY <1>5, FrameClass
    <2>2. CASE u = t
      <3>1. CASE n = 1
        BY <1>1, <1>4, <1>5, <1>13, <2>1, <2>2, <3>1 DEF Keeps, Same
      <3>2. CASE n # 1
        <4>1. n \in 1..Len(stack[u]) /\ stack'[u][n] = stack[u][n]
          BY <1>5, <2>2, <3>2 DEF Moved
        <4>2. stack[u][n].cls # c
          BY <1>1, <1>4, <1>13, <2>2, <3>2, <4>1, OneActive, ZenonT(40)
        <4> QED BY <1>13, <2>1, <4>1, <4>2
      <3> QED BY <3>1, <3>2
    <2>3. CASE u # t
      <3>1. n \in 1..Len(stack[u]) /\ stack'[u][n] = stack[u][n]
        BY <1>5, <2>3 DEF Others
      <3>2. stack[u][n].cls # c
        BY <1>1, <1>4, <1>13, <2>3, <3>1, OneActive
      <3> QED BY <1>13, <2>1, <3>1, <3>2
    <2> QED BY <2>2, <2>3
  <1>14. ActiveInv'
    <2>1. SUFFICES ASSUME NEW u \in Threads, NEW n \in 1..Len(stack'[u]), Active(stack'[u][n])
                   PROVE  /\ state[stack'[u][n].cls] \notin Untouched
                          /\ Early(stack'[u][n]) => ran'[stack'[u][n].cls] = 0
                          /\ stack'[u][n].cls \notin spoiled =>
                               /\ state[stack'[u][n].cls] = "INITIALIZING"
                               /\ initTid[stack'[u][n].cls] = u
      BY <1>2 DEF ActiveInv
    <2>2. /\ n \in 1..Len(stack[u]) /\ Active(stack[u][n])
          /\ stack[u][n].cls = stack'[u][n].cls /\ stack'[u][n].cls \in Classes
          /\ Early(stack'[u][n]) => Early(stack[u][n]) /\ stack'[u][n].cls # c
      BY <1>13, <2>1
    <2> QED BY <1>11, <2>2, ActiveOwns
  <1>15. UniqueInv'
    BY <1>13 DEF UniqueInv
  <1>16. TypeOK' /\ AbortsOnlyAfterSpoiling' /\ FailureThrows'
    BY <1>2, <1>5, <1>11 DEF TypeOK, Stacks, AbortsOnlyAfterSpoiling, FailureThrows
  <1> QED BY <1>8, <1>9, <1>12, <1>14, <1>15, <1>16

LEMMA BecomeInitializerStep ==
  ASSUME ClassAssumption, Inv, ~aborted, NEW t \in Threads, BecomeInitializer(t)
  PROVE  Inv'
  <1> DEFINE f == stack[t][1]
             g == [f EXCEPT !.pc = "base"]
             c == f.cls
  <1>1. /\ Top(t) = f /\ c \in Classes /\ stack[t] # <<>> /\ f \in Frame /\ stack \in Stacks
        /\ f.kind = "init" /\ f.pc = "lock" /\ 1 \in 1..Len(stack[t]) /\ stack[t] \in Seq(Frame)
    BY Innermost DEF BecomeInitializer, At, Inv
  <1>2. UNCHANGED <<waiting, ret, pending, calls, ran, spoiled>> /\ Goto(t, "base")
    BY DEF BecomeInitializer
  <1>3. state[c] \in Untouched
    BY <1>1, Ordered DEF BecomeInitializer, Inv
  <1>4. state' = [state EXCEPT ![c] = "INITIALIZING"] /\ aborted' = aborted
    <2>1. SetState(c, "INITIALIZING")
      BY <1>1 DEF BecomeInitializer
    <2>2. ~(state[c] = "ERRONEOUS" \/ StateNo["INITIALIZING"] <= StateNo[state[c]])
      BY <1>3, StateOrder DEF Untouched
    <2> QED BY <2>1, <2>2 DEF SetState
  <1>5. /\ state' \in [Classes -> States] /\ state'[c] = "INITIALIZING"
        /\ \A d \in Classes : d = c \/ state'[d] = state[d]
    BY <1>1, <1>4, StateOrder DEF Inv, TypeOK
  <1>6. /\ initTid' \in [Classes -> Threads \cup {NoThread}] /\ initTid'[c] = t
        /\ \A d \in Classes : d = c \/ initTid'[d] = initTid[d]
    BY <1>1 DEF BecomeInitializer, Inv, TypeOK
  <1>7. Same(f, g) /\ g.pc = "base" /\ g.cls = c /\ Active(g) /\ ~Active(f)
    BY <1>1, PcFields DEF Same, Active, Pcs
  <1>8. stack' \in Stacks /\ Others(t) /\ stack'[t][1] = g /\ Moved(stack[t], stack'[t])
    BY <1>1, <1>2, <1>7, GotoShape DEF Pcs
  <1>9. Lasting(state, state')
    BY <1>3, <1>5 DEF Lasting, Untouched
  <1>10. Good(state', stack'[t], f, 1) => Good(state', stack'[t], g, 1)
    BY <1>1, PcFields DEF Good, Pcs
  <1>11. FrameInv' /\ LinkInv' /\ ReturnInv'
    BY <1>2, <1>7, <1>8, <1>9, <1>10, MoveDependencies
  <1>12. ran[c] = 0
    BY <1>1, <1>3 DEF Inv, FreshInv
  <1>13. /\ 1 \in 1..Len(stack'[t]) /\ stack'[t][1].cls = c /\ Active(stack'[t][1])
         /\ stack'[t] \in Seq(Frame)
    BY <1>1, <1>7, <1>8 DEF Moved, Stacks
  <1> HIDE DEF f, g, c
  (* every other initializer was there, with another class *)
  <1>14. ASSUME NEW u \in Threads, NEW n \in 1..Len(stack'[u]), Active(stack'[u][n]),
                ~(u = t /\ n = 1)
         PROVE  /\ n \in 1..Len(stack[u]) /\ stack'[u][n] = stack[u][n]
                /\ stack[u][n].cls \in Classes /\ stack[u][n].cls # c
    <2>1. n \in 1..Len(stack[u]) /\ stack'[u][n] = stack[u][n]
      <3>1. CASE u = t
        BY <1>8, <1>14, <3>1 DEF Moved
      <3>2. CASE u # t
        BY <1>8, <3>2 DEF Others
      <3> QED BY <3>1, <3>2
    <2>2. stack[u][n].cls \in Classes
      BY <1>1, <2>1, FrameClass
    <2>3. ActiveInv
      BY DEF Inv
    <2>4. state[stack[u][n].cls] \notin Untouched
      BY <1>14, <2>1, <2>3, ActiveOwns
    <2> QED BY <1>3, <2>1, <2>2, <2>4
  <1>15. ActiveInv'
    <2>1. SUFFICES ASSUME NEW u \in Threads, NEW n \in 1..Len(stack'[u]), Active(stack'[u][n])
                   PROVE  /\ state'[stack'[u][n].cls] \notin Untouched
                          /\ Early(stack'[u][n]) => ran'[stack'[u][n].cls] = 0
                          /\ stack'[u][n].cls \notin spoiled' =>
                               /\ state'[stack'[u][n].cls] = "INITIALIZING"
                               /\ initTid'[stack'[u][n].cls] = u
      BY DEF ActiveInv
    <2>2. CASE u = t /\ n = 1
      BY <1>2, <1>5, <1>6, <1>12, <1>13, <2>2 DEF Untouched
    <2>3. CASE ~(u = t /\ n = 1)
      <3>1. /\ n \in 1..Len(stack[u]) /\ stack'[u][n] = stack[u][n]
            /\ stack[u][n].cls \in Classes /\ stack[u][n].cls # c
        BY <1>14, <2>1, <2>3
      <3>2. ActiveInv
        BY DEF Inv
      <3>3. /\ state[stack[u][n].cls] \notin Untouched
            /\ Early(stack[u][n]) => ran[stack[u][n].cls] = 0
            /\ stack[u][n].cls \notin spoiled =>
                 state[stack[u][n].cls] = "INITIALIZING" /\ initTid[stack[u][n].cls] = u
        BY <2>1, <3>1, <3>2, ActiveOwns
      <3> QED BY <1>2, <1>5, <1>6, <3>1, <3>3
    <2> QED BY <2>2, <2>3
  <1>16. UniqueInv'
    <2>1. SUFFICES ASSUME NEW u \in Threads, NEW v \in Threads,
                          NEW m \in 1..Len(stack'[u]), NEW n \in 1..Len(stack'[v]),
                          Active(stack'[u][m]), Active(stack'[v][n]),
                          stack'[u][m].cls = stack'[v][n].cls
                   PROVE  u = v /\ m = n
      BY DEF UniqueInv
    <2>2. CASE u = t /\ m = 1
      <3>1. stack'[v][n].cls = c
        BY <1>13, <2>1, <2>2
      <3>2. v = t /\ n = 1
        BY <1>14, <2>1, <3>1
      <3> QED BY <2>2, <3>2
    <2>3. CASE v = t /\ n = 1
      <3>1. stack'[u][m].cls = c
        BY <1>13, <2>1, <2>3
      <3>2. u = t /\ m = 1
        BY <1>14, <2>1, <3>1
      <3> QED BY <2>3, <3>2
    <2>4. CASE ~(u = t /\ m = 1) /\ ~(v = t /\ n = 1)
      <3>1. /\ m \in 1..Len(stack[u]) /\ stack'[u][m] = stack[u][m]
            /\ n \in 1..Len(stack[v]) /\ stack'[v][n] = stack[v][n]
        BY <1>14, <2>1, <2>4
      <3> QED BY <2>1, <3>1 DEF Inv, UniqueInv
    <2> QED BY <2>2, <2>3, <2>4
  <1>17. FreshInv'
    BY <1>2, <1>5 DEF Inv, FreshInv, Untouched
  <1>18. OwnerInv'
    <2>1. SUFFICES ASSUME NEW d \in Classes, NEW u \in Threads,
                          state'[d] = "INITIALIZING", initTid'[d] = u
                   PROVE  \E n \in 1..Len(stack'[u]) : Active(stack'[u][n]) /\ stack'[u][n].cls = d
      BY DEF OwnerInv
    <2>2. CASE d = c
      BY <1>6, <1>13, <2>1, <2>2
    <2>3. CASE d # c
      <3>1. PICK n \in 1..Len(stack[u]) : Active(stack[u][n]) /\ stack[u][n].cls = d
        <4>1. state[d] = "INITIALIZING" /\ initTid[d] = u
          BY <1>5, <1>6, <2>1, <2>3
        <4>2. OwnerInv
          BY DEF Inv
        <4> QED BY <4>1, <4>2 DEF OwnerInv
      <3>2. n \in 1..Len(stack'[u]) /\ stack'[u][n] = stack[u][n]
        <4>1. CASE u = t
          <5>1. n # 1
            BY <1>7, <3>1, <4>1 DEF f
          <5> QED BY <1>8, <4>1, <5>1 DEF Moved
        <4>2. CASE u # t
          BY <1>8, <4>2 DEF Others
        <4> QED BY <4>1, <4>2
      <3> QED BY <3>1, <3>2
    <2> QED BY <2>2, <2>3
  <1>19. TypeOK'
    BY <1>2, <1>4, <1>5, <1>6, <1>8 DEF Inv, TypeOK, Stacks
  <1>20. CctorRunsOnce' /\ AbortsOnlyAfterSpoiling' /\ FailureThrows'
    BY <1>2, <1>4 DEF Inv, CctorRunsOnce, AbortsOnlyAfterSpoiling, FailureThrows
  <1> QED BY <1>11, <1>15, <1>16, <1>17, <1>18, <1>19, <1>20 DEF Inv

-------------------------------------------------------------------------------
(* The invariant and what follows from it *)

LEMMA InitInv ==
  ASSUME ClassAssumption, Init
  PROVE  Inv
  <1>1. \A t \in Threads : stack[t] = <<>> /\ Len(stack[t]) = 0
    BY DEF Init
  <1>2. TypeOK
    <2>1. /\ state \in [Classes -> States] /\ initTid \in [Classes -> Threads \cup {NoThread}]
          /\ waiting \in [Classes -> SUBSET Threads] /\ ran \in [Classes -> Nat]
      BY StateOrder DEF Init
    <2>2. stack \in [Threads -> Seq(Frame)] /\ ret \in [Threads -> Outcome]
      BY DEF Init, Outcome
    <2>3. pending \in [Threads -> BOOLEAN] /\ aborted \in BOOLEAN /\ spoiled \subseteq Classes
      BY DEF Init
    <2>4. calls \in [Threads -> 0..MaxCalls]
      <3>1. MaxCalls \in 0..MaxCalls
        BY DEF ClassAssumption
      <3> QED BY <3>1 DEF Init
    <2> QED BY <2>1, <2>2, <2>3, <2>4 DEF TypeOK
  <1>3. ActiveInv /\ UniqueInv /\ FrameInv /\ LinkInv /\ ReturnInv
    BY <1>1 DEF ActiveInv, UniqueInv, FrameInv, LinkInv, ReturnInv
  <1>4. FreshInv /\ OwnerInv /\ CctorRunsOnce /\ AbortsOnlyAfterSpoiling /\ FailureThrows
    BY DEF Init, FreshInv, OwnerInv, CctorRunsOnce, AbortsOnlyAfterSpoiling, FailureThrows
  <1> QED BY <1>2, <1>3, <1>4 DEF Inv

LEMMA NextInv ==
  ASSUME ClassAssumption, Inv, [Next]_vars
  PROVE  Inv'
  <1>1. ASSUME NEW t \in Threads, Step(t)
        PROVE  Inv'
    <2>1. ~aborted
      BY <1>1 DEF Step
    <2> QED BY <1>1, <2>1, WaitingSteps, CheckStep, FoundDoneStep, VerifyFailsStep,
               BecomeInitializerStep, AfterWaitStep, InitializeBaseStep, BaseReturnedStep,
               NextInterfaceStep, InterfaceReturnedStep, InterfaceInitializedStep,
               InvokeCctorStep, CctorUsedStep, CctorEndsStep, CctorUsesStep, FinishStep DEF Step
  <1>2. ASSUME NEW t \in Threads, ~aborted, Interrupt(t)
        PROVE  Inv'
    BY <1>2, WaitingSteps
  <1>3. ASSUME NEW t \in Threads, NEW c \in Entries, NEW stale \in BOOLEAN, ~aborted,
               InitializeClass(t, c, stale)
        PROVE  Inv'
    <2>1. c \in Classes
      BY DEF ClassAssumption
    <2> QED BY <1>3, <2>1, InitializeClassStep
  <1>4. CASE UNCHANGED vars
    <2>1. UNCHANGED <<state, initTid, waiting, stack, ret, pending, calls, aborted, ran, spoiled>>
      BY <1>4 DEF vars
    <2>2. ActiveInv' /\ UniqueInv' /\ FreshInv'
      BY <2>1 DEF Inv, ActiveInv, UniqueInv, FreshInv
    <2>3. OwnerInv' /\ FrameInv' /\ LinkInv' /\ ReturnInv'
      BY <2>1 DEF Inv, OwnerInv, FrameInv, LinkInv, ReturnInv
    <2>4. TypeOK' /\ CctorRunsOnce' /\ AbortsOnlyAfterSpoiling' /\ FailureThrows'
      BY <2>1 DEF Inv, TypeOK, CctorRunsOnce, AbortsOnlyAfterSpoiling, FailureThrows
    <2> QED BY <2>2, <2>3, <2>4 DEF Inv
  <1> QED BY <1>1, <1>2, <1>3, <1>4 DEF Next

(* Every reachable state of Initialize, InitializeInterface and the cctors  *)
(* they run satisfies the inductive invariant.                              *)
THEOREM Invariance == Spec => []Inv
  <1>1. Init => Inv
    BY InitInv, ClassAssumption
  <1>2. Inv /\ [Next]_vars => Inv'
    BY NextInv, ClassAssumption
  <1> QED BY <1>1, <1>2, PTL DEF Spec

(* The variables of ClassInitializer keep their types: the stacks hold      *)
(* activations, the states are those of Class::State.                       *)
THEOREM TypeCorrectness == Spec => []TypeOK
  <1>1. Inv => TypeOK
    BY DEF Inv
  <1> QED BY <1>1, Invariance, PTL

(* However many threads ask for a class, fail, or come back to it from      *)
(* their own cctors, its cctor is started at most once: the second test of  *)
(* state_ under the lock and init_tid_ admit one initializer.               *)
THEOREM AtMostOneRun == Spec => []CctorRunsOnce
  <1>1. Inv => CctorRunsOnce
    BY DEF Inv
  <1> QED BY <1>1, Invariance, PTL

(* Class::SetState reaches its FATAL only after a thread that waited with   *)
(* an exception of its own pending marked a class erroneous.                *)
THEOREM AbortNeedsSpoiling == Spec => []AbortsOnlyAfterSpoiling
  <1>1. Inv => AbortsOnlyAfterSpoiling
    BY DEF Inv
  <1> QED BY <1>1, Invariance, PTL

(* Whoever gets false from Initialize or InitializeInterface has an         *)
(* exception pending, as the interpreter asserts.                           *)
THEOREM FalseMeansThrown == Spec => []FailureThrows
  <1>1. Inv => FailureThrows
    BY DEF Inv
  <1> QED BY <1>1, Invariance, PTL

(* An activation in the middle of Initialize owns its class until it ends   *)
(* it itself, unless a thread that waited spoiled the class.                *)
THEOREM Ownerships == Spec => []InitializerOwnsClass
  <1>1. Inv => InitializerOwnsClass
    BY DEF Inv, ActiveInv, Active, InitializerOwnsClass
  <1> QED BY <1>1, Invariance, PTL

(* While the cctor of a class runs, its base class and the interfaces       *)
(* Initialize answers for are initialized or are being initialized by the   *)
(* same thread, for any hierarchy and any way the cctors use each other.    *)
THEOREM BasesBeforeCctor == Spec => []DependenciesFirst
  <1>1. ASSUME Inv
        PROVE  DependenciesFirst
    <2>1. SUFFICES ASSUME NEW t \in Threads, NEW n \in 1..Len(stack[t]),
                          stack[t][n].kind = "init", stack[t][n].pc \in {"run", "useRet", "final"},
                          stack[t][n].cls \notin Interfaces, spoiled = {}
                   PROVE  /\ Base[stack[t][n].cls] # NoClass => Usable(Base[stack[t][n].cls], t)
                          /\ InterfacesReady(stack[t][n].cls, t)
      BY DEF DependenciesFirst
    <2>2. ActiveInv /\ Good(state, stack[t], stack[t][n], n)
      BY <1>1 DEF Inv, FrameInv
    <2>3. stack[t][n].cls \in Classes
      BY <1>1, FrameClass DEF Inv, TypeOK, Stacks
    <2> DEFINE c == stack[t][n].cls
    <2>4. ASSUME NEW d, Settled(state, stack[t], d, n)
          PROVE  Usable(d, t)
      <3>1. CASE state[d] = "INITIALIZED"
        BY <3>1 DEF Usable
      <3>2. ASSUME NEW m \in 1..Len(stack[t]), Active(stack[t][m]), stack[t][m].cls = d
            PROVE  Usable(d, t)
        <4>1. stack[t][m].cls \notin spoiled
          BY <2>1
        <4>2. state[stack[t][m].cls] = "INITIALIZING" /\ initTid[stack[t][m].cls] = t
          BY <2>2, <3>2, <4>1, ActiveOwns
        <4> QED BY <3>2, <4>2 DEF Usable
      <3> QED BY <2>4, <3>1, <3>2 DEF Settled
    <2>5. Base[c] # NoClass => Usable(Base[c], t)
      BY <2>1, <2>2, <2>4 DEF Good
    <2>6. InterfacesReady(c, t)
      <3> DEFINE S == {j \in Interfaces : IfaceSettled(state, stack[t], j, n)}
      <3>1. Closed(state, stack[t], S, n)
        BY ClassAssumption, SettledClosed
      <3>2. \A x \in 1..Len(IfacesOf[c]) : IfacesOf[c][x] \in Interfaces
        BY ClassAssumption, <2>3 DEF ClassAssumption
      <3>3. \A x \in 1..Len(IfacesOf[c]) : IfaceSettled(state, stack[t], IfacesOf[c][x], n)
        BY <2>1, <2>2 DEF Good
      <3>4. \A x \in 1..Len(IfacesOf[c]) : IfacesOf[c][x] \in S
        BY <3>2, <3>3
      <3>5. S \in SUBSET Interfaces
        OBVIOUS
      <3> HIDE DEF S
      <3>6. \A i \in S : \/ Usable(i, t)
                         \/ /\ i \notin DefaultMethods
                            /\ \A x \in 1..Len(IfacesOf[i]) : IfacesOf[i][x] \in S
        BY <2>4, <3>1 DEF Closed
      <3> QED BY <3>4, <3>5, <3>6 DEF InterfacesReady
    <2> QED BY <2>5, <2>6
  <1> QED BY <1>1, Invariance, PTL
===============================================================================
