--------------------------- MODULE ClassInitializer ---------------------------
(***************************************************************************)
(* Initialization of classes (runtime/class_initializer.cpp): the          *)
(* recursive Initialize and InitializeInterface of several threads over    *)
(* one class hierarchy, with the class initializers (cctors) they run.     *)
(*                                                                         *)
(* A class keeps its state and the thread that initializes it; both are    *)
(* written only with the monitor of the class object held (ObjectLock).    *)
(* Nothing blocks inside such a section but Wait, which leaves it, and the *)
(* reads outside it only ask for INITIALIZED: a section is one step here.  *)
(* What a cctor does is managed code: it may use other classes, catch the  *)
(* failure of such a use, throw, or end.                                   *)
(*                                                                         *)
(* A frame of a thread's stack is one activation of Initialize ("init") or *)
(* of InitializeInterface ("iface"); pc is where it stands, k the index of *)
(* the interface it is at, uses the classes its cctor may still touch.     *)
(***************************************************************************)
EXTENDS Naturals, Sequences, FiniteSets

CONSTANTS
  Threads,
  Classes,
  Interfaces,     \* the classes for which IsInterface holds
  DefaultMethods, \* the interfaces for which HasDefaultMethods holds
  Base,           \* GetBase, NoClass for nullptr
  IfacesOf,       \* GetInterfaces, a sequence per class
  Uses,           \* the classes a cctor may touch
  Unverifiable,   \* the classes whose verification may fail
  StaleThreads,   \* the threads that may call with an exception pending
  Entries,        \* bound: the classes InitializeClass is called for
  MaxCalls,       \* bound: calls of InitializeClass per thread
  NoClass,
  NoThread

ASSUME ClassAssumption ==
  /\ Interfaces \subseteq Classes
  /\ DefaultMethods \subseteq Interfaces
  /\ Base \in [Classes -> (Classes \ Interfaces) \cup {NoClass}]
  /\ IfacesOf \in [Classes -> Seq(Interfaces)]
  /\ Entries \subseteq Classes
  /\ Uses \in [Classes -> SUBSET Classes]
  /\ MaxCalls \in Nat
  /\ NoClass \notin Classes /\ NoThread \notin Threads

VARIABLES
  state,    \* Class::state_
  initTid,  \* Class::init_tid_
  waiting,  \* the threads asleep in the monitor of each class object
  stack,    \* the activations of each thread, the innermost first
  ret,      \* what the activation that returned last gave its caller
  pending,  \* whether a thread has a pending exception
  calls,    \* calls each thread has still to make
  aborted,  \* LOG(FATAL) was reached
  ran,      \* history: how often the cctor of a class was started
  spoiled   \* history: classes marked erroneous by a thread that waited

vars == <<state, initTid, waiting, stack, ret, pending, calls, aborted, ran, spoiled>>

(* The order of the enumeration Class::State *)
StateNo ==
  [INITIAL |-> 0, LOADED |-> 1, VERIFIED |-> 2, INITIALIZING |-> 3, ERRONEOUS |-> 4, INITIALIZED |-> 5]
States == DOMAIN StateNo

Outcome == {"none", "true", "false"}

Frame == [kind : {"init", "iface"}, cls : Classes, k : Nat, uses : SUBSET Classes,
          pc : {"check", "lock", "wait", "woken", "base", "baseRet", "ifaces", "ifaceRet",
                "cctor", "run", "useRet", "final", "initRet"}]

NewFrame(kind, c, pc) == [kind |-> kind, cls |-> c, k |-> 1, uses |-> Uses[c], pc |-> pc]

Init ==
  /\ state = [c \in Classes |-> "LOADED"]
  /\ initTid = [c \in Classes |-> NoThread]
  /\ waiting = [c \in Classes |-> {}]
  /\ stack = [t \in Threads |-> <<>>]
  /\ ret = [t \in Threads |-> "none"]
  /\ pending = [t \in Threads |-> FALSE]
  /\ calls = [t \in Threads |-> MaxCalls]
  /\ aborted = FALSE
  /\ ran = [c \in Classes |-> 0]
  /\ spoiled = {}

-------------------------------------------------------------------------------
(* Steps of one activation *)

Top(t) == Head(stack[t])
At(t, kind, pc) == stack[t] # <<>> /\ Top(t).kind = kind /\ Top(t).pc = pc

Goto(t, pc) == stack' = [stack EXCEPT ![t][1].pc = pc]
Call(t, pc, frame) ==
  /\ stack' = [stack EXCEPT ![t] = <<frame, [Top(t) EXCEPT !.pc = pc]>> \o Tail(@)]
  /\ ret' = [ret EXCEPT ![t] = "none"]
Return(t, result) ==
  /\ stack' = [stack EXCEPT ![t] = Tail(@)]
  /\ ret' = [ret EXCEPT ![t] = result]

Throw(t) == pending' = [pending EXCEPT ![t] = TRUE]

(* Class::SetState: an invalid transition stops the runtime *)
SetState(c, s) ==
  IF state[c] = "ERRONEOUS" \/ StateNo[s] <= StateNo[state[c]]
    THEN aborted' = TRUE /\ UNCHANGED state
    ELSE state' = [state EXCEPT ![c] = s] /\ UNCHANGED aborted

(* ObjectLock::Wait and ObjectLock::NotifyAll; a thread that NotifyAll or  *)
(* an interruption takes out of the wait set runs on at "woken".           *)
Wait(t, c) ==
  /\ waiting' = [waiting EXCEPT ![c] = @ \cup {t}]
  /\ Goto(t, "wait")
NotifyAll(c) == waiting' = [waiting EXCEPT ![c] = {}]

Wake(t) ==
  /\ At(t, "init", "wait")
  /\ t \notin waiting[Top(t).cls]
  /\ Goto(t, "woken")
  /\ UNCHANGED <<state, initTid, waiting, ret, pending, calls, aborted, ran, spoiled>>

(* ClassLinker::InitializeClass, called by the interpreter *)
InitializeClass(t, c, stale) ==
  /\ stack[t] = <<>> /\ calls[t] > 0
  /\ stale => t \in StaleThreads
  /\ calls' = [calls EXCEPT ![t] = @ - 1]
  /\ pending' = [pending EXCEPT ![t] = stale]
  /\ stack' = [stack EXCEPT ![t] = <<NewFrame("init", c, "check")>>]
  /\ ret' = [ret EXCEPT ![t] = "none"]
  /\ UNCHANGED <<state, initTid, waiting, aborted, ran, spoiled>>

(* The unlocked test at the head of Initialize *)
CheckInitialized(t) ==
  /\ At(t, "init", "check")
  /\ IF state[Top(t).cls] = "INITIALIZED"
       THEN Return(t, "true")
       ELSE Goto(t, "lock") /\ UNCHANGED ret
  /\ UNCHANGED <<state, initTid, waiting, pending, calls, aborted, ran, spoiled>>

(* The first locked section, one action per way out of it *)
FoundDone(t) ==
  LET c == Top(t).cls IN
  /\ At(t, "init", "lock")
  /\ \/ state[c] = "INITIALIZED" /\ Return(t, "true") /\ UNCHANGED pending
     \/ state[c] = "ERRONEOUS" /\ Return(t, "false") /\ Throw(t)
     \/ state[c] = "INITIALIZING" /\ initTid[c] = t /\ Return(t, "true") /\ UNCHANGED pending
  /\ UNCHANGED <<state, initTid, waiting, calls, aborted, ran, spoiled>>

VerifyFails(t) ==
  LET c == Top(t).cls IN
  /\ At(t, "init", "lock")
  /\ StateNo[state[c]] < StateNo["VERIFIED"] /\ c \in Unverifiable
  /\ SetState(c, "ERRONEOUS")
  /\ Throw(t)
  /\ Return(t, "false")
  /\ UNCHANGED <<initTid, waiting, calls, ran, spoiled>>

WaitForInitializer(t) ==
  LET c == Top(t).cls IN
  /\ At(t, "init", "lock")
  /\ state[c] = "INITIALIZING" /\ initTid[c] # t
  /\ Wait(t, c)
  /\ UNCHANGED <<state, initTid, ret, pending, calls, aborted, ran, spoiled>>

(* Mutant: the lock is taken, but the state is not looked at again before SetState *)
BecomeInitializerUnchecked(t) ==
  LET c == Top(t).cls IN
  /\ At(t, "init", "lock")
  /\ initTid' = [initTid EXCEPT ![c] = t]
  /\ SetState(c, "INITIALIZING")
  /\ Goto(t, "base")
  /\ UNCHANGED <<waiting, ret, pending, calls, ran, spoiled>>

(* Verification, if it is still due, passes in the same section;            *)
(* InitializeFields gives the static fields their values and returns true.  *)
BecomeInitializer(t) ==
  LET c == Top(t).cls IN
  /\ At(t, "init", "lock")
  /\ StateNo[state[c]] < StateNo["INITIALIZING"]
  /\ initTid' = [initTid EXCEPT ![c] = t]
  /\ SetState(c, "INITIALIZING")
  /\ Goto(t, "base")
  /\ UNCHANGED <<waiting, ret, pending, calls, ran, spoiled>>

(* Mutant: a woken thread finds the class erroneous and forgets to throw *)
AfterWaitNoThrow(t) ==
  LET c == Top(t).cls IN
  /\ At(t, "init", "woken") /\ ~pending[t]
  /\ \/ state[c] = "INITIALIZING" /\ Wait(t, c) /\ UNCHANGED ret
     \/ state[c] = "ERRONEOUS" /\ Return(t, "false") /\ UNCHANGED waiting
     \/ state[c] = "INITIALIZED" /\ Return(t, "true") /\ UNCHANGED waiting
  /\ UNCHANGED <<state, initTid, pending, calls, aborted, ran, spoiled>>

(* The loop around lock.Wait *)
AfterWait(t) ==
  LET c == Top(t).cls IN
  /\ At(t, "init", "woken")
  /\ \/ /\ pending[t]
        /\ SetState(c, "ERRONEOUS")
        /\ spoiled' = spoiled \cup {c}
        /\ Return(t, "false")
        /\ UNCHANGED <<waiting, pending>>
     \/ /\ ~pending[t] /\ state[c] = "INITIALIZING"
        /\ Wait(t, c)
        /\ UNCHANGED <<state, aborted, spoiled, ret, pending>>
     \/ /\ ~pending[t] /\ state[c] = "ERRONEOUS"
        /\ Throw(t)
        /\ Return(t, "false")
        /\ UNCHANGED <<state, aborted, spoiled, waiting>>
     \/ /\ ~pending[t] /\ state[c] = "INITIALIZED"
        /\ Return(t, "true")
        /\ UNCHANGED <<state, aborted, spoiled, waiting, pending>>
  /\ UNCHANGED <<initTid, calls, ran>>

(* Mutant: the waiters are not told that a dependency failed *)
DependencyFailedSilently(t) ==
  LET c == Top(t).cls IN
  /\ SetState(c, "ERRONEOUS")
  /\ Return(t, "false")
  /\ UNCHANGED <<waiting, initTid, pending, calls, ran, spoiled>>

(* A base class or an interface could not be initialized *)
DependencyFailed(t) ==
  LET c == Top(t).cls IN
  /\ SetState(c, "ERRONEOUS")
  /\ NotifyAll(c)
  /\ Return(t, "false")
  /\ UNCHANGED <<initTid, pending, calls, ran, spoiled>>

InitializeBase(t) ==
  LET c == Top(t).cls IN
  /\ At(t, "init", "base")
  /\ IF c \in Interfaces
       THEN Goto(t, "cctor") /\ UNCHANGED ret
       ELSE IF Base[c] = NoClass
         THEN Goto(t, "ifaces") /\ UNCHANGED ret
         ELSE Call(t, "baseRet", NewFrame("init", Base[c], "check"))
  /\ UNCHANGED <<state, initTid, waiting, pending, calls, aborted, ran, spoiled>>

(* Mutant: the failed base is marked, but its failure is not the subclass' failure *)
BaseReturnedIgnored(t) ==
  /\ At(t, "init", "baseRet")
  /\ ret[t] # "none"
  /\ Goto(t, "ifaces")
  /\ UNCHANGED <<state, initTid, waiting, ret, pending, calls, aborted, ran, spoiled>>

BaseReturned(t) ==
  /\ At(t, "init", "baseRet")
  /\ \/ ret[t] = "false" /\ DependencyFailed(t)
     \/ /\ ret[t] = "true"
        /\ Goto(t, "ifaces")
        /\ UNCHANGED <<state, initTid, waiting, ret, pending, calls, aborted, ran, spoiled>>

(* The loops over the interfaces of a class and of an interface *)
NextInterface(t) ==
  LET f == Top(t) IN
  /\ stack[t] # <<>> /\ f.pc = "ifaces"
  /\ IF f.k > Len(IfacesOf[f.cls])
       THEN CASE f.kind = "init" -> Goto(t, "cctor") /\ UNCHANGED ret
              [] f.kind = "iface" /\ f.cls \notin DefaultMethods -> Return(t, "true")
              [] OTHER -> Call(t, "initRet", NewFrame("init", f.cls, "check"))
       ELSE LET i == IfacesOf[f.cls][f.k] IN
            IF state[i] = "INITIALIZED"
              THEN stack' = [stack EXCEPT ![t][1].k = @ + 1] /\ UNCHANGED ret
              ELSE Call(t, "ifaceRet", NewFrame("iface", i, "ifaces"))
  /\ UNCHANGED <<state, initTid, waiting, pending, calls, aborted, ran, spoiled>>

InterfaceReturned(t) ==
  LET f == Top(t) IN
  /\ stack[t] # <<>> /\ f.pc = "ifaceRet"
  /\ \/ /\ ret[t] = "true"
        /\ stack' = [stack EXCEPT ![t][1] = [f EXCEPT !.k = @ + 1, !.pc = "ifaces"]]
        /\ UNCHANGED <<state, initTid, waiting, ret, pending, calls, aborted, ran, spoiled>>
     \/ ret[t] = "false" /\ f.kind = "init" /\ DependencyFailed(t)
     \/ /\ ret[t] = "false" /\ f.kind = "iface"
        /\ Return(t, "false")
        /\ UNCHANGED <<state, initTid, waiting, pending, calls, aborted, ran, spoiled>>

(* InitializeInterface returns what its call of Initialize returned *)
InterfaceInitialized(t) ==
  /\ At(t, "iface", "initRet")
  /\ Return(t, ret[t])
  /\ UNCHANGED <<state, initTid, waiting, pending, calls, aborted, ran, spoiled>>

(* cctor->InvokeVoid starts *)
InvokeCctor(t) ==
  /\ At(t, "init", "cctor")
  /\ ran' = [ran EXCEPT ![Top(t).cls] = @ + 1]
  /\ Goto(t, "run")
  /\ UNCHANGED <<state, initTid, waiting, ret, pending, calls, aborted, spoiled>>

(* The managed code of a cctor touches another class *)
CctorUses(t, c) ==
  /\ At(t, "init", "run")
  /\ c \in Top(t).uses
  /\ stack' = [stack EXCEPT ![t] =
                 <<NewFrame("init", c, "check"),
                   [Top(t) EXCEPT !.pc = "useRet", !.uses = @ \ {c}]>> \o Tail(@)]
  /\ ret' = [ret EXCEPT ![t] = "none"]
  /\ UNCHANGED <<state, initTid, waiting, pending, calls, aborted, ran, spoiled>>

(* ... and goes on, or has an exception to catch or to be ended by *)
CctorUsed(t) ==
  /\ At(t, "init", "useRet")
  /\ \/ ret[t] = "true" /\ Goto(t, "run") /\ UNCHANGED pending
     \/ ret[t] = "false" /\ Goto(t, "run") /\ pending' = [pending EXCEPT ![t] = FALSE]
     \/ ret[t] = "false" /\ Goto(t, "final") /\ UNCHANGED pending
  /\ ret' = [ret EXCEPT ![t] = "none"]
  /\ UNCHANGED <<state, initTid, waiting, calls, aborted, ran, spoiled>>

CctorEnds(t) ==
  /\ At(t, "init", "run")
  /\ Goto(t, "final")
  /\ \/ UNCHANGED pending
     \/ Throw(t)
  /\ UNCHANGED <<state, initTid, waiting, ret, calls, aborted, ran, spoiled>>

(* Mutant: a class whose cctor has thrown goes back to VERIFIED, not to ERRONEOUS *)
FinishForgives(t) ==
  LET c == Top(t).cls IN
  /\ At(t, "init", "final")
  /\ IF pending[t]
       THEN state' = [state EXCEPT ![c] = "VERIFIED"] /\ Return(t, "false") /\ UNCHANGED aborted
       ELSE SetState(c, "INITIALIZED") /\ Return(t, "true")
  /\ NotifyAll(c)
  /\ UNCHANGED <<initTid, pending, calls, ran, spoiled>>

(* The last locked section *)
Finish(t) ==
  LET c == Top(t).cls IN
  /\ At(t, "init", "final")
  /\ IF pending[t]
       THEN SetState(c, "ERRONEOUS") /\ Return(t, "false")
       ELSE SetState(c, "INITIALIZED") /\ Return(t, "true")
  /\ NotifyAll(c)
  /\ UNCHANGED <<initTid, pending, calls, ran, spoiled>>

(* Interrupt wakes a waiting thread, which Wait(true) does not report *)
Interrupt(t) ==
  /\ At(t, "init", "wait")
  /\ waiting' = [waiting EXCEPT ![Top(t).cls] = @ \ {t}]
  /\ waiting' # waiting
  /\ UNCHANGED <<state, initTid, stack, ret, pending, calls, aborted, ran, spoiled>>

Step(t) ==
  /\ ~aborted
  /\ \/ Wake(t) \/ CheckInitialized(t)
     \/ FoundDone(t) \/ VerifyFails(t) \/ WaitForInitializer(t) \/ BecomeInitializer(t)
     \/ AfterWait(t)
     \/ InitializeBase(t) \/ BaseReturned(t)
     \/ NextInterface(t) \/ InterfaceReturned(t) \/ InterfaceInitialized(t)
     \/ InvokeCctor(t) \/ CctorUsed(t) \/ CctorEnds(t)
     \/ \E c \in Classes : CctorUses(t, c)
     \/ Finish(t)

Next ==
  \/ \E t \in Threads : Step(t)
  \/ \E t \in Threads : ~aborted /\ Interrupt(t)
  \/ \E t \in Threads, c \in Entries, stale \in BOOLEAN : ~aborted /\ InitializeClass(t, c, stale)

Spec == Init /\ [][Next]_vars

(* Every thread that can run does: the scheduler's promise. Neither calls   *)
(* nor interruptions are promised.                                          *)
FairSpec == Spec /\ \A t \in Threads : WF_vars(Step(t))

-------------------------------------------------------------------------------
(* Properties *)

TypeOK ==
  /\ state \in [Classes -> States]
  /\ initTid \in [Classes -> Threads \cup {NoThread}]
  /\ waiting \in [Classes -> SUBSET Threads]
  /\ stack \in [Threads -> Seq(Frame)]
  /\ ret \in [Threads -> Outcome]
  /\ pending \in [Threads -> BOOLEAN]
  /\ calls \in [Threads -> 0..MaxCalls]
  /\ aborted \in BOOLEAN
  /\ ran \in [Classes -> Nat]
  /\ spoiled \subseteq Classes

(* A class initializer is started at most once, however many threads ask   *)
(* for the class, fail, or come back to it from their own cctors: the test *)
(* of state_ under the lock and init_tid_ admit one initializer.           *)
CctorRunsOnce == \A c \in Classes : ran[c] <= 1

(* The state a thread's own initialization of c must find d in: finished,  *)
(* or begun by the same thread further down its stack.                     *)
Usable(d, t) == state[d] = "INITIALIZED" \/ (state[d] = "INITIALIZING" /\ initTid[d] = t)

(* A set of interfaces that holds those of c and, below each one that was   *)
(* not initialized itself and has no default methods, its base interfaces.  *)
InterfacesReady(c, t) ==
  \E S \in SUBSET Interfaces :
    /\ \A n \in 1..Len(IfacesOf[c]) : IfacesOf[c][n] \in S
    /\ \A i \in S : \/ Usable(i, t)
                    \/ /\ i \notin DefaultMethods
                       /\ \A n \in 1..Len(IfacesOf[i]) : IfacesOf[i][n] \in S

(* While the cctor of a class runs, its base class and the interfaces       *)
(* Initialize is responsible for are initialized, or are being initialized  *)
(* by the same thread: nobody sees a subclass start before its base, in     *)
(* whatever order threads, failures and recursion through cctors arrive.    *)
DependenciesFirst ==
  \A t \in Threads : \A n \in 1..Len(stack[t]) :
    LET f == stack[t][n] IN
    (f.kind = "init" /\ f.pc \in {"run", "useRet", "final"} /\ f.cls \notin Interfaces /\ spoiled = {})
      => /\ Base[f.cls] # NoClass => Usable(Base[f.cls], t)
         /\ InterfacesReady(f.cls, t)

(* An activation in the middle of its work owns its class: the state is     *)
(* INITIALIZING and init_tid_ names the thread until that activation itself *)
(* ends it. A thread that only waited breaks this (spoiled).                *)
InitializerOwnsClass ==
  \A t \in Threads : \A n \in 1..Len(stack[t]) :
    LET f == stack[t][n] IN
    (f.kind = "init" /\ f.pc \notin {"check", "lock", "wait", "woken"} /\ f.cls \notin spoiled)
      => state[f.cls] = "INITIALIZING" /\ initTid[f.cls] = t

(* The FATAL of Class::SetState is reached only when a thread that waited   *)
(* with an exception of its own pending marked the class: the monitor and   *)
(* the tests leave no other way to an invalid transition.                   *)
AbortsOnlyAfterSpoiling == aborted => spoiled # {}

(* Whoever gets false from Initialize finds an exception pending, as the    *)
(* interpreter asserts before it unwinds.                                   *)
FailureThrows == \A t \in Threads : ret[t] = "false" => pending[t]

(* t belongs to a set of threads that are all in the wait loop of classes   *)
(* which members of the set are initializing.                               *)
Deadlocked(t) ==
  \E S \in SUBSET Threads :
    /\ t \in S
    /\ \A u \in S : /\ At(u, "init", "wait") \/ At(u, "init", "woken")
                    /\ state[Top(u).cls] = "INITIALIZING" \/ Top(u).cls \in spoiled
                    /\ initTid[Top(u).cls] \in S

(* A call returns, unless the thread is caught in a cycle of threads that   *)
(* initialize classes needing each other (or the runtime aborted): no       *)
(* outcome of an initializer, failures and interruptions included, leaves   *)
(* a waiting thread behind.                                                 *)
CallsReturn ==
  \A t \in Threads : stack[t] # <<>> ~> (stack[t] = <<>> \/ Deadlocked(t) \/ aborted)
===============================================================================
