------------------------------ MODULE AbstractLock ------------------------------
(***************************************************************************)
(* What os::memory::Mutex and os::memory::RecursiveMutex promise to the    *)
(* rest of the runtime: one owner at a time, and a recursion depth that    *)
(* only the owner changes.  FutexMutex is shown to implement this module,  *)
(* and the modules of the runtime use a Mutex only as specified here.      *)
(***************************************************************************)
EXTENDS Naturals

CONSTANTS Threads,   \* the threads that use the lock
          NoThread   \* the value 0 of exclusive_owner_

VARIABLES owner,     \* the thread that holds the lock, or NoThread
          depth      \* how many times the owner has acquired it

lockVars == <<owner, depth>>

Init ==
  /\ owner = NoThread
  /\ depth = 0

Acquire(t) ==
  /\ owner = NoThread
  /\ owner' = t
  /\ depth' = 1

Reacquire(t) ==
  /\ owner = t
  /\ owner' = t
  /\ depth' = depth + 1

Release(t) ==
  /\ owner = t
  /\ depth' = depth - 1
  /\ owner' = IF depth = 1 THEN NoThread ELSE t

Next == \E t \in Threads : Acquire(t) \/ Reacquire(t) \/ Release(t)

Spec == Init /\ [][Next]_lockVars
=============================================================================
