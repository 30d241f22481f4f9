----------------------------- MODULE AbstractRWLock -----------------------------
(***************************************************************************)
(* What os::memory::RWLock promises: one writer alone, or any number of    *)
(* readers.  FutexRWLock is shown to implement this module; the runtime's  *)
(* mutator_lock is used as specified here.                                 *)
(***************************************************************************)
CONSTANTS Threads, NoThread

VARIABLES readers,   \* the threads that hold the lock for reading
          writer     \* the thread that holds it for writing, or NoThread

rwVars == <<readers, writer>>

Init ==
  /\ readers = {}
  /\ writer = NoThread

ReadLock(t) ==
  /\ writer = NoThread
  /\ t \notin readers
  /\ readers' = readers \cup {t}
  /\ UNCHANGED writer

WriteLock(t) ==
  /\ writer = NoThread
  /\ readers = {}
  /\ writer' = t
  /\ UNCHANGED readers

Unlock(t) ==
  \/ /\ t \in readers
     /\ readers' = readers \ {t}
     /\ UNCHANGED writer
  \/ /\ t = writer
     /\ writer' = NoThread
     /\ UNCHANGED readers

Next == \E t \in Threads : ReadLock(t) \/ WriteLock(t) \/ Unlock(t)

Spec == Init /\ [][Next]_rwVars
=============================================================================
