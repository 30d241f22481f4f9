----------------------------- MODULE AbstractMonitor -----------------------------
(***************************************************************************)
(* What an object monitor promises: a reentrant lock whose owner may give  *)
(* all its levels up to wait, and gets them back before the wait returns.  *)
(* Nothing here tells a light lock from a heavy one.                       *)
(***************************************************************************)
EXTENDS Naturals

CONSTANTS Threads, NoThread

VARIABLES
  owner,    \* the thread that holds the monitor, or NoThread
  depth,    \* its recursion depth
  waiting   \* levels each thread gave up in Wait, 0 outside

vars == <<owner, depth, waiting>>

Init ==
  /\ owner = NoThread
  /\ depth = 0
  /\ waiting = [t \in Threads |-> 0]

Enter(t) ==
  /\ owner \in {NoThread, t}
  /\ waiting[t] = 0
  /\ owner' = t
  /\ depth' = depth + 1
  /\ UNCHANGED waiting

Exit(t) ==
  /\ owner = t
  /\ depth' = depth - 1
  /\ owner' = IF depth = 1 THEN NoThread ELSE t
  /\ UNCHANGED waiting

Wait(t) ==
  /\ owner = t
  /\ waiting' = [waiting EXCEPT ![t] = depth]
  /\ owner' = NoThread
  /\ depth' = 0

Return(t) ==
  /\ owner = NoThread
  /\ waiting[t] > 0
  /\ owner' = t
  /\ depth' = waiting[t]
  /\ waiting' = [waiting EXCEPT ![t] = 0]

Next == \E t \in Threads : Enter(t) \/ Exit(t) \/ Wait(t) \/ Return(t)

Spec == Init /\ [][Next]_vars
=============================================================================
