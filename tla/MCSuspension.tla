------------------------------ MODULE MCSuspension ------------------------------
(* Instances of Suspension for TLC. *)
EXTENDS Suspension, TLC

\* Threads that are not the main thread and use the same operations are
\* interchangeable (used by safety runs only).
Symmetry == Permutations(Threads \ ({MainThread} \cup StwThreads \cup ExitThreads))
=============================================================================
