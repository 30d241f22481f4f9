------------------------------ MODULE MCFutexCondVar ------------------------------
(* Instances of FutexCondVar for TLC. *)
EXTENDS FutexCondVar, TLC

\* Threads are interchangeable (used by safety runs only).
Symmetry == Permutations(Threads)
=============================================================================
