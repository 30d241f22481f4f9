-------------------------------- MODULE MCMonitor --------------------------------
(* Instances of Monitor for TLC. *)
EXTENDS Monitor, TLC

\* Threads that use the same operations are interchangeable, and so are hash values
\* (used by safety runs only).
Symmetry ==
  Permutations(Threads) \cup Permutations(Hashes)
=============================================================================
