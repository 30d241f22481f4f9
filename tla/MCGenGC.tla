------------------------------ MODULE MCGenGC ------------------------------
(* Model-checking instance of GenGC: the registers of a thread are        *)
(* interchangeable.                                                        *)
EXTENDS GenGC, TLC

RegSymmetry == Permutations(Regs)
=============================================================================
