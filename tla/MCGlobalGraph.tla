---------------------------- MODULE MCGlobalGraph ----------------------------
(* Model checking of GlobalGraph on small sets of threads and mutexes.     *)
EXTENDS GlobalGraph, TLC

Symmetry == Permutations(Threads) \cup Permutations(Locks \ Recursive)
=============================================================================
