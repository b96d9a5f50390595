----------------------------- MODULE MCRbBackend -----------------------------
(* Model checking of RbBackend on small sets of threads and mutexes.       *)
EXTENDS RbBackend, TLC

Symmetry == Permutations(Locks \ Recursive)
=============================================================================
