-------------------------- MODULE MCActualDeadlock --------------------------
(* Model checking of ActualDeadlock on small sets of threads and mutexes.  *)
EXTENDS ActualDeadlock, TLC

\* Threads are interchangeable; so are mutexes when they are all of one kind.
ThreadSymmetry == Permutations(Threads)
FullSymmetry   == Permutations(Threads) \cup Permutations(Locks)
=============================================================================
