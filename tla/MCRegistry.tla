----------------------------- MODULE MCRegistry ------------------------------
(* Model checking of Registry: the cache of a small program.               *)
EXTENDS Registry, TLC

CONSTANTS m1, m2

\* Two of the mutexes fall on the same cache entry.
MCCacheIndex == [m \in Mutexes |-> IF m \in {m1, m2} THEN 0 ELSE 1]

\* Threads and their ids are alike.
MCSymmetry == Permutations(Threads) \cup Permutations(Tids)
=============================================================================
