----------------------------- MODULE MCCallSites -----------------------------
(* Model checking of CallSites: the call sites of a small program.         *)
EXTENDS CallSites

CONSTANTS t1, m1, m2

\* Each thread locks each mutex at a place of its own, and t1 locks m2 at two.
MCSitesOf ==
    [t \in Threads |-> [m \in Locks |->
        IF t = t1 THEN CASE m = m1 -> {1} [] m = m2 -> {2, 3} [] OTHER -> {4}
                  ELSE CASE m = m1 -> {5} [] m = m2 -> {6} [] OTHER -> {7}]]
=============================================================================
