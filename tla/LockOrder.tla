------------------------------ MODULE LockOrder ------------------------------
(***************************************************************************)
(* What a potential-deadlock backend promises: lock orders are recorded    *)
(* one at a time, and an order that closes a cycle is reported.  Both      *)
(* backends implement this specification.                                  *)
(***************************************************************************)
EXTENDS LockGraph

VARIABLES
    recorded,   \* the lock-order graph
    pending,    \* recorded edges whose cycle has been found, not yet printed
    reported    \* edges whose cycle has been printed

vars == <<recorded, pending, reported>>

Init == recorded = {} /\ pending = {} /\ reported = {}

\* An order is recorded; if it closes a cycle it is due to be reported.
Record(e) ==
    /\ e \notin recorded
    /\ recorded' = recorded \cup {e}
    /\ pending' = IF ClosesCycle(recorded, e) THEN pending \cup {e} ELSE pending
    /\ UNCHANGED reported

Report(e) ==
    /\ e \in pending
    /\ pending' = pending \ {e}
    /\ reported' = reported \cup {e}
    /\ UNCHANGED recorded

Next == \E e \in Edges : Record(e) \/ Report(e)

Spec == Init /\ [][Next]_vars

-----------------------------------------------------------------------------
TypeOK ==
    /\ recorded \subseteq Edges
    /\ pending  \subseteq recorded
    /\ reported \subseteq recorded

\* A cyclic graph never goes unnoticed: some cycle was printed or is about to
\* be (recording the first edge that closes a cycle finds it).
CyclesNoticed == Cyclic(recorded) => pending \cup reported # {}

\* Whatever is reported lies on a cycle of recorded orders.
ReportsOnCycles == \A e \in pending \cup reported : ClosesCycle(recorded, e)

=============================================================================
