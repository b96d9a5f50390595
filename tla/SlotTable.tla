------------------------------ MODULE SlotTable ------------------------------
(***************************************************************************)
(* What a registry promises: keys get slots 0, 1, ... in the order in      *)
(* which they are first seen; each key gets one, each slot keeps its key   *)
(* for ever, and there are no more than Size of them.                      *)
(***************************************************************************)
EXTENDS Naturals, Sequences

CONSTANTS Keys, Size

VARIABLE table   \* table[i + 1] is the key of slot i

Init == table = << >>

Add(k) ==
    /\ Len(table) < Size
    /\ \A i \in 1..Len(table) : table[i] # k
    /\ table' = Append(table, k)

Next == \E k \in Keys : Add(k)

Spec == Init /\ [][Next]_table

=============================================================================
