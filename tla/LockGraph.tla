------------------------------ MODULE LockGraph ------------------------------
(***************************************************************************)
(* Lock-order graphs: sets E of edges <<from, to>> between lock slots,     *)
(* "to was acquired while from was held".                                  *)
(***************************************************************************)
CONSTANT Locks

Edges == {e \in Locks \X Locks : e[1] # e[2]}

Closed(E, S) == \A e \in E : e[1] \in S => e[2] \in S

\* There is a path, possibly empty, from a to b: no set of locks that holds a
\* and is closed under E leaves b out.
Reaches(E, a, b) == \A S \in SUBSET Locks : a \in S /\ Closed(E, S) => b \in S

\* Adding e to E closes a cycle (and with e in E: e lies on a cycle).
ClosesCycle(E, e) == Reaches(E, e[2], e[1])

Cyclic(E) == \E e \in E : ClosesCycle(E, e)

=============================================================================
