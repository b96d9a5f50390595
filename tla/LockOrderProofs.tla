--------------------------- MODULE LockOrderProofs ---------------------------
(***************************************************************************)
(* Proofs about LockOrder, for every set of locks.  Paths are never        *)
(* followed: that b is not reachable from a is witnessed by a closed set   *)
(* with a and without b, and such sets are combined.                       *)
(***************************************************************************)
EXTENDS LockOrder, TLAPS

\* More edges reach at least as far.
LEMMA ReachesGrows ==
    ASSUME NEW E, NEW F, E \subseteq F, NEW a, NEW b, Reaches(E, a, b)
    PROVE  Reaches(F, a, b)
BY DEF Reaches, Closed

\* An edge whose endpoint does not reach its start leaves an acyclic graph
\* acyclic.
LEMMA AcyclicStays ==
    ASSUME NEW E, NEW e \in Edges, E \subseteq Edges,
           ~Cyclic(E), ~ClosesCycle(E, e)
    PROVE  ~Cyclic(E \cup {e})
<1>1. PICK S \in SUBSET Locks : e[2] \in S /\ Closed(E, S) /\ e[1] \notin S
    BY DEF ClosesCycle, Reaches
<1>2. Closed(E \cup {e}, S)
    BY <1>1 DEF Closed
<1>3. SUFFICES ASSUME NEW g \in E \cup {e}
               PROVE  ~ClosesCycle(E \cup {e}, g)
    BY DEF Cyclic
<1>4. CASE g = e
    BY <1>1, <1>2, <1>4 DEF ClosesCycle, Reaches
<1>5. CASE g \in E
    <2>1. PICK C \in SUBSET Locks : g[2] \in C /\ Closed(E, C) /\ g[1] \notin C
        BY <1>5 DEF Cyclic, ClosesCycle, Reaches
    <2>2. CASE g[1] \in S
        <3>1. g[2] \in C \cap S
            BY <1>1, <1>5, <2>1, <2>2 DEF Closed
        <3>2. Closed(E \cup {e}, C \cap S)
            BY <1>1, <2>1 DEF Closed
        <3>3. QED
            BY <2>1, <3>1, <3>2 DEF ClosesCycle, Reaches
    <2>3. CASE g[1] \notin S
        <3>1. Closed(E \cup {e}, C \cup S)
            BY <1>1, <2>1 DEF Closed
        <3>2. QED
            BY <2>1, <2>3, <3>1 DEF ClosesCycle, Reaches
    <2>4. QED
        BY <2>2, <2>3
<1>6. QED
    BY <1>3, <1>4, <1>5

-----------------------------------------------------------------------------
\* The three invariants are inductive together.
OrderInv == TypeOK /\ CyclesNoticed /\ ReportsOnCycles

LEMMA OrderInit == Init => OrderInv
BY DEF Init, OrderInv, TypeOK, CyclesNoticed, ReportsOnCycles, Cyclic

LEMMA OrderStep == OrderInv /\ [Next]_vars => OrderInv'
<1>1. SUFFICES ASSUME OrderInv, [Next]_vars
               PROVE  OrderInv'
    OBVIOUS
<1>2. ASSUME NEW e \in Edges, Record(e)
      PROVE  OrderInv'
    <2>1. recorded' = recorded \cup {e} /\ recorded \subseteq Edges
        BY <1>1, <1>2 DEF Record, OrderInv, TypeOK
    <2>2. TypeOK'
        BY <1>1, <1>2 DEF Record, OrderInv, TypeOK
    <2>3. ReportsOnCycles'
        <3>1. ASSUME NEW g \in pending' \cup reported'
              PROVE  ClosesCycle(recorded, g)
            BY <1>1, <1>2 DEF Record, OrderInv, ReportsOnCycles
        <3>2. QED
            BY <2>1, <3>1, ReachesGrows DEF ReportsOnCycles, ClosesCycle
    <2>4. CyclesNoticed'
        <3>1. CASE ClosesCycle(recorded, e)
            BY <1>2, <3>1 DEF Record, CyclesNoticed
        <3>2. CASE ~ClosesCycle(recorded, e) /\ ~Cyclic(recorded)
            BY <2>1, <3>2, AcyclicStays DEF CyclesNoticed
        <3>3. CASE ~ClosesCycle(recorded, e) /\ Cyclic(recorded)
            BY <1>1, <1>2, <3>3 DEF Record, OrderInv, CyclesNoticed
        <3>4. QED
            BY <3>1, <3>2, <3>3
    <2>5. QED
        BY <2>2, <2>3, <2>4 DEF OrderInv
<1>3. ASSUME NEW e \in Edges, Report(e)
      PROVE  OrderInv'
    BY <1>1, <1>3 DEF Report, OrderInv, TypeOK, CyclesNoticed, ReportsOnCycles
<1>4. CASE UNCHANGED vars
    BY <1>1, <1>4 DEF vars, OrderInv, TypeOK, CyclesNoticed, ReportsOnCycles
<1>5. QED
    BY <1>1, <1>2, <1>3, <1>4 DEF Next

LEMMA OrderAlways == Spec => []OrderInv
<1>1. Init => OrderInv
    BY OrderInit
<1>2. OrderInv /\ [Next]_vars => OrderInv'
    BY OrderStep
<1>3. QED
    BY <1>1, <1>2, PTL DEF Spec

\* A backend that checks each order as it records it never has a cyclic graph
\* without a report, made or due.
THEOREM CyclesAreNoticed == Spec => []CyclesNoticed
<1>1. OrderInv => CyclesNoticed
    BY DEF OrderInv
<1>2. QED
    BY <1>1, OrderAlways, PTL

\* What it reports lies on a cycle of recorded orders, and stays there.
THEOREM ReportsAreOnCycles == Spec => []ReportsOnCycles
<1>1. OrderInv => ReportsOnCycles
    BY DEF OrderInv
<1>2. QED
    BY <1>1, OrderAlways, PTL

=============================================================================
