--------------------------- MODULE PathSearchProofs ---------------------------
(***************************************************************************)
(* The depth-first search is right for every number of lock slots: no      *)
(* induction over paths is needed, because the calls under way say which   *)
(* successors are still to be looked at, and a search that found nothing   *)
(* leaves a closed set of visited slots behind.                            *)
(***************************************************************************)
EXTENDS PathSearch, TLAPS, FiniteSetTheorems

Depth == Len(calls)

\* The types without the bounds, which follow from the invariant.
Types ==
    /\ graph  \subseteq Orders!Edges
    /\ count  \in 1..MaxLockSlots
    /\ root \in Slots /\ target \in Slots /\ root # target
    /\ phase  \in {"call", "loop", "chain", "turn", "done"}
    /\ calls  \in Seq(Call)
    /\ visited \subseteq Slots
    /\ parent \in [Slots -> Slots \cup {NoSlot}]
    /\ found  \in BOOLEAN
    /\ cursor \in Slots
    /\ reverse \in Seq(Slots) /\ chain \in Seq(Slots)

\* Every call sees every edge: slots are created before they get edges.
CallsSeeEdges ==
    \A e \in graph :
        /\ e[1] < count /\ e[2] < count
        /\ \A i \in 1..Depth : e[2] < calls[i].limit

\* p is the father of c.
Linked(p, c) == parent[c] = p /\ <<p, c>> \in graph

\* The calls under way are a simple path from the root, linked by the pointers.
CallsArePath ==
    /\ \A i \in 1..Depth :
          /\ calls[i].slot \in visited
          /\ calls[i].next <= calls[i].limit
    /\ \A i, j \in 1..Depth : calls[i].slot = calls[j].slot => i = j
    /\ Depth > 0 => calls[1].slot = root
    /\ \A i \in 1..(Depth - 1) : Linked(calls[i].slot, calls[i + 1].slot)

\* Where the search is, and what may begin next.
PhaseRight ==
    /\ phase = "call" =>
          /\ cursor \notin visited
          /\ IF Depth = 0 THEN cursor = root ELSE Linked(Innermost.slot, cursor)
    /\ phase \in {"loop", "chain", "turn"} => Depth > 0
    /\ phase \in {"call", "loop"} => ~found
    /\ phase \in {"chain", "turn"} => found
    /\ phase = "done" /\ ~found => Depth = 0

\* What is visited is reachable and is not the target.
VisitedReached ==
    /\ target \notin visited
    /\ \A s \in visited : Orders!Reaches(graph, root, s)
    /\ root \in visited \/ (phase = "call" /\ Depth = 0)

\* A call under way has still to look at e.
StillToDo(e) == \E i \in 1..Depth : calls[i].slot = e[1] /\ calls[i].next <= e[2]

\* What can be reached from a visited slot has been visited or will be.
NothingForgotten ==
    ~found => \A e \in graph :
        e[1] \in visited =>
            \/ e[2] \in visited
            \/ StillToDo(e)
            \/ phase = "call" /\ e[2] = cursor

\* When the target is found the calls stay as they were.
PathSlot(i) == IF i <= Depth THEN calls[i].slot ELSE target

\* The pointers are read back along the calls.
ChainRight ==
    /\ found =>
          /\ Depth > 0
          /\ Linked(Innermost.slot, target)
          /\ Len(reverse) <= Depth + 1
          /\ \A j \in 1..Len(reverse) : reverse[j] = PathSlot(Depth + 2 - j)
    /\ ~found => reverse = << >> /\ chain = << >>
    /\ phase = "chain" =>
          Len(reverse) <= Depth /\ cursor = PathSlot(Depth + 1 - Len(reverse))
    /\ phase = "turn" => Len(reverse) = Depth + 1
    /\ phase = "done" /\ found =>
          chain = [i \in 1..(Depth + 1) |-> PathSlot(i)]

Inv ==
    /\ Types /\ CallsSeeEdges /\ CallsArePath /\ PhaseRight
    /\ VisitedReached /\ NothingForgotten /\ ChainRight

-----------------------------------------------------------------------------
(* Lemmas about reachability and about the calls. *)

\* An edge extends a path.
LEMMA ReachesNext ==
    ASSUME NEW E, NEW a, NEW b, NEW c, Orders!Reaches(E, a, b), <<b, c>> \in E
    PROVE  Orders!Reaches(E, a, c)
BY DEF Orders!Reaches, Orders!Closed

LEMMA ReachesItself ==
    ASSUME NEW E, NEW a
    PROVE  Orders!Reaches(E, a, a)
BY DEF Orders!Reaches

\* A closed set of slots shuts out what it does not contain.
LEMMA ClosedShutsOut ==
    ASSUME NEW E, NEW a, NEW b, NEW S \in SUBSET Slots,
           a \in S, b \notin S, \A e \in E : e[1] \in S => e[2] \in S
    PROVE  ~Orders!Reaches(E, a, b)
BY DEF Orders!Reaches, Orders!Closed

\* Different slots are not more than there are.
LEMMA PigeonHole ==
    ASSUME NEW n \in Nat, NEW f \in [1..n -> Slots],
           \A i, j \in 1..n : f[i] = f[j] => i = j
    PROVE  n <= MaxLockSlots
<1>1. IsFiniteSet(Slots) /\ Cardinality(Slots) = MaxLockSlots
  <2>1. 0 \in Int /\ MaxLockSlots - 1 \in Int /\ ~(0 > MaxLockSlots - 1)
    BY SlotsAssumption
  <2>2. Cardinality(Slots) = MaxLockSlots - 1 - 0 + 1 /\ IsFiniteSet(Slots)
    BY <2>1, FS_Interval DEF Slots
  <2> QED  BY <2>2, SlotsAssumption
<1>2. CASE n = 0
  BY <1>2, SlotsAssumption
<1>3. CASE n # 0
  <2>1. IsFiniteSet(1..n) /\ Cardinality(1..n) = n
    <3>1. n \in Int /\ 1 \in Int /\ ~(1 > n)
      BY <1>3
    <3>2. IsFiniteSet(1..n) /\ Cardinality(1..n) = n - 1 + 1
      BY <3>1, FS_Interval
    <3> QED  BY <3>2
  <2>2. ~(Cardinality(Slots) < Cardinality(1..n))
    <3> SUFFICES ASSUME Cardinality(Slots) < Cardinality(1..n)
                 PROVE  FALSE
      OBVIOUS
    <3>1. \E x, y \in 1..n : x # y /\ f[x] = f[y]
      BY <1>1, <2>1, FS_PigeonHole
    <3> QED  BY <3>1
  <2> QED  BY <1>1, <2>1, <2>2, SlotsAssumption
<1> QED  BY <1>2, <1>3

\* The calls and one slot more, in which no call is, are not too many.
LEMMA CallsAreFew ==
    ASSUME Types, CallsArePath,
           NEW s \in Slots, \A i \in 1..Depth : calls[i].slot # s
    PROVE  Depth + 1 <= MaxLockSlots
<1> DEFINE f == [i \in 1..(Depth + 1) |-> IF i <= Depth THEN calls[i].slot ELSE s]
<1>1. Depth \in Nat /\ \A i \in 1..Depth : calls[i] \in Call
  BY DEF Types, Depth
<1>2. f \in [1..(Depth + 1) -> Slots]
  BY <1>1 DEF Call
<1>3. \A i, j \in 1..(Depth + 1) : f[i] = f[j] => i = j
  BY <1>1 DEF CallsArePath
<1> HIDE DEF f
<1> QED  BY <1>1, <1>2, <1>3, PigeonHole

\* The slot of a call under way is not the target.
LEMMA CallsNotTarget ==
    ASSUME CallsArePath, VisitedReached
    PROVE  \A i \in 1..Depth : calls[i].slot # target
BY DEF CallsArePath, VisitedReached

-----------------------------------------------------------------------------
(* The invariant holds at first, and every step keeps it. *)

LEMMA InvInit == Init => Inv
<1> SUFFICES ASSUME Init PROVE Inv
  OBVIOUS
<1>1. root \in Slots /\ target \in Slots /\ count \in 1..MaxLockSlots
  BY SlotsAssumption DEF Init, Slots
<1>2. Types
  <2>1. calls \in Seq(Call) /\ reverse \in Seq(Slots) /\ chain \in Seq(Slots)
    BY DEF Init
  <2>2. graph \subseteq Orders!Edges /\ visited \subseteq Slots
    BY DEF Init
  <2>3. parent \in [Slots -> Slots \cup {NoSlot}]
    BY DEF Init
  <2> QED  BY <1>1, <2>1, <2>2, <2>3 DEF Init, Types
<1>3. CallsSeeEdges /\ CallsArePath /\ PhaseRight
  BY DEF Init, CallsSeeEdges, CallsArePath, PhaseRight, Depth
<1>4. VisitedReached /\ NothingForgotten /\ ChainRight
  BY DEF Init, VisitedReached, NothingForgotten, ChainRight, Depth
<1> QED  BY <1>2, <1>3, <1>4 DEF Inv

LEMMA FindTargetKeeps == ASSUME Inv, FindTarget PROVE Inv'
<1> USE DEF FindTarget, graphVars
<1>1. Depth' = Depth /\ Depth \in Nat
  BY DEF Inv, Types, Depth
<1>2. Types'
  BY DEF Inv, Types
<1>3. CallsSeeEdges' /\ CallsArePath'
  BY <1>1 DEF Inv, CallsSeeEdges, CallsArePath, Linked
<1>4. Depth > 0 /\ Linked(Innermost.slot, target)
  BY <1>1 DEF Inv, Types, PhaseRight
<1>5. PhaseRight'
  BY <1>1, <1>4 DEF PhaseRight
<1>6. VisitedReached'
  BY <1>1, <1>4 DEF Inv, VisitedReached
<1>7. NothingForgotten'
  BY DEF NothingForgotten
<1>8. ChainRight'
  BY <1>1, <1>4 DEF Inv, ChainRight, PhaseRight, PathSlot, Linked, Innermost, Depth
<1> QED  BY <1>2, <1>3, <1>5, <1>6, <1>7, <1>8 DEF Inv

LEMMA EnterCallKeeps == ASSUME Inv, EnterCall PROVE Inv'
<1> USE DEF EnterCall, graphVars
<1> DEFINE new == [slot |-> cursor, limit |-> count, next |-> 0]
<1>1. /\ Depth \in Nat /\ Depth' = Depth + 1 /\ Len(calls') = Depth + 1
      /\ calls'[Depth + 1] = new
      /\ \A i \in 1..Depth : calls'[i] = calls[i]
  BY DEF Inv, Types, Depth
<1>2. new \in Call
  BY SlotsAssumption DEF Inv, Types, Call
<1>3. Types'
  BY <1>2 DEF Inv, Types, Mark
<1>4. CallsSeeEdges'
  BY <1>1 DEF Inv, CallsSeeEdges
<1>5. CallsArePath'
  <2>1. \A i \in 1..Depth : calls[i].slot # cursor
    BY DEF Inv, CallsArePath, PhaseRight
  <2>2. \A i \in 1..Depth' : calls'[i].slot \in visited' /\ calls'[i].next <= calls'[i].limit
    BY <1>1 DEF Inv, Types, CallsArePath, Mark
  <2>3. \A i, j \in 1..Depth' : calls'[i].slot = calls'[j].slot => i = j
    BY <1>1, <2>1 DEF Inv, CallsArePath
  <2>4. calls'[1].slot = root
    BY <1>1 DEF Inv, CallsArePath, PhaseRight
  <2>5. ASSUME NEW i \in 1..Depth
        PROVE  Linked(calls'[i].slot, calls'[i + 1].slot)
    <3>1. CASE i = Depth
      BY <1>1, <3>1 DEF Inv, PhaseRight, Innermost, Depth
    <3>2. CASE i # Depth
      BY <1>1, <3>2 DEF Inv, CallsArePath
    <3> QED  BY <3>1, <3>2
  <2>6. \A i \in 1..(Depth' - 1) :
          /\ parent'[calls'[i + 1].slot] = calls'[i].slot
          /\ <<calls'[i].slot, calls'[i + 1].slot>> \in graph'
    BY <1>1, <2>5 DEF Linked
  <2> QED  BY <2>2, <2>3, <2>4, <2>6 DEF CallsArePath, Linked
<1>6. PhaseRight'
  BY <1>1 DEF Inv, PhaseRight
<1>7. VisitedReached'
  <2>1. Orders!Reaches(graph, root, cursor)
    <3>1. CASE Depth = 0
      BY <3>1, ReachesItself DEF Inv, PhaseRight
    <3>2. CASE Depth # 0
      <4>1. Innermost.slot \in visited
        BY <1>1, <3>2 DEF Inv, CallsArePath, Innermost, Depth
      <4>2. Orders!Reaches(graph, root, Innermost.slot)
        BY <4>1 DEF Inv, VisitedReached
      <4>3. <<Innermost.slot, cursor>> \in graph
        BY <3>2 DEF Inv, PhaseRight, Linked
      <4> QED  BY <4>2, <4>3, ReachesNext
    <3> QED  BY <3>1, <3>2
  <2>2. root \in visited'
    BY DEF Inv, VisitedReached, PhaseRight, Mark
  <2> QED  BY <2>1, <2>2 DEF Inv, VisitedReached, Mark
<1>8. NothingForgotten'
  <2> SUFFICES ASSUME NEW e \in graph, e[1] \in visited', ~found
               PROVE  e[2] \in visited' \/ StillToDo(e)'
    BY DEF NothingForgotten
  <2>1. CASE e[1] = cursor
    <3>1. calls'[Depth'].slot = e[1] /\ calls'[Depth'].next <= e[2] /\ Depth' \in 1..Depth'
      BY <1>1, <2>1 DEF Inv, Types, Orders!Edges, Slots
    <3> QED  BY <3>1 DEF StillToDo
  <2>2. CASE e[1] \in visited
    <3>1. StillToDo(e) => StillToDo(e)'
      BY <1>1 DEF StillToDo
    <3> QED  BY <2>2, <3>1 DEF Inv, NothingForgotten, Mark
  <2> QED  BY <2>1, <2>2 DEF Mark
<1>9. ChainRight'
  BY DEF Inv, ChainRight, PhaseRight
<1> QED  BY <1>3, <1>4, <1>5, <1>6, <1>7, <1>8, <1>9 DEF Inv

\* The loop of the innermost call goes one slot further.
LEMMA NextTurnMoves ==
    ASSUME Inv, phase = "loop", LoopGoesOn(Innermost), NextTurn
    PROVE  /\ calls' \in Seq(Call) /\ Depth \in Nat /\ Depth > 0
           /\ Len(calls') = Depth /\ Depth' = Depth
           /\ Innermost.next \in Slots
           /\ \A i \in 1..Depth :
                 /\ calls'[i].slot = calls[i].slot /\ calls'[i].limit = calls[i].limit
                 /\ i # Depth => calls'[i].next = calls[i].next
           /\ calls'[Depth].next = Innermost.next + 1
           /\ calls'[Depth].next <= calls'[Depth].limit
<1> USE DEF NextTurn, Depth
<1>1. Depth \in Nat /\ Depth > 0 /\ calls \in Seq(Call) /\ Innermost \in Call
  BY DEF Inv, PhaseRight, Types, Innermost
<1>2. /\ Innermost.next + 1 \in 0..MaxLockSlots /\ Innermost.next \in Slots
      /\ Innermost.next + 1 <= Innermost.limit
  BY <1>1, SlotsAssumption DEF LoopGoesOn, Call, Slots
<1>3. [Innermost EXCEPT !.next = @ + 1] \in Call
  BY <1>1, <1>2 DEF Call
<1>4. calls' = [calls EXCEPT ![Len(calls)] = [Innermost EXCEPT !.next = @ + 1]]
  BY DEF Innermost
<1>5. calls' \in Seq(Call) /\ Len(calls') = Depth
  BY <1>1, <1>3, <1>4
<1>6. \A i \in 1..Depth :
         calls'[i] = IF i = Depth THEN [Innermost EXCEPT !.next = @ + 1] ELSE calls[i]
  BY <1>1, <1>4
<1>7. calls[Depth] = Innermost
  BY DEF Innermost
<1> QED  BY <1>1, <1>2, <1>5, <1>6, <1>7 DEF Call

\* A turn of the loop leaves the path as it is, and only the edge to the slot it
\* looked at is done with.
LEMMA NextTurnKeeps ==
    ASSUME Inv, phase = "loop", LoopGoesOn(Innermost), NextTurn,
           UNCHANGED <<graph, count, root, visited>>
    PROVE  /\ CallsSeeEdges'
           /\ parent' = parent => CallsArePath'
           /\ \A e \in graph : StillToDo(e) =>
                 StillToDo(e)' \/ e = <<Innermost.slot, Innermost.next>>
<1>1. Depth' = Depth /\ Depth \in Nat /\ Innermost = calls[Depth]
  BY NextTurnMoves DEF Innermost, Depth
<1>2. CallsSeeEdges'
  BY <1>1, NextTurnMoves DEF Inv, CallsSeeEdges
<1>3. ASSUME parent' = parent
      PROVE  CallsArePath'
  <2>1. \A i \in 1..Depth : calls'[i].next <= calls'[i].limit /\ calls'[i].slot \in visited
    BY <1>1, NextTurnMoves DEF Inv, CallsArePath
  <2> QED
    BY <1>1, <1>3, <2>1, NextTurnMoves DEF Inv, CallsArePath, Linked
<1>4. ASSUME NEW e \in graph, StillToDo(e)
      PROVE  StillToDo(e)' \/ e = <<Innermost.slot, Innermost.next>>
  <2>1. PICK i \in 1..Depth : calls[i].slot = e[1] /\ calls[i].next <= e[2]
    BY <1>4 DEF StillToDo
  <2>2. e = <<e[1], e[2]>> /\ e[2] \in Nat
    BY DEF Inv, Types, Orders!Edges, Slots
  <2>3. CASE i # Depth
    <3>1. calls'[i].slot = e[1] /\ calls'[i].next <= e[2] /\ i \in 1..Depth'
      BY <1>1, <2>1, <2>3, NextTurnMoves
    <3> QED  BY <3>1 DEF StillToDo
  <2>4. CASE i = Depth /\ e[2] # Innermost.next
    <3>1. Innermost.next \in Nat
      BY NextTurnMoves DEF Slots
    <3>2. calls'[i].slot = e[1] /\ calls'[i].next <= e[2] /\ i \in 1..Depth'
      BY <1>1, <2>1, <2>2, <2>4, <3>1, NextTurnMoves
    <3> QED  BY <3>2 DEF StillToDo
  <2> QED  BY <1>1, <2>1, <2>2, <2>3, <2>4
<1> QED  BY <1>2, <1>3, <1>4

LEMMA PassOverKeeps == ASSUME Inv, PassOver PROVE Inv'
<1> USE DEF PassOver, graphVars
<1>1. /\ Depth' = Depth /\ Depth > 0 /\ CallsSeeEdges' /\ CallsArePath' /\ calls' \in Seq(Call)
      /\ \A e \in graph : StillToDo(e) =>
            StillToDo(e)' \/ e = <<Innermost.slot, Innermost.next>>
  BY NextTurnMoves, NextTurnKeeps
<1>2. Types'
  BY <1>1 DEF Inv, Types
<1>3. PhaseRight' /\ VisitedReached' /\ ChainRight'
  BY <1>1 DEF Inv, PhaseRight, VisitedReached, ChainRight
<1>4. NothingForgotten'
  BY <1>1 DEF Inv, NothingForgotten, MustVisit
<1> QED  BY <1>1, <1>2, <1>3, <1>4 DEF Inv

LEMMA DescendKeeps == ASSUME Inv, Descend PROVE Inv'
<1> USE DEF Descend, graphVars
<1>1. /\ Depth \in Nat /\ Depth' = Depth /\ Depth > 0
      /\ CallsSeeEdges' /\ calls' \in Seq(Call) /\ Len(calls') = Depth
      /\ \A e \in graph : StillToDo(e) =>
            StillToDo(e)' \/ e = <<Innermost.slot, Innermost.next>>
  BY NextTurnMoves, NextTurnKeeps
<1>2. /\ Innermost.slot \in visited /\ Innermost.slot \in Slots /\ Innermost.next \in Slots
      /\ Innermost.next \notin visited
      /\ <<Innermost.slot, Innermost.next>> \in graph
  BY <1>1, NextTurnMoves DEF Inv, Types, CallsArePath, Innermost, Depth, MustVisit
<1>3. Types'
  BY <1>1, <1>2 DEF Inv, Types, SetParent
<1>4. \A s \in visited : parent'[s] = parent[s]
  BY <1>2 DEF Inv, Types, SetParent
<1>5. CallsArePath'
  <2>1. \A i \in 1..Depth : calls'[i].slot \in visited /\ calls'[i].next <= calls'[i].limit
    BY <1>1, NextTurnMoves DEF Inv, CallsArePath
  <2>2. \A i, j \in 1..Depth : calls'[i].slot = calls'[j].slot => i = j
    BY <1>1, NextTurnMoves DEF Inv, CallsArePath
  <2>3. calls'[1].slot = root
    BY <1>1, NextTurnMoves DEF Inv, CallsArePath
  <2>4. \A i \in 1..(Depth - 1) :
          /\ parent'[calls'[i + 1].slot] = calls'[i].slot
          /\ <<calls'[i].slot, calls'[i + 1].slot>> \in graph
    <3> SUFFICES ASSUME NEW i \in 1..(Depth - 1)
                 PROVE  /\ parent'[calls'[i + 1].slot] = calls'[i].slot
                        /\ <<calls'[i].slot, calls'[i + 1].slot>> \in graph
      OBVIOUS
    <3>1. i \in 1..Depth /\ i + 1 \in 1..Depth
      BY <1>1
    <3>2. Linked(calls[i].slot, calls[i + 1].slot) /\ calls[i + 1].slot \in visited
      BY <3>1 DEF Inv, CallsArePath
    <3> QED  BY <1>4, <3>1, <3>2, NextTurnMoves DEF Linked
  <2> QED  BY <1>1, <2>1, <2>2, <2>3, <2>4 DEF CallsArePath, Linked
<1>6. PhaseRight'
  <2>1. Innermost'.slot = Innermost.slot
    BY <1>1, NextTurnMoves DEF Innermost, Depth
  <2>2. parent'[Innermost.next] = Innermost.slot
    BY <1>2 DEF Inv, Types, SetParent
  <2> QED  BY <1>1, <1>2, <2>1, <2>2 DEF Inv, PhaseRight, Linked
<1>7. VisitedReached' /\ ChainRight'
  BY <1>1 DEF Inv, PhaseRight, VisitedReached, ChainRight
<1>8. NothingForgotten'
  <2> SUFFICES ASSUME NEW e \in graph, e[1] \in visited, ~found
               PROVE  e[2] \in visited \/ StillToDo(e)' \/ e[2] = Innermost.next
    BY DEF NothingForgotten
  <2> QED  BY <1>1 DEF Inv, NothingForgotten
<1> QED  BY <1>1, <1>3, <1>5, <1>6, <1>7, <1>8 DEF Inv

LEMMA BackOutKeeps == ASSUME Inv, BackOut PROVE Inv'
<1> USE DEF BackOut, graphVars
<1>1. /\ Depth \in Nat /\ Depth > 0 /\ Depth' = Depth - 1
      /\ Len(calls') = Depth - 1 /\ calls' \in Seq(Call)
      /\ \A i \in 1..(Depth - 1) : calls'[i] = calls[i]
  <2>1. calls \in Seq(Call) /\ Len(calls) \in Nat /\ Len(calls) > 0
    BY DEF Inv, Types, PhaseRight, Depth
  <2>2. calls' = SubSeq(calls, 1, Len(calls) - 1)
    OBVIOUS
  <2>3. Len(calls') = Len(calls) - 1 /\ \A i \in 1..(Len(calls) - 1) : calls'[i] = calls[i]
    <3> DEFINE k == Len(calls) - 1
    <3>1. k \in Nat /\ k <= Len(calls) /\ calls' = SubSeq(calls, 1, k)
      BY <2>1, <2>2
    <3> HIDE DEF k
    <3>2. Len(calls') = k /\ \A i \in 1..k : calls'[i] = calls[i]
      BY <2>1, <3>1
    <3> QED  BY <3>2 DEF k
  <2>4. calls' \in Seq(Call)
    BY <2>1, <2>2
  <2> QED  BY <2>1, <2>3, <2>4 DEF Depth
<1>2. Types'
  BY <1>1 DEF Inv, Types
<1>3. CallsSeeEdges'
  BY <1>1 DEF Inv, CallsSeeEdges
<1>4. CallsArePath'
  BY <1>1 DEF Inv, CallsArePath, Linked
<1>5. PhaseRight'
  BY <1>1 DEF Inv, PhaseRight, Depth
<1>6. VisitedReached' /\ ChainRight'
  BY <1>1 DEF Inv, PhaseRight, VisitedReached, ChainRight
<1>7. NothingForgotten'
  <2> SUFFICES ASSUME NEW e \in graph, e[1] \in visited, ~found
               PROVE  e[2] \in visited \/ StillToDo(e)'
    BY DEF NothingForgotten
  <2>1. e[2] \in visited \/ StillToDo(e)
    BY DEF Inv, NothingForgotten
  <2>2. ASSUME StillToDo(e)
        PROVE  StillToDo(e)'
    <3>1. PICK i \in 1..Depth : calls[i].slot = e[1] /\ calls[i].next <= e[2]
      BY <2>2 DEF StillToDo
    <3>2. calls[i] \in Call /\ e[2] \in Nat /\ e[2] < calls[i].limit
      BY <1>1 DEF Inv, Types, CallsSeeEdges, Orders!Edges, Slots, Depth
    <3>3. i # Depth
      BY <3>1, <3>2 DEF LoopGoesOn, Innermost, Depth, Call
    <3> QED  BY <1>1, <3>1, <3>3 DEF StillToDo
  <2> QED  BY <2>1, <2>2
<1> QED  BY <1>2, <1>3, <1>4, <1>5, <1>6, <1>7 DEF Inv

-----------------------------------------------------------------------------
(* The walk back along the pointers. *)

\* The path that has been found: its slots differ, they are not too many, it
\* runs along edges, and the pointers lead back along it.
LEMMA PathFound ==
    ASSUME Inv, found
    PROVE  /\ Depth \in Nat /\ Depth > 0 /\ Depth + 1 <= MaxLockSlots
           /\ \A i \in 1..(Depth + 1) : PathSlot(i) \in Slots
           /\ PathSlot(1) = root /\ PathSlot(Depth + 1) = target
           /\ \A i, j \in 1..(Depth + 1) : PathSlot(i) = PathSlot(j) => i = j
           /\ \A i \in 1..Depth : Linked(PathSlot(i), PathSlot(i + 1))
<1>1. Depth \in Nat /\ Depth > 0 /\ \A i \in 1..Depth : calls[i].slot \in Slots
  <2>1. Depth \in Nat /\ Depth > 0 /\ \A i \in 1..Depth : calls[i] \in Call
    BY DEF Inv, Types, ChainRight, Depth
  <2> QED  BY <2>1 DEF Call
<1>2. \A i \in 1..Depth : calls[i].slot # target
  BY CallsNotTarget DEF Inv
<1>3. Depth + 1 <= MaxLockSlots
  BY <1>2, CallsAreFew DEF Inv, Types
<1>4. \A i \in 1..(Depth + 1) : PathSlot(i) \in Slots
  BY <1>1 DEF Inv, Types, PathSlot
<1>5. PathSlot(1) = root /\ PathSlot(Depth + 1) = target
  BY <1>1 DEF Inv, CallsArePath, PathSlot
<1>6. \A i, j \in 1..(Depth + 1) : PathSlot(i) = PathSlot(j) => i = j
  BY <1>1, <1>2 DEF Inv, CallsArePath, PathSlot
<1>7. ASSUME NEW i \in 1..Depth
      PROVE  Linked(PathSlot(i), PathSlot(i + 1))
  <2>1. CASE i = Depth
    BY <1>1, <2>1 DEF Inv, ChainRight, PathSlot, Innermost, Depth
  <2>2. CASE i # Depth
    BY <1>1, <2>2 DEF Inv, CallsArePath, PathSlot
  <2> QED  BY <2>1, <2>2
<1> QED  BY <1>1, <1>3, <1>4, <1>5, <1>6, <1>7

LEMMA ReadParentKeeps == ASSUME Inv, ReadParent PROVE Inv'
<1> USE DEF ReadParent, graphVars
<1> DEFINE n == Len(reverse)
<1>1. found /\ Depth' = Depth /\ n \in Nat /\ n <= Depth /\ cursor = PathSlot(Depth + 1 - n)
  BY DEF Inv, Types, PhaseRight, ChainRight, Depth
<1>2. /\ Len(reverse') = n + 1 /\ reverse'[n + 1] = cursor /\ reverse' \in Seq(Slots)
      /\ \A j \in 1..n : reverse'[j] = reverse[j]
  BY DEF Inv, Types
<1>3. cursor = root <=> n = Depth
  <2>1. Depth + 1 - n \in 1..(Depth + 1) /\ 1 \in 1..(Depth + 1)
    BY <1>1, PathFound
  <2>2. cursor = root <=> Depth + 1 - n = 1
    BY <1>1, <2>1, PathFound
  <2> QED  BY <1>1, <2>2, PathFound
<1>4. ASSUME n # Depth
      PROVE  /\ parent[cursor] = PathSlot(Depth - n) /\ parent[cursor] \in Slots
             /\ ReadsOn(parent[cursor], n + 1)
  <2>1. Depth - n \in 1..Depth /\ Depth - n \in 1..(Depth + 1) /\ Depth - n + 1 = Depth + 1 - n
    BY <1>1, <1>4, PathFound
  <2>2. parent[cursor] = PathSlot(Depth - n)
    BY <1>1, <2>1, PathFound DEF Linked
  <2>3. parent[cursor] \in Slots
    BY <1>1, <2>1, <2>2, PathFound
  <2> QED  BY <1>1, <1>4, <2>2, <2>3, PathFound, SlotsAssumption DEF ReadsOn, NoSlot, Slots
<1>5. \/ n = Depth /\ phase' = "turn" /\ cursor' = cursor
      \/ n # Depth /\ phase' = "chain" /\ cursor' = PathSlot(Depth - n) /\ cursor' \in Slots
  BY <1>3, <1>4
<1>6. Types'
  BY <1>2, <1>5 DEF Inv, Types
<1>7. CallsSeeEdges' /\ CallsArePath'
  BY <1>1 DEF Inv, CallsSeeEdges, CallsArePath, Linked
<1>8. PhaseRight' /\ VisitedReached' /\ NothingForgotten'
  BY <1>1, <1>5, PathFound DEF Inv, PhaseRight, VisitedReached, NothingForgotten
<1>9. ChainRight'
  <2>1. \A i : PathSlot(i)' = PathSlot(i)
    BY <1>1 DEF PathSlot
  <2>2. \A j \in 1..Len(reverse') : reverse'[j] = PathSlot(Depth + 2 - j)
    <3> SUFFICES ASSUME NEW j \in 1..(n + 1)
                 PROVE  reverse'[j] = PathSlot(Depth + 2 - j)
      BY <1>2
    <3>1. CASE j = n + 1
      BY <1>1, <1>2, <3>1, PathFound
    <3>2. CASE j # n + 1
      BY <1>1, <1>2, <3>2 DEF Inv, ChainRight
    <3> QED  BY <3>1, <3>2
  <2>3. phase' = "chain" => Len(reverse') <= Depth /\ cursor' = PathSlot(Depth + 1 - Len(reverse'))
    <3>1. n # Depth => Depth + 1 - (n + 1) = Depth - n /\ n + 1 <= Depth
      BY <1>1, PathFound
    <3> QED  BY <1>2, <1>5, <3>1
  <2>4. Linked(Innermost.slot, target)'
    BY <1>1 DEF Inv, ChainRight, Linked, Innermost
  <2> QED  BY <1>1, <1>2, <1>5, <2>1, <2>2, <2>3, <2>4, PathFound DEF ChainRight
<1> QED  BY <1>6, <1>7, <1>8, <1>9 DEF Inv

LEMMA TurnRoundKeeps == ASSUME Inv, TurnRound PROVE Inv'
<1> USE DEF TurnRound, graphVars
<1>1. found /\ Depth' = Depth /\ Len(reverse) = Depth + 1 /\ reverse \in Seq(Slots)
  BY DEF Inv, Types, PhaseRight, ChainRight, Depth
<1>2. \A j \in 1..(Depth + 1) : reverse[j] = PathSlot(Depth + 2 - j)
  BY <1>1 DEF Inv, ChainRight
<1>3. reverse[Len(reverse)] = root
  BY <1>1, <1>2, PathFound
<1>4. chain' = [i \in 1..(Depth + 1) |-> PathSlot(i)]
  <2>1. chain' = [i \in 1..(Depth + 1) |-> reverse[Depth + 2 - i]]
    <3>1. \A i \in 1..(Depth + 1) : Depth + 1 + 1 - i = Depth + 2 - i
      BY <1>1, PathFound
    <3> QED  BY <1>1, <1>3, <3>1
  <2>2. \A i \in 1..(Depth + 1) : reverse[Depth + 2 - i] = PathSlot(i)
    BY <1>1, <1>2, PathFound
  <2> QED  BY <2>1, <2>2
<1>5. Types'
  <2>1. chain' \in Seq(Slots)
    BY <1>1, <1>4, PathFound
  <2> QED  BY <2>1 DEF Inv, Types
<1>6. CallsSeeEdges' /\ CallsArePath'
  BY <1>1 DEF Inv, CallsSeeEdges, CallsArePath, Linked
<1>7. PhaseRight' /\ VisitedReached' /\ NothingForgotten'
  BY <1>1 DEF Inv, PhaseRight, VisitedReached, NothingForgotten
<1>8. ChainRight'
  <2>1. \A i : PathSlot(i)' = PathSlot(i)
    BY <1>1 DEF PathSlot
  <2>2. Linked(Innermost.slot, target)'
    BY <1>1 DEF Inv, ChainRight, Linked, Innermost
  <2>3. chain' = [i \in 1..(Depth + 1) |-> PathSlot(i)]'
    BY <1>1, <1>4, <2>1
  <2>4. (\A j \in 1..Len(reverse) : reverse[j] = PathSlot(Depth + 2 - j))'
    BY <1>1, <1>2, <2>1
  <2>5. found' /\ phase' = "done" /\ (Depth > 0)' /\ (Len(reverse) <= Depth + 1)'
    BY <1>1, PathFound
  <2> QED  BY <2>2, <2>3, <2>4, <2>5 DEF ChainRight
<1> QED  BY <1>5, <1>6, <1>7, <1>8 DEF Inv

\* A new slot has no edges yet.
LEMMA CreateSlotKeeps == ASSUME Inv, CreateSlot PROVE Inv'
<1> USE DEF CreateSlot, graphVars
<1>1. Depth' = Depth /\ Innermost' = Innermost
  BY DEF Depth, Innermost
<1>2. Types'
  BY SlotsAssumption DEF Inv, Types
<1>3. CallsSeeEdges'
  BY <1>1 DEF Inv, CallsSeeEdges, Types, Orders!Edges, Slots
<1>4. CallsArePath' /\ PhaseRight' /\ VisitedReached'
  BY <1>1 DEF Inv, CallsArePath, PhaseRight, VisitedReached, Linked
<1>5. NothingForgotten'
  BY <1>1 DEF Inv, NothingForgotten, StillToDo
<1>6. ChainRight'
  BY <1>1 DEF Inv, ChainRight, PathSlot, Linked
<1> QED  BY <1>2, <1>3, <1>4, <1>5, <1>6 DEF Inv

LEMMA StutterKeeps == ASSUME Inv, UNCHANGED vars PROVE Inv'
<1>1. Depth' = Depth /\ Innermost' = Innermost
  BY DEF vars, Depth, Innermost
<1>2. Types' /\ CallsSeeEdges' /\ CallsArePath' /\ PhaseRight'
  BY <1>1 DEF vars, graphVars, Inv, Types, CallsSeeEdges, CallsArePath, PhaseRight, Linked
<1>3. VisitedReached' /\ NothingForgotten' /\ ChainRight'
  BY <1>1 DEF vars, graphVars, Inv, VisitedReached, NothingForgotten, StillToDo, ChainRight,
              PathSlot, Linked
<1> QED  BY <1>2, <1>3 DEF Inv

LEMMA InvStep == Inv /\ [Next]_vars => Inv'
BY FindTargetKeeps, EnterCallKeeps, PassOverKeeps, DescendKeeps, BackOutKeeps,
   ReadParentKeeps, TurnRoundKeeps, CreateSlotKeeps, StutterKeeps DEF Next, Search

LEMMA InvAlways == Spec => []Inv
<1>1. Init => Inv
  BY InvInit
<1>2. Inv /\ [Next]_vars => Inv'
  BY InvStep
<1> QED  BY <1>1, <1>2, PTL DEF Spec

-----------------------------------------------------------------------------
(* The theorems. *)

\* The types hold, the calls nest no deeper than there are slots, and the chain
\* stays inside its arrays (all of size LOCKDEP_MAX_LOCK_SLOTS).
THEOREM TypeCorrect == Spec => []TypeOK
<1>1. ASSUME Inv PROVE TypeOK
  <2>1. Depth + 1 <= MaxLockSlots
    BY <1>1, CallsAreFew, CallsNotTarget DEF Inv, Types
  <2>2. Len(calls) < MaxLockSlots
    BY <1>1, <2>1, SlotsAssumption DEF Inv, Types, Depth
  <2>3. Len(reverse) <= MaxLockSlots
    BY <1>1, <2>1, SlotsAssumption DEF Inv, Types, ChainRight, Depth
  <2> QED  BY <1>1, <2>2, <2>3 DEF Inv, Types, TypeOK
<1> QED  BY <1>1, InvAlways, PTL

\* The search finds a path exactly if there is one.
THEOREM SearchCorrect == Spec => []SearchIsRight
<1>1. ASSUME Inv PROVE SearchIsRight
  <2>1. CASE found
    <3>1. Innermost.slot \in visited /\ <<Innermost.slot, target>> \in graph
      BY <1>1, <2>1, PathFound DEF Inv, ChainRight, CallsArePath, Linked, Innermost, Depth
    <3>2. Orders!Reaches(graph, root, Innermost.slot)
      BY <1>1, <3>1 DEF Inv, VisitedReached
    <3> QED  BY <2>1, <3>1, <3>2, ReachesNext DEF SearchIsRight
  <2>2. CASE ~found /\ phase = "done"
    <3>1. Depth = 0
      BY <1>1, <2>2 DEF Inv, PhaseRight
    <3>2. \A e \in graph : e[1] \in visited => e[2] \in visited
      BY <1>1, <2>2, <3>1 DEF Inv, NothingForgotten, StillToDo
    <3>3. root \in visited /\ target \notin visited /\ visited \in SUBSET Slots
      BY <1>1, <2>2 DEF Inv, Types, VisitedReached
    <3> QED  BY <2>2, <3>2, <3>3, ClosedShutsOut DEF SearchIsRight
  <2>3. CASE ~found /\ phase # "done"
    BY <1>1, <2>3 DEF Inv, PhaseRight, SearchIsRight
  <2> QED  BY <2>1, <2>2, <2>3
<1> QED  BY <1>1, InvAlways, PTL

\* The chain that is reported is a simple path of recorded edges from the new
\* edge's end to its start.
THEOREM ChainCorrect == Spec => []ChainIsPath
<1>1. ASSUME Inv, phase = "done", found PROVE IsSimplePath(graph, chain, root, target)
  <2>1. chain = [i \in 1..(Depth + 1) |-> PathSlot(i)]
    BY <1>1 DEF Inv, ChainRight
  <2>2. Depth \in Nat /\ Len(chain) = Depth + 1 /\ \A i \in 1..(Depth + 1) : chain[i] = PathSlot(i)
    BY <1>1, <2>1, PathFound DEF Inv, Types
  <2>3. chain # << >> /\ chain[1] = root /\ chain[Len(chain)] = target
    BY <1>1, <2>2, PathFound
  <2>4. \A i \in 1..(Len(chain) - 1) : <<chain[i], chain[i + 1]>> \in graph
    BY <1>1, <2>2, PathFound DEF Linked
  <2>5. \A i, j \in 1..Len(chain) : chain[i] = chain[j] => i = j
    BY <1>1, <2>2, PathFound
  <2> QED  BY <2>3, <2>4, <2>5 DEF IsSimplePath
<1>2. Inv => ChainIsPath
  BY <1>1 DEF ChainIsPath
<1> QED  BY <1>2, InvAlways, PTL

=============================================================================
