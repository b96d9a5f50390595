-------------------------- MODULE GlobalGraphProofs --------------------------
(***************************************************************************)
(* The synchronous backend, for every number of threads and mutexes: its   *)
(* type invariant, that no lock order escapes it, and that it implements   *)
(* LockOrder.                                                              *)
(***************************************************************************)
EXTENDS GlobalGraph, HeldStackProofs, TLAPS

\* The orders of an acquire are edges.
LEMMA OrdersOfType ==
    ASSUME TypeOK, NEW t \in Threads, NEW m \in Locks
    PROVE  OrdersOf(t, m) \subseteq Edges
<1>1. held[t] \in Seq(Locks)
  BY DEF TypeOK
<1>2. \A j \in 1..Len(held[t]) : held[t][j] \in Locks
  BY <1>1
<1>3. QED
  BY <1>2 DEF OrdersOf, Edges

\* t does not run in the loop body afterwards, and nothing of the other
\* threads changes: whoever runs in the loop body still has an edge.
LEMMA BodyFrame ==
    ASSUME TypeOK, NEW t \in Threads, pc'[t] \in {"idle", "check", "add"},
           \A u \in Threads \ {t} :
               /\ pc'[u] = pc[u] /\ idx'[u] = idx[u]
               /\ held'[u] = held[u] /\ new'[u] = new[u]
    PROVE  \A u \in Threads : pc'[u] \notin {"idle", "check", "add"} =>
               InLoop(u)' /\ Edge(u)' \in Edges
BY DEF TypeOK, InLoop, Edge

LEMMA TypeInit == Init => TypeOK
BY GlobalGraphAssumption DEF Init, TypeOK, Points, InLoop, Edge

LEMMA TypeStep == TypeOK /\ [Next]_vars => TypeOK'
<1>1. SUFFICES ASSUME TypeOK, [Next]_vars
               PROVE  TypeOK'
  OBVIOUS
<1> USE GlobalGraphAssumption DEF history
<1>2. ASSUME NEW t \in Threads, NEW m \in Locks, NEW f \in Functions, Acquire(t, m, f)
      PROVE  TypeOK'
  <2>1. OrdersOf(t, m) \subseteq Edges
    BY <1>1, <1>2, OrdersOfType
  <2>2. /\ held' \in [Threads -> Seq(Locks)]
        /\ new' \in [Threads -> Locks \cup {NoLock}]
        /\ pc' \in [Threads -> Points]
        /\ idx' \in [Threads -> Nat \ {0}]
        /\ observed' \subseteq Edges /\ blocking' \subseteq Edges
        /\ UNCHANGED <<found, meta, graph, pred, reported>>
    <3>1. <<m>> \in Seq(Locks)
      OBVIOUS
    <3>2. UNCHANGED <<found, meta, graph, pred, reported>>
      BY <1>2 DEF Acquire
    <3>3. CASE held[t] = << >>
      <4>1. /\ held' = [held EXCEPT ![t] = <<m>>]
            /\ UNCHANGED <<new, pc, idx, history>>
        BY <1>2, <3>3 DEF Acquire
      <4>2. held' \in [Threads -> Seq(Locks)]
        BY <1>1, <3>1, <4>1 DEF TypeOK
      <4>3. QED
        BY <1>1, <3>2, <4>1, <4>2 DEF TypeOK
    <3>4. CASE held[t] # << >>
      <4>1. /\ new' = [new EXCEPT ![t] = m]
            /\ pc' = [pc EXCEPT ![t] = "check"]
            /\ idx' = [idx EXCEPT ![t] = 1]
            /\ observed' = observed \cup OrdersOf(t, m)
            /\ blocking' \in {blocking, blocking \cup OrdersOf(t, m)}
            /\ UNCHANGED held
        BY <1>2, <3>4 DEF Acquire, Goto
      <4>2. idx' \in [Threads -> Nat \ {0}]
        BY <1>1, <4>1 DEF TypeOK
      <4>3. pc' \in [Threads -> Points]
        BY <1>1, <4>1 DEF TypeOK, Points
      <4>4. QED
        BY <1>1, <2>1, <3>2, <4>1, <4>2, <4>3 DEF TypeOK
    <3>5. QED
      BY <3>3, <3>4
  <2>3. pc'[t] \in {"idle", "check", "add"} /\ (pc'[t] # "idle" => new'[t] \in Locks)
    BY <1>1, <1>2 DEF Acquire, Goto, TypeOK
  <2>4. \A u \in Threads \ {t} :
            /\ pc'[u] = pc[u] /\ idx'[u] = idx[u]
            /\ held'[u] = held[u] /\ new'[u] = new[u]
    BY <1>1, <1>2 DEF Acquire, Goto, TypeOK
  <2>5. \A u \in Threads : pc'[u] \notin {"idle", "check", "add"} =>
            InLoop(u)' /\ Edge(u)' \in Edges
    BY <1>1, <2>3, <2>4, BodyFrame
  <2>6. QED
    BY <1>1, <2>2, <2>3, <2>4, <2>5 DEF TypeOK
<1>3. ASSUME NEW t \in Threads, NEW m \in Locks, Release(t, m)
      PROVE  TypeOK'
  <2>1. RemoveHeld(held[t], m) \in Seq(Locks)
    BY <1>1, RemoveHeldType DEF TypeOK
  <2>2. QED
    BY <1>1, <1>3, <2>1 DEF Release, TypeOK, InLoop, Edge
<1>4. ASSUME NEW t \in Threads, CheckPredecessor(t)
      PROVE  TypeOK'
  <2>1. pc'[t] \in {"check", "add"} /\ \A u \in Threads \ {t} :
            /\ pc'[u] = pc[u] /\ idx'[u] = idx[u]
            /\ held'[u] = held[u] /\ new'[u] = new[u]
    BY <1>1, <1>4 DEF CheckPredecessor, NextHeld, Goto, TypeOK
  <2>2. \A u \in Threads : pc'[u] \notin {"idle", "check", "add"} =>
            InLoop(u)' /\ Edge(u)' \in Edges
    BY <1>1, <2>1, BodyFrame
  <2>3. idx' \in [Threads -> Nat \ {0}]
    <3>1. \/ idx' = [idx EXCEPT ![t] = idx[t] + 1]
          \/ idx' = [idx EXCEPT ![t] = 1]
      BY <1>4 DEF CheckPredecessor, NextHeld
    <3>2. QED
      BY <1>1, <3>1 DEF TypeOK
  <2>4. pc' \in [Threads -> Points] /\ new[t] \in Locks
    <3>1. pc[t] = "check" /\ (UNCHANGED pc \/ pc' = [pc EXCEPT ![t] = "add"])
      BY <1>4 DEF CheckPredecessor, Goto
    <3>2. QED
      BY <1>1, <3>1 DEF TypeOK, Points
  <2>5. UNCHANGED <<held, new, found, meta, graph, pred, reported, history>>
    BY <1>4 DEF CheckPredecessor
  <2>6. \A u \in Threads : pc'[u] # "idle" => new'[u] \in Locks
    BY <1>1, <2>1, <2>4, <2>5 DEF TypeOK
  <2>7. QED
    BY <1>1, <2>2, <2>3, <2>4, <2>5, <2>6 DEF TypeOK
<1>5. ASSUME NEW t \in Threads, FinishAcquire(t)
      PROVE  TypeOK'
  <2>1. Append(held[t], new[t]) \in Seq(Locks)
    BY <1>1, <1>5 DEF FinishAcquire, TypeOK
  <2>2. \A u \in Threads : pc'[u] \notin {"idle", "check", "add"} =>
            InLoop(u)' /\ Edge(u)' \in Edges
    <3>1. pc'[t] = "idle" /\ \A u \in Threads \ {t} :
              /\ pc'[u] = pc[u] /\ idx'[u] = idx[u]
              /\ held'[u] = held[u] /\ new'[u] = new[u]
      BY <1>1, <1>5 DEF FinishAcquire, Push, Goto, TypeOK
    <3>2. QED
      BY <1>1, <3>1, BodyFrame
  <2>3. QED
    BY <1>1, <1>5, <2>1, <2>2 DEF FinishAcquire, Push, Goto, TypeOK, Points
<1>6. ASSUME NEW t \in Threads, SkipSelf(t)
      PROVE  TypeOK'
  BY <1>1, <1>6 DEF SkipSelf, NextHeld, TypeOK, InLoop, Edge, Points
<1>7. ASSUME NEW t \in Threads, LockMeta(t)
      PROVE  TypeOK'
  <2>1. Edge(t) \in Edges
    <3>1. held[t] \in Seq(Locks) /\ idx[t] \in 1..Len(held[t]) /\ new[t] \in Locks
      BY <1>1, <1>7 DEF LockMeta, InLoop, TypeOK
    <3>2. held[t][idx[t]] \in Locks
      BY <3>1
    <3>3. QED
      BY <1>7, <3>1, <3>2 DEF LockMeta, ProperEdge, Edge, Edges
  <2>2. QED
    BY <1>1, <1>7, <2>1 DEF LockMeta, Goto, TypeOK, InLoop, Edge, Points
<1>8. ASSUME NEW t \in Threads, SearchPath(t)
      PROVE  TypeOK'
  <2>1. ClosesCycle(graph, Edge(t)) \in BOOLEAN
    BY DEF ClosesCycle, Reaches
  <2>2. QED
    BY <1>1, <1>8, <2>1
       DEF SearchPath, FindsCycle, Goto, TypeOK, InLoop, Edge, Points
<1>9. ASSUME NEW t \in Threads, InsertEdge(t)
      PROVE  TypeOK'
  BY <1>1, <1>9 DEF InsertEdge, Goto, TypeOK, InLoop, Edge, Points
<1>10. ASSUME NEW t \in Threads, Publish(t)
       PROVE  TypeOK'
  <2>1. Edge(t)[1] \in Locks /\ Edge(t)[2] \in Locks
    BY <1>1, <1>10 DEF Publish, TypeOK, Edges
  <2>2. pred' \in [Locks -> SUBSET Locks]
    BY <1>1, <1>10, <2>1 DEF Publish, PublishPredecessor, TypeOK
  <2>3. QED
    BY <1>1, <1>10, <2>2 DEF Publish, Goto, TypeOK, InLoop, Edge, Points
<1>11. ASSUME NEW t \in Threads, UnlockMeta(t)
       PROVE  TypeOK'
  <2>1. CASE found[t]
    BY <1>1, <1>11, <2>1 DEF UnlockMeta, Goto, TypeOK, InLoop, Edge, Points
  <2>2. CASE ~found[t]
    <3>1. pc'[t] = "add" /\ \A u \in Threads \ {t} :
              /\ pc'[u] = pc[u] /\ idx'[u] = idx[u]
              /\ held'[u] = held[u] /\ new'[u] = new[u]
      BY <1>1, <1>11, <2>2 DEF UnlockMeta, NextHeld, Goto, TypeOK
    <3>2. \A u \in Threads : pc'[u] \notin {"idle", "check", "add"} =>
              InLoop(u)' /\ Edge(u)' \in Edges
      BY <1>1, <3>1, BodyFrame
    <3>3. idx' \in [Threads -> Nat \ {0}]
      BY <1>1, <1>11 DEF UnlockMeta, NextHeld, TypeOK
    <3>4. QED
      BY <1>1, <1>11, <2>2, <3>2, <3>3 DEF UnlockMeta, Goto, TypeOK, Points
  <2>3. QED
    BY <2>1, <2>2
<1>12. ASSUME NEW t \in Threads, Report(t)
       PROVE  TypeOK'
  <2>1. pc'[t] = "add" /\ \A u \in Threads \ {t} :
            /\ pc'[u] = pc[u] /\ idx'[u] = idx[u]
            /\ held'[u] = held[u] /\ new'[u] = new[u]
    BY <1>1, <1>12 DEF Report, NextHeld, Goto, TypeOK
  <2>2. \A u \in Threads : pc'[u] \notin {"idle", "check", "add"} =>
            InLoop(u)' /\ Edge(u)' \in Edges
    BY <1>1, <2>1, BodyFrame
  <2>3. idx' \in [Threads -> Nat \ {0}]
    BY <1>1, <1>12 DEF Report, NextHeld, TypeOK
  <2>4. Edge(t) \in Edges
    BY <1>1, <1>12 DEF Report, TypeOK
  <2>5. QED
    BY <1>1, <1>12, <2>2, <2>3, <2>4 DEF Report, Goto, TypeOK, Points
<1>13. CASE UNCHANGED vars
  BY <1>1, <1>13 DEF vars, TypeOK, InLoop, Edge
<1>14. QED
  BY <1>1, <1>2, <1>3, <1>4, <1>5, <1>6, <1>7, <1>8, <1>9, <1>10, <1>11,
     <1>12, <1>13 DEF Next, Call, Internal

\* The backend's state has its types, and a thread in the loop body has an
\* edge between two different locks.
THEOREM TypeCorrect == Spec => []TypeOK
<1>1. QED
  BY TypeInit, TypeStep, PTL DEF Spec

-----------------------------------------------------------------------------
(* What the spin lock protects. *)

\* The thread under the spin lock is its owner, so there is one at most.
OwnsMeta == \A t \in Threads :
    pc[t] \in {"search", "insert", "publish", "unlock"} => meta = t

\* A found cycle is remembered from the search until it is printed.
FoundPlaces == \A t \in Threads :
    /\ found[t] => pc[t] \in {"insert", "publish", "unlock", "report"}
    /\ pc[t] = "report" => found[t]

\* What the search has found still holds when the edge is inserted.
SearchFresh == \A t \in Threads : pc[t] = "insert" =>
    Edge(t) \notin graph /\ found[t] = ClosesCycle(graph, Edge(t))

\* After its insertion an edge is in the graph.
Inserted == \A t \in Threads :
    pc[t] \in {"publish", "unlock", "report"} => Edge(t) \in graph

\* t's edge is recorded and its cycle not yet printed.
Due(t) == found[t] /\ pc[t] # "insert"

\* No two threads are about to print the same edge.
DueOnce == \A t, u \in Threads : Due(t) /\ Due(u) /\ Edge(t) = Edge(u) => t = u

LockInv == TypeOK /\ OwnsMeta /\ FoundPlaces /\ SearchFresh /\ Inserted /\ DueOnce

\* A step of t leaves the other threads where they are.
LEMMA OthersStay ==
    ASSUME TypeOK, NEW t \in Threads,
           Internal(t) \/ \E m \in Locks : Call(t, m)
    PROVE  \A u \in Threads \ {t} :
               /\ pc'[u] = pc[u] /\ found'[u] = found[u]
               /\ held'[u] = held[u] /\ new'[u] = new[u] /\ idx'[u] = idx[u]
               /\ Edge(u)' = Edge(u)
<1>1. SUFFICES \A u \in Threads \ {t} :
               /\ pc'[u] = pc[u] /\ found'[u] = found[u]
               /\ held'[u] = held[u] /\ new'[u] = new[u] /\ idx'[u] = idx[u]
  BY DEF Edge
<1>2. ASSUME NEW m \in Locks, Call(t, m)
      PROVE  \A u \in Threads \ {t} :
               /\ pc'[u] = pc[u] /\ found'[u] = found[u]
               /\ held'[u] = held[u] /\ new'[u] = new[u] /\ idx'[u] = idx[u]
  BY <1>2 DEF Call, Acquire, Release, Goto, TypeOK
<1>3. CASE CheckPredecessor(t) \/ FinishAcquire(t) \/ SkipSelf(t)
  BY <1>3 DEF CheckPredecessor, FinishAcquire, Push, SkipSelf, NextHeld, Goto, TypeOK
<1>4. CASE LockMeta(t) \/ SearchPath(t) \/ InsertEdge(t) \/ Publish(t)
  BY <1>4 DEF LockMeta, SearchPath, InsertEdge, Publish, Goto, TypeOK
<1>5. CASE UnlockMeta(t) \/ Report(t)
  BY <1>5 DEF UnlockMeta, Report, NextHeld, Goto, TypeOK
<1>6. QED
  BY <1>2, <1>3, <1>4, <1>5 DEF Internal

\* Steps outside the spin lock do not disturb what it protects.
LEMMA OutsideStep ==
    ASSUME LockInv, TypeOK', NEW t \in Threads,
           pc[t] \in {"idle", "check", "add"}, pc'[t] \in {"idle", "check", "add"},
           UNCHANGED <<found, meta, graph>>,
           \A u \in Threads \ {t} : pc'[u] = pc[u] /\ Edge(u)' = Edge(u)
    PROVE  LockInv' /\ Pending' = Pending
<1>1. ~found[t] /\ ~found'[t]
  BY DEF LockInv, FoundPlaces
<1>2. \A u \in Threads : Due(u)' <=> Due(u)
  BY <1>1 DEF Due
<1>3. \A u \in Threads : Due(u) => u # t /\ Edge(u)' = Edge(u)
  BY <1>1 DEF Due
<1>4. OwnsMeta' /\ FoundPlaces'
  BY <1>1 DEF LockInv, OwnsMeta, FoundPlaces
<1>5. SearchFresh' /\ Inserted'
  BY DEF LockInv, SearchFresh, Inserted
<1>6. DueOnce'
  BY <1>2, <1>3 DEF LockInv, DueOnce
<1>7. Pending' = Pending
  BY <1>2, <1>3 DEF Pending, Due
<1>8. QED
  BY <1>4, <1>5, <1>6, <1>7 DEF LockInv

LEMMA LockInit == Init => LockInv /\ Abstract!Init
<1>1. SUFFICES ASSUME Init
               PROVE  LockInv /\ Abstract!Init
  OBVIOUS
<1>2. OwnsMeta /\ FoundPlaces /\ SearchFresh /\ Inserted /\ DueOnce
  BY <1>1 DEF Init, OwnsMeta, FoundPlaces, SearchFresh, Inserted, DueOnce, Due
<1>3. Abstract!Init
  BY <1>1 DEF Init, Abstract!Init, Pending
<1>4. QED
  BY <1>1, <1>2, <1>3, TypeInit DEF LockInv

\* Every step keeps the invariant, and is a step of LockOrder or none.
LEMMA LockStep ==
    LockInv /\ [Next]_vars => LockInv' /\ [Abstract!Next]_(Abstract!vars)
<1>1. SUFFICES ASSUME LockInv, [Next]_vars
               PROVE  LockInv' /\ [Abstract!Next]_(Abstract!vars)
  OBVIOUS
<1>2. TypeOK /\ TypeOK'
  BY <1>1, TypeStep DEF LockInv
<1>3. ASSUME NEW t \in Threads, NEW m \in Locks, Call(t, m)
      PROVE  LockInv' /\ [Abstract!Next]_(Abstract!vars)
  <2>1. /\ pc[t] \in {"idle", "check", "add"} /\ pc'[t] \in {"idle", "check", "add"}
        /\ UNCHANGED <<found, meta, graph, reported>>
    BY <1>2, <1>3 DEF Call, Acquire, Release, Goto, TypeOK
  <2>2. LockInv' /\ Pending' = Pending
    BY <1>1, <1>2, <1>3, <2>1, OthersStay, OutsideStep
  <2>3. QED
    BY <2>1, <2>2 DEF Abstract!vars
<1>4. ASSUME NEW t \in Threads, CheckPredecessor(t) \/ FinishAcquire(t) \/ SkipSelf(t)
      PROVE  LockInv' /\ [Abstract!Next]_(Abstract!vars)
  <2>1. /\ pc[t] \in {"idle", "check", "add"} /\ pc'[t] \in {"idle", "check", "add"}
        /\ UNCHANGED <<found, meta, graph, reported>>
    BY <1>2, <1>4
       DEF CheckPredecessor, FinishAcquire, Push, SkipSelf, Goto, TypeOK
  <2>2. LockInv' /\ Pending' = Pending
    BY <1>1, <1>2, <1>4, <2>1, OthersStay, OutsideStep DEF Internal
  <2>3. QED
    BY <2>1, <2>2 DEF Abstract!vars
<1>5. ASSUME NEW t \in Threads,
             \/ LockMeta(t) \/ SearchPath(t) \/ InsertEdge(t)
             \/ Publish(t) \/ UnlockMeta(t) \/ Report(t)
      PROVE  LockInv' /\ [Abstract!Next]_(Abstract!vars)
  <2>1. \A u \in Threads \ {t} :
               /\ pc'[u] = pc[u] /\ found'[u] = found[u]
               /\ Edge(u)' = Edge(u) /\ (Due(u)' <=> Due(u))
    BY <1>2, <1>5, OthersStay DEF Internal, Due
  <2>2. CASE LockMeta(t)
    <3>1. /\ pc[t] = "add" /\ pc'[t] = "search" /\ meta = NoThread /\ meta' = t
          /\ Edge(t)' = Edge(t)
          /\ UNCHANGED <<found, graph, reported>>
      BY <1>2, <2>2 DEF LockMeta, MetaFree, Goto, TypeOK, Edge
    <3>2. ~found[t] /\ ~found'[t]
      BY <1>1, <3>1 DEF LockInv, FoundPlaces
    <3>3. \A u \in Threads : Edge(u)' = Edge(u) /\ (Due(u)' <=> Due(u))
      BY <2>1, <3>1, <3>2 DEF Due
    <3>4. OwnsMeta'
      BY <1>1, <2>1, <3>1, GlobalGraphAssumption DEF LockInv, OwnsMeta
    <3>5. FoundPlaces' /\ SearchFresh' /\ Inserted'
      BY <1>1, <2>1, <3>1, <3>2 DEF LockInv, FoundPlaces, SearchFresh, Inserted
    <3>6. DueOnce'
      BY <1>1, <3>3 DEF LockInv, DueOnce
    <3>7. UNCHANGED Abstract!vars
      BY <3>1, <3>3 DEF Abstract!vars, Pending, Due
    <3>8. QED
      BY <1>2, <3>4, <3>5, <3>6, <3>7 DEF LockInv
  <2>3. CASE SearchPath(t)
    <3>1. /\ pc[t] = "search" /\ ~found[t]
          /\ Edge(t)' = Edge(t)
          /\ UNCHANGED <<meta, graph, reported>>
      BY <1>1, <2>3 DEF SearchPath, LockInv, FoundPlaces, Edge
    <3>2. \/ pc'[t] = "unlock" /\ Edge(t) \in graph /\ ~found'[t]
          \/ /\ pc'[t] = "insert" /\ Edge(t) \notin graph
             /\ found'[t] = ClosesCycle(graph, Edge(t))
      BY <1>2, <2>3, <3>1 DEF SearchPath, FindsCycle, Goto, TypeOK
    <3>3. \A u \in Threads : Edge(u)' = Edge(u) /\ (Due(u)' <=> Due(u))
      BY <2>1, <3>1, <3>2 DEF Due
    <3>4. OwnsMeta' /\ FoundPlaces' /\ Inserted'
      BY <1>1, <2>1, <3>1, <3>2 DEF LockInv, OwnsMeta, FoundPlaces, Inserted
    <3>5. SearchFresh'
      BY <1>1, <2>1, <3>1, <3>2 DEF LockInv, SearchFresh
    <3>6. DueOnce'
      BY <1>1, <3>3 DEF LockInv, DueOnce
    <3>7. UNCHANGED Abstract!vars
      BY <3>1, <3>3 DEF Abstract!vars, Pending, Due
    <3>8. QED
      BY <1>2, <3>4, <3>5, <3>6, <3>7 DEF LockInv
  <2>4. CASE InsertEdge(t)
    <3>1. /\ pc[t] = "insert" /\ pc'[t] = "publish"
          /\ Edge(t) \notin graph /\ found[t] = ClosesCycle(graph, Edge(t))
          /\ graph' = graph \cup {Edge(t)}
          /\ Edge(t)' = Edge(t) /\ Edge(t) \in Edges
          /\ UNCHANGED <<found, meta, reported>>
      BY <1>1, <1>2, <2>4 DEF InsertEdge, Goto, LockInv, SearchFresh, TypeOK, Edge
    <3>2. \A u \in Threads \ {t} : pc[u] \notin {"search", "insert", "publish", "unlock"}
      BY <1>1, <3>1 DEF LockInv, OwnsMeta
    <3>3. ~Due(t) /\ (Due(t)' <=> found[t])
      BY <3>1 DEF Due
    <3>4. OwnsMeta' /\ FoundPlaces' /\ Inserted'
      BY <1>1, <2>1, <3>1 DEF LockInv, OwnsMeta, FoundPlaces, Inserted
    <3>5. SearchFresh'
      BY <2>1, <3>1, <3>2 DEF SearchFresh
    <3>6. \A u \in Threads : Due(u) => Edge(u) \in graph
      BY <1>1, <1>2 DEF LockInv, FoundPlaces, Inserted, Due
    <3>7. DueOnce'
      BY <1>1, <2>1, <3>1, <3>3, <3>6 DEF LockInv, DueOnce
    <3>8. Pending' = IF found[t] THEN Pending \cup {Edge(t)} ELSE Pending
      <4>1. Pending = {Edge(u) : u \in {v \in Threads : Due(v)}}
        BY DEF Pending, Due
      <4>2. Pending' = {Edge(u)' : u \in {v \in Threads : Due(v)'}}
        BY DEF Pending, Due
      <4>3. QED
        BY <2>1, <3>1, <3>3, <4>1, <4>2
    <3>9. Abstract!Record(Edge(t))
      BY <3>1, <3>8 DEF Abstract!Record, Abstract!ClosesCycle, Abstract!Reaches,
         Abstract!Closed, ClosesCycle, Reaches, Closed
    <3>10. QED
      BY <1>2, <3>1, <3>4, <3>5, <3>7, <3>9
         DEF LockInv, Abstract!Next, Abstract!Edges, Edges
  <2>5. CASE Publish(t)
    <3>1. /\ pc[t] = "publish" /\ pc'[t] = "unlock"
          /\ Edge(t)' = Edge(t)
          /\ UNCHANGED <<found, meta, graph, reported>>
      BY <1>2, <2>5 DEF Publish, Goto, TypeOK, Edge
    <3>2. \A u \in Threads : Edge(u)' = Edge(u) /\ (Due(u)' <=> Due(u))
      BY <2>1, <3>1 DEF Due
    <3>3. OwnsMeta' /\ FoundPlaces' /\ SearchFresh' /\ Inserted'
      BY <1>1, <2>1, <3>1 DEF LockInv, OwnsMeta, FoundPlaces, SearchFresh, Inserted
    <3>4. DueOnce'
      BY <1>1, <3>2 DEF LockInv, DueOnce
    <3>5. UNCHANGED Abstract!vars
      BY <3>1, <3>2 DEF Abstract!vars, Pending, Due
    <3>6. QED
      BY <1>2, <3>3, <3>4, <3>5 DEF LockInv
  <2>6. CASE UnlockMeta(t)
    <3>1. /\ pc[t] = "unlock"
          /\ meta' = NoThread
          /\ UNCHANGED <<found, graph, reported>>
      BY <2>6 DEF UnlockMeta
    <3>2. \/ found[t] /\ pc'[t] = "report" /\ Edge(t)' = Edge(t)
          \/ ~found[t] /\ pc'[t] = "add"
      BY <1>2, <2>6 DEF UnlockMeta, Goto, TypeOK, Edge
    <3>3. \A u \in Threads : (Due(u)' <=> Due(u)) /\ (Due(u) => Edge(u)' = Edge(u))
      BY <2>1, <3>1, <3>2 DEF Due
    <3>4. \A u \in Threads \ {t} : pc[u] \notin {"search", "insert", "publish", "unlock"}
      BY <1>1, <3>1 DEF LockInv, OwnsMeta
    <3>5. OwnsMeta' /\ SearchFresh'
      BY <2>1, <3>2, <3>4 DEF OwnsMeta, SearchFresh
    <3>6. FoundPlaces' /\ Inserted'
      BY <1>1, <2>1, <3>1, <3>2 DEF LockInv, FoundPlaces, Inserted
    <3>7. DueOnce'
      BY <1>1, <3>3 DEF LockInv, DueOnce
    <3>8. UNCHANGED Abstract!vars
      BY <3>1, <3>3 DEF Abstract!vars, Pending, Due
    <3>9. QED
      BY <1>2, <3>5, <3>6, <3>7, <3>8 DEF LockInv
  <2>7. CASE Report(t)
    <3>1. /\ pc[t] = "report" /\ pc'[t] = "add" /\ found[t] /\ ~found'[t]
          /\ reported' = reported \cup {Edge(t)} /\ Edge(t) \in Edges
          /\ UNCHANGED <<meta, graph>>
      BY <1>1, <1>2, <2>7 DEF Report, Goto, TypeOK, LockInv, FoundPlaces
    <3>2. Due(t) /\ ~Due(t)'
      BY <3>1 DEF Due
    <3>3. OwnsMeta' /\ FoundPlaces' /\ SearchFresh' /\ Inserted'
      BY <1>1, <2>1, <3>1 DEF LockInv, OwnsMeta, FoundPlaces, SearchFresh, Inserted
    <3>4. DueOnce'
      BY <1>1, <2>1, <3>2 DEF LockInv, DueOnce
    <3>5. Edge(t) \in Pending /\ Pending' = Pending \ {Edge(t)}
      <4>1. Pending = {Edge(u) : u \in {v \in Threads : Due(v)}}
        BY DEF Pending, Due
      <4>2. Pending' = {Edge(u)' : u \in {v \in Threads : Due(v)'}}
        BY DEF Pending, Due
      <4>3. \A u \in Threads \ {t} : Due(u) => Edge(u) # Edge(t)
        BY <1>1, <3>2 DEF LockInv, DueOnce
      <4>4. QED
        BY <2>1, <3>2, <4>1, <4>2, <4>3
    <3>6. Abstract!Report(Edge(t))
      BY <3>1, <3>5 DEF Abstract!Report
    <3>7. QED
      BY <1>2, <3>1, <3>3, <3>4, <3>6
         DEF LockInv, Abstract!Next, Abstract!Edges, Edges
  <2>8. QED
    BY <1>5, <2>2, <2>3, <2>4, <2>5, <2>6, <2>7
<1>6. CASE UNCHANGED vars
  <2>1. \A u \in Threads : Edge(u)' = Edge(u) /\ (Due(u)' <=> Due(u))
    BY <1>6 DEF vars, Edge, Due
  <2>2. LockInv'
    BY <1>1, <1>2, <1>6, <2>1
       DEF vars, LockInv, OwnsMeta, FoundPlaces, SearchFresh, Inserted, DueOnce
  <2>3. UNCHANGED Abstract!vars
    BY <1>6, <2>1 DEF vars, Abstract!vars, Pending, Due
  <2>4. QED
    BY <2>2, <2>3
<1>7. QED
  BY <1>1, <1>3, <1>4, <1>5, <1>6 DEF Next, Internal

\* The synchronous backend implements LockOrder: every order is recorded in one
\* step together with the verdict on its cycle, and what is found is printed.
THEOREM BackendImplementsLockOrder == Spec => ImplementsLockOrder
<1>1. Init => LockInv /\ Abstract!Init
  BY LockInit
<1>2. LockInv /\ [Next]_vars => LockInv' /\ [Abstract!Next]_(Abstract!vars)
  BY LockStep
<1>3. QED
  BY <1>1, <1>2, PTL DEF Spec, ImplementsLockOrder, Abstract!Spec

\* Through LockOrder: a cyclic graph never goes unnoticed.
Order == INSTANCE LockOrderProofs WITH recorded <- graph, pending <- Pending

LEMMA OrderAlways == Spec => [](Order!CyclesNoticed /\ Order!ReportsOnCycles)
<1>1. Abstract!Init => Order!Init
  BY DEF Abstract!Init, Order!Init
<1>2. [Abstract!Next]_(Abstract!vars) => [Order!Next]_(Order!vars)
  BY DEF Abstract!Next, Abstract!vars, Abstract!Record, Abstract!Report,
     Abstract!Edges, Abstract!ClosesCycle, Abstract!Reaches, Abstract!Closed,
     Order!Next, Order!vars, Order!Record, Order!Report,
     Order!Edges, Order!ClosesCycle, Order!Reaches, Order!Closed
<1>3. Order!Spec => []Order!CyclesNoticed
  BY Order!CyclesAreNoticed
<1>4. Order!Spec => []Order!ReportsOnCycles
  BY Order!ReportsAreOnCycles
<1>5. QED
  BY <1>1, <1>2, <1>3, <1>4, BackendImplementsLockOrder, PTL
     DEF ImplementsLockOrder, Abstract!Spec, Order!Spec

\* Whatever the interleaving of the inserting threads, a cyclic graph has a
\* report, printed or remembered by the thread that found it.
THEOREM CyclesAreNoticed == Spec => []CyclesNoticed
<1>1. Order!CyclesNoticed => CyclesNoticed
  BY DEF Order!CyclesNoticed, Order!Cyclic, Order!ClosesCycle, Order!Reaches,
     Order!Closed, CyclesNoticed, Cyclic, ClosesCycle, Reaches, Closed, Pending
<1>2. QED
  BY <1>1, OrderAlways, PTL

\* Every printed edge lies on a cycle of the graph.
THEOREM ReportsAreOnCycles == Spec => []ReportsOnCycles
<1>1. Order!ReportsOnCycles => ReportsOnCycles
  BY DEF Order!ReportsOnCycles, Order!ClosesCycle, Order!Reaches, Order!Closed,
     ReportsOnCycles, ClosesCycle, Reaches, Closed
<1>2. QED
  BY <1>1, OrderAlways, PTL

-----------------------------------------------------------------------------
(* No order is lost. *)

\* The orders the loop has passed are in the graph.
LoopDone == \A t \in Threads : pc[t] # "idle" =>
    \A j \in 1..Len(held[t]) :
        j < idx[t] /\ held[t][j] # new[t] => <<held[t][j], new[t]>> \in graph

RecordInv == LockInv /\ PredecessorsMatchGraph /\ LoopDone /\ HeldOrdersRecorded

LEMMA RecordInit == Init => RecordInv
<1>1. SUFFICES ASSUME Init PROVE RecordInv
  OBVIOUS
<1>2. PredecessorsMatchGraph /\ LoopDone /\ HeldOrdersRecorded
  BY <1>1 DEF Init, PredecessorsMatchGraph, LoopDone, HeldOrdersRecorded
<1>3. QED
  BY <1>1, <1>2, LockInit DEF RecordInv

\* The bits: only an insertion changes the matrix, only its publication a row.
LEMMA BitsStep ==
    ASSUME LockInv, PredecessorsMatchGraph, [Next]_vars
    PROVE  PredecessorsMatchGraph'
<1>1. TypeOK /\ TypeOK'
  BY TypeStep DEF LockInv
<1>2. ASSUME NEW t \in Threads, InsertEdge(t)
      PROVE  PredecessorsMatchGraph'
  <2>1. /\ pc[t] = "insert" /\ pc'[t] = "publish" /\ Edge(t)' = Edge(t)
        /\ graph' = graph \cup {Edge(t)} /\ UNCHANGED pred
    BY <1>1, <1>2 DEF InsertEdge, Goto, TypeOK, Edge
  <2>2. \A u \in Threads \ {t} : pc'[u] = pc[u] /\ Edge(u)' = Edge(u)
    BY <1>1, <1>2, OthersStay DEF Internal
  <2>3. QED
    BY <2>1, <2>2 DEF PredecessorsMatchGraph
<1>3. ASSUME NEW t \in Threads, Publish(t)
      PROVE  PredecessorsMatchGraph'
  <2>1. /\ pc[t] = "publish" /\ Edge(t) \in graph /\ Edge(t) \in Edges
        /\ pred' = [pred EXCEPT ![Edge(t)[2]] = @ \cup {Edge(t)[1]}]
        /\ UNCHANGED graph
    BY <1>1, <1>3 DEF Publish, PublishPredecessor, TypeOK, LockInv, Inserted
  <2>2. \A u \in Threads \ {t} : pc'[u] = pc[u] /\ Edge(u)' = Edge(u)
    BY <1>1, <1>3, OthersStay DEF Internal
  <2>3. \A a, b \in Locks : a \in pred'[b] <=> a \in pred[b] \/ <<a, b>> = Edge(t)
    <3>1. PICK f \in Locks, g \in Locks : Edge(t) = <<f, g>>
      BY <2>1 DEF Edges
    <3>2. pred' = [pred EXCEPT ![g] = pred[g] \cup {f}]
      BY <2>1, <3>1
    <3>3. QED
      BY <1>1, <3>1, <3>2 DEF TypeOK
  <2>4. ASSUME NEW a \in Locks, NEW b \in Locks
        PROVE  /\ a \in pred'[b] => <<a, b>> \in graph
               /\ <<a, b>> \in graph =>
                     \/ a \in pred'[b]
                     \/ \E u \in Threads : pc'[u] = "publish" /\ Edge(u)' = <<a, b>>
    <3>1. a \in pred'[b] => <<a, b>> \in graph
      BY <2>1, <2>3 DEF PredecessorsMatchGraph
    <3>2. ASSUME <<a, b>> \in graph, a \notin pred'[b]
          PROVE  \E u \in Threads : pc'[u] = "publish" /\ Edge(u)' = <<a, b>>
      <4>1. PICK u \in Threads : pc[u] = "publish" /\ Edge(u) = <<a, b>>
        BY <2>3, <3>2 DEF PredecessorsMatchGraph
      <4>2. u # t
        BY <2>3, <3>2, <4>1
      <4>3. QED
        BY <2>2, <4>1, <4>2
    <3>3. QED
      BY <3>1, <3>2
  <2>5. QED
    BY <2>1, <2>4 DEF PredecessorsMatchGraph
<1>4. ASSUME NEW t \in Threads,
             \/ \E m \in Locks : Call(t, m)
             \/ Internal(t) /\ ~InsertEdge(t) /\ ~Publish(t)
      PROVE  PredecessorsMatchGraph'
  <2>1. /\ pc[t] # "publish" /\ UNCHANGED <<graph, pred>>
    BY <1>4 DEF Internal, Call, Acquire, Release, CheckPredecessor, FinishAcquire,
       SkipSelf, LockMeta, SearchPath, UnlockMeta, Report
  <2>2. \A u \in Threads \ {t} : pc'[u] = pc[u] /\ Edge(u)' = Edge(u)
    BY <1>1, <1>4, OthersStay
  <2>3. QED
    BY <2>1, <2>2 DEF PredecessorsMatchGraph
<1>5. CASE UNCHANGED vars
  BY <1>5 DEF vars, PredecessorsMatchGraph, Edge
<1>6. QED
  BY <1>2, <1>3, <1>4, <1>5 DEF Next, Internal

\* The graph only grows.
LEMMA GraphGrows ==
    ASSUME [Next]_vars
    PROVE  graph \subseteq graph'
BY DEF Next, vars, Internal, Call, Acquire, Release, CheckPredecessor, FinishAcquire,
   SkipSelf, LockMeta, SearchPath, InsertEdge, Publish, UnlockMeta, Report

LEMMA LoopStep ==
    ASSUME LockInv, PredecessorsMatchGraph, LoopDone, [Next]_vars
    PROVE  LoopDone'
<1>1. TypeOK /\ TypeOK' /\ graph \subseteq graph'
  BY TypeStep, GraphGrows DEF LockInv
<1>2. ASSUME NEW t \in Threads,
             \A u \in Threads \ {t} :
               /\ pc'[u] = pc[u] /\ idx'[u] = idx[u]
               /\ held'[u] = held[u] /\ new'[u] = new[u],
             pc'[t] # "idle" =>
               \A j \in 1..Len(held'[t]) : j < idx'[t] /\ held'[t][j] # new'[t] =>
                   <<held'[t][j], new'[t]>> \in graph'
      PROVE  LoopDone'
  BY <1>1, <1>2 DEF LoopDone
<1>3. ASSUME NEW t \in Threads,
             Internal(t) \/ \E m \in Locks : Call(t, m)
      PROVE  LoopDone'
  <2>1. \A u \in Threads \ {t} :
               /\ pc'[u] = pc[u] /\ idx'[u] = idx[u]
               /\ held'[u] = held[u] /\ new'[u] = new[u]
    BY <1>1, <1>3, OthersStay
  <2>2. CASE pc'[t] = "idle"
    BY <1>2, <2>1, <2>2
  <2>3. CASE idx'[t] = 1
    BY <1>2, <2>1, <2>3
  <2>4. ASSUME UNCHANGED <<held, new>>, pc[t] # "idle", idx'[t] = idx[t] + 1,
               \/ held[t][idx[t]] = new[t]
               \/ <<held[t][idx[t]], new[t]>> \in graph
        PROVE  LoopDone'
    <3>1. idx[t] \in Nat
      BY <1>1 DEF TypeOK
    <3>2. \A j \in 1..Len(held[t]) : j < idx'[t] => j < idx[t] \/ j = idx[t]
      BY <2>4, <3>1
    <3>3. QED
      BY <1>1, <1>2, <2>1, <2>4, <3>2 DEF LoopDone
  <2>5. ASSUME UNCHANGED <<held, new, idx>>, pc[t] # "idle"
        PROVE  LoopDone'
    BY <1>1, <1>2, <2>1, <2>5 DEF LoopDone
  <2>6. CASE \E m \in Locks : Call(t, m)
    <3>1. pc'[t] = "idle" \/ idx'[t] = 1
      BY <1>1, <2>6 DEF Call, Acquire, Release, Goto, TypeOK
    <3>2. QED
      BY <2>2, <2>3, <3>1
  <2>7. CASE CheckPredecessor(t)
    <3>1. CASE held[t][idx[t]] = new[t] \/ Known(t)
      <4>1. /\ UNCHANGED <<held, new>> /\ pc[t] # "idle" /\ idx'[t] = idx[t] + 1
            /\ idx[t] \in 1..Len(held[t])
        BY <1>1, <2>7, <3>1 DEF CheckPredecessor, NextHeld, InLoop, TypeOK
      <4>2. held[t] \in Seq(Locks) /\ new[t] \in Locks
        BY <1>1, <4>1 DEF TypeOK
      <4>3. held[t][idx[t]] \in Locks
        BY <4>1, <4>2
      <4>4. Known(t) => <<held[t][idx[t]], new[t]>> \in graph
        BY <4>2, <4>3 DEF Known, PredecessorsMatchGraph
      <4>5. QED
        BY <2>4, <3>1, <4>1, <4>4
    <3>2. CASE ~(held[t][idx[t]] = new[t] \/ Known(t))
      BY <1>1, <2>3, <2>7, <3>2 DEF CheckPredecessor, TypeOK
    <3>3. QED
      BY <3>1, <3>2
  <2>8. CASE FinishAcquire(t)
    BY <1>1, <2>2, <2>8 DEF FinishAcquire, Push, Goto, TypeOK
  <2>9. CASE SkipSelf(t)
    <3>1. /\ UNCHANGED <<held, new>> /\ pc[t] # "idle" /\ idx'[t] = idx[t] + 1
          /\ held[t][idx[t]] = new[t]
      BY <1>1, <2>9 DEF SkipSelf, NextHeld, ProperEdge, TypeOK
    <3>2. QED
      BY <2>4, <3>1
  <2>10. CASE LockMeta(t) \/ SearchPath(t) \/ InsertEdge(t) \/ Publish(t)
    BY <2>5, <2>10 DEF LockMeta, SearchPath, InsertEdge, Publish
  <2>11. CASE UnlockMeta(t) \/ Report(t)
    <3>1. Edge(t) \in graph /\ pc[t] # "idle" /\ UNCHANGED <<held, new>>
      BY <2>11 DEF UnlockMeta, Report, LockInv, Inserted
    <3>2. UNCHANGED idx \/ idx'[t] = idx[t] + 1
      BY <1>1, <2>11 DEF UnlockMeta, Report, NextHeld, TypeOK
    <3>3. QED
      BY <2>4, <2>5, <3>1, <3>2 DEF Edge
  <2>12. QED
    BY <1>3, <2>6, <2>7, <2>8, <2>9, <2>10, <2>11 DEF Internal
<1>4. CASE UNCHANGED vars
  BY <1>4 DEF vars, LoopDone
<1>5. QED
  BY <1>3, <1>4 DEF Next

\* The graph G has the orders of the stack s.
OrderedIn(s, G) == \A i, j \in 1..Len(s) :
    i < j /\ s[i] # s[j] => <<s[i], s[j]>> \in G

LEMMA OrderedRemove ==
    ASSUME NEW s \in Seq(Locks), NEW m, NEW G, OrderedIn(s, G)
    PROVE  OrderedIn(RemoveHeld(s, m), G)
<1> DEFINE r == RemoveHeld(s, m)
<1>1. SUFFICES ASSUME NEW i \in 1..Len(r), NEW j \in 1..Len(r), i < j, r[i] # r[j]
               PROVE  <<r[i], r[j]>> \in G
  BY DEF OrderedIn
<1>2. PICK k, l \in 1..Len(s) : k < l /\ r[i] = s[k] /\ r[j] = s[l]
  BY <1>1, RemoveHeldOrder
<1>3. QED
  BY <1>1, <1>2 DEF OrderedIn

\* What is held stays in order: a lock is pushed when its orders are recorded.
LEMMA HeldStep ==
    ASSUME LockInv, LoopDone, HeldOrdersRecorded, [Next]_vars
    PROVE  HeldOrdersRecorded'
<1>1. TypeOK /\ TypeOK' /\ graph \subseteq graph'
  BY TypeStep, GraphGrows DEF LockInv
<1>2. ASSUME NEW t \in Threads,
             \A u \in Threads \ {t} : held'[u] = held[u],
             \A i, j \in 1..Len(held'[t]) :
                 i < j /\ held'[t][i] # held'[t][j] =>
                     <<held'[t][i], held'[t][j]>> \in graph'
      PROVE  HeldOrdersRecorded'
  BY <1>1, <1>2 DEF HeldOrdersRecorded
<1>3. ASSUME NEW t \in Threads, NEW m \in Locks, NEW f \in Functions, Acquire(t, m, f)
      PROVE  HeldOrdersRecorded'
  <2>1. \A u \in Threads \ {t} : held'[u] = held[u]
    BY <1>1, <1>3, OthersStay DEF Call
  <2>2. held'[t] = <<m>> \/ held'[t] = held[t]
    BY <1>1, <1>3 DEF Acquire, TypeOK
  <2>3. CASE held'[t] = <<m>>
    BY <1>2, <2>1, <2>3
  <2>4. CASE held'[t] = held[t]
    BY <1>1, <1>2, <2>1, <2>4 DEF HeldOrdersRecorded
  <2>5. QED
    BY <2>2, <2>3, <2>4
<1>4. ASSUME NEW t \in Threads, NEW m \in Locks, Release(t, m)
      PROVE  HeldOrdersRecorded'
  <2>1. \A u \in Threads \ {t} : held'[u] = held[u]
    BY <1>1, <1>4, OthersStay DEF Call
  <2>2. held'[t] = RemoveHeld(held[t], m) /\ held[t] \in Seq(Locks)
    BY <1>1, <1>4 DEF Release, TypeOK
  <2>3. ASSUME NEW i \in 1..Len(held'[t]), NEW j \in 1..Len(held'[t]),
               i < j, held'[t][i] # held'[t][j]
        PROVE  <<held'[t][i], held'[t][j]>> \in graph'
    <3>1. OrderedIn(held[t], graph)
      BY DEF HeldOrdersRecorded, OrderedIn
    <3>2. OrderedIn(RemoveHeld(held[t], m), graph)
      BY <2>2, <3>1, OrderedRemove
    <3>3. QED
      BY <1>1, <2>2, <2>3, <3>2 DEF OrderedIn
  <2>4. QED
    BY <1>2, <2>1, <2>3
<1>5. ASSUME NEW t \in Threads, FinishAcquire(t)
      PROVE  HeldOrdersRecorded'
  <2>1. \A u \in Threads \ {t} : held'[u] = held[u]
    BY <1>1, <1>5, OthersStay DEF Internal
  <2>2. /\ held'[t] = Append(held[t], new[t])
        /\ held[t] \in Seq(Locks) /\ new[t] \in Locks
        /\ pc[t] # "idle" /\ idx[t] > Len(held[t]) /\ idx[t] \in Nat
    BY <1>1, <1>5 DEF FinishAcquire, Push, InLoop, TypeOK
  <2>3. \A j \in 1..Len(held[t]) : held[t][j] # new[t] =>
            <<held[t][j], new[t]>> \in graph
    BY <2>2 DEF LoopDone
  <2>4. ASSUME NEW i \in 1..Len(held'[t]), NEW j \in 1..Len(held'[t]),
               i < j, held'[t][i] # held'[t][j]
        PROVE  <<held'[t][i], held'[t][j]>> \in graph'
    <3>1. i \in 1..Len(held[t]) /\ held'[t][i] = held[t][i]
      <4>1. /\ Len(held'[t]) = Len(held[t]) + 1 /\ Len(held[t]) \in Nat
            /\ \A n \in 1..Len(held[t]) : held'[t][n] = held[t][n]
        BY <2>2
      <4>2. QED
        BY <2>4, <4>1
    <3>2. CASE j = Len(held[t]) + 1
      <4>1. held'[t][j] = new[t]
        BY <2>2, <3>2
      <4>2. QED
        BY <1>1, <2>3, <2>4, <3>1, <4>1
    <3>3. CASE j # Len(held[t]) + 1
      <4>1. j \in 1..Len(held[t]) /\ held'[t][j] = held[t][j]
        BY <2>2, <2>4, <3>3
      <4>2. QED
        BY <1>1, <2>4, <3>1, <4>1 DEF HeldOrdersRecorded
    <3>4. QED
      BY <3>2, <3>3
  <2>5. QED
    BY <1>2, <2>1, <2>4
<1>6. ASSUME NEW t \in Threads, Internal(t), ~FinishAcquire(t)
      PROVE  HeldOrdersRecorded'
  <2>1. UNCHANGED held
    BY <1>6 DEF Internal, CheckPredecessor, SkipSelf, LockMeta, SearchPath,
       InsertEdge, Publish, UnlockMeta, Report
  <2>2. QED
    BY <1>1, <2>1 DEF HeldOrdersRecorded
<1>7. CASE UNCHANGED vars
  BY <1>7 DEF vars, HeldOrdersRecorded
<1>8. QED
  BY <1>3, <1>4, <1>5, <1>6, <1>7 DEF Next, Call

LEMMA RecordAlways == Spec => []RecordInv
<1>1. Init => RecordInv
  BY RecordInit
<1>2. RecordInv /\ [Next]_vars => RecordInv'
  BY LockStep, BitsStep, LoopStep, HeldStep DEF RecordInv
<1>3. QED
  BY <1>1, <1>2, PTL DEF Spec

\* The check without the lock is safe: a published bit stands for an edge of the
\* graph, and an edge is unpublished only in its inserter's hands.
THEOREM BitsMatchGraph == Spec => []PredecessorsMatchGraph
<1>1. RecordInv => PredecessorsMatchGraph
  BY DEF RecordInv
<1>2. QED
  BY <1>1, RecordAlways, PTL

\* For every two locks a thread holds, the graph has their order, through
\* releases in any order and recursive acquires.
THEOREM HeldOrdersAreRecorded == Spec => []HeldOrdersRecorded
<1>1. RecordInv => HeldOrdersRecorded
  BY DEF RecordInv
<1>2. QED
  BY <1>1, RecordAlways, PTL

-----------------------------------------------------------------------------
(* Nothing else is recorded. *)

\* The orders t is recording.
Recording(t) == IF pc[t] = "idle" THEN {} ELSE OrdersOf(t, new[t])

\* What was observed is in the graph, or a thread is recording it; and nothing
\* else is.
ObservedInv ==
    /\ graph \subseteq observed
    /\ blocking \subseteq observed
    /\ \A t \in Threads : Recording(t) \subseteq observed
    /\ \A e \in observed : e \in graph \/ \E t \in Threads : e \in Recording(t)

\* A thread in the loop body has one of its orders in hand.
LEMMA EdgeIsOrder ==
    ASSUME LockInv, NEW t \in Threads, pc[t] \notin {"idle", "check", "add"}
    PROVE  Edge(t) \in Recording(t)
<1>1. InLoop(t) /\ Edge(t) \in Edges /\ idx[t] \in Nat \ {0} /\ held[t] \in Seq(Locks)
  BY DEF LockInv, TypeOK
<1>2. idx[t] \in 1..Len(held[t]) /\ held[t][idx[t]] # new[t]
  BY <1>1 DEF InLoop, Edge, Edges
<1>3. QED
  BY <1>2 DEF Recording, OrdersOf, Edge

LEMMA ObservedStep ==
    ASSUME LockInv, LoopDone, ObservedInv, [Next]_vars
    PROVE  ObservedInv'
<1> USE DEF history
<1>1. TypeOK /\ TypeOK' /\ graph \subseteq graph'
  BY TypeStep, GraphGrows DEF LockInv
<1>2. ASSUME NEW t \in Threads,
             \A u \in Threads \ {t} : Recording(u)' = Recording(u),
             observed' = observed \cup Recording(t)',
             graph' \subseteq observed', blocking' \subseteq observed',
             Recording(t) \subseteq graph' \cup Recording(t)'
      PROVE  ObservedInv'
  BY <1>1, <1>2 DEF ObservedInv
<1>3. ASSUME NEW t \in Threads,
             Internal(t) \/ \E m \in Locks : Call(t, m)
      PROVE  \A u \in Threads \ {t} : Recording(u)' = Recording(u)
  <2>1. \A u \in Threads \ {t} :
            pc'[u] = pc[u] /\ held'[u] = held[u] /\ new'[u] = new[u]
    BY <1>1, <1>3, OthersStay
  <2>2. QED
    BY <2>1 DEF Recording, OrdersOf
<1>4. ASSUME NEW t \in Threads, NEW m \in Locks, NEW f \in Functions, Acquire(t, m, f)
      PROVE  ObservedInv'
  <2>1. Recording(t) = {} /\ graph' = graph
    BY <1>4 DEF Acquire, Recording
  <2>2. observed' = observed \cup Recording(t)'
    <3>1. CASE held[t] = << >>
      <4>1. pc'[t] = "idle" /\ observed' = observed
        BY <1>4, <3>1 DEF Acquire
      <4>2. QED
        BY <4>1 DEF Recording
    <3>2. CASE held[t] # << >>
      <4>1. /\ pc'[t] = "check" /\ new'[t] = m /\ held' = held
            /\ observed' = observed \cup OrdersOf(t, m)
        BY <1>1, <1>4, <3>2 DEF Acquire, Goto, TypeOK
      <4>2. Recording(t)' = OrdersOf(t, m)
        BY <4>1 DEF Recording, OrdersOf
      <4>3. QED
        BY <4>1, <4>2
    <3>3. QED
      BY <3>1, <3>2
  <2>3. blocking' \subseteq observed'
    BY <1>4, <2>2 DEF Acquire, ObservedInv, Recording, Goto
  <2>4. QED
    BY <1>2, <1>3, <1>4, <2>1, <2>2, <2>3 DEF ObservedInv, Call
<1>5. ASSUME NEW t \in Threads, NEW m \in Locks, Release(t, m)
      PROVE  ObservedInv'
  <2>1. Recording(t) = {} /\ Recording(t)' = {} /\ UNCHANGED <<graph, history>>
    BY <1>5 DEF Release, Recording
  <2>2. QED
    BY <1>2, <1>3, <1>5, <2>1 DEF ObservedInv, Call
<1>6. ASSUME NEW t \in Threads, FinishAcquire(t)
      PROVE  ObservedInv'
  <2>1. /\ pc[t] # "idle" /\ pc'[t] = "idle" /\ UNCHANGED <<graph, history>>
        /\ idx[t] > Len(held[t]) /\ idx[t] \in Nat /\ held[t] \in Seq(Locks)
    BY <1>1, <1>6 DEF FinishAcquire, Push, Goto, InLoop, TypeOK
  <2>2. Recording(t)' = {}
    BY <2>1 DEF Recording
  <2>3. \A j \in 1..Len(held[t]) : j < idx[t]
    BY <2>1
  <2>4. Recording(t) \subseteq graph
    BY <2>1, <2>3 DEF Recording, OrdersOf, LoopDone
  <2>5. QED
    BY <1>2, <1>3, <1>6, <2>1, <2>2, <2>4 DEF ObservedInv, Internal
<1>7. ASSUME NEW t \in Threads, Internal(t), ~FinishAcquire(t)
      PROVE  ObservedInv'
  <2>1. /\ UNCHANGED <<held, new, history>>
        /\ pc[t] # "idle" /\ pc'[t] # "idle"
    BY <1>1, <1>7 DEF Internal, CheckPredecessor, SkipSelf, LockMeta, SearchPath,
       InsertEdge, Publish, UnlockMeta, Report, Goto, TypeOK
  <2>2. Recording(t)' = Recording(t)
    BY <2>1 DEF Recording, OrdersOf
  <2>3. graph' \subseteq observed
    <3>1. CASE InsertEdge(t)
      BY <3>1, EdgeIsOrder DEF InsertEdge, ObservedInv
    <3>2. CASE ~InsertEdge(t)
      BY <1>7, <3>2 DEF Internal, CheckPredecessor, SkipSelf, LockMeta, SearchPath,
         Publish, UnlockMeta, Report, ObservedInv
    <3>3. QED
      BY <3>1, <3>2
  <2>4. observed' = observed \cup Recording(t)'
    BY <2>1, <2>2 DEF ObservedInv
  <2>5. QED
    BY <1>2, <1>3, <1>7, <2>1, <2>2, <2>3, <2>4 DEF ObservedInv
<1>8. CASE UNCHANGED vars
  BY <1>8 DEF vars, ObservedInv, Recording, OrdersOf
<1>9. QED
  BY <1>4, <1>5, <1>6, <1>7, <1>8 DEF Next, Call

\* The graph holds nothing but orders that threads acquired locks in and, when
\* nobody is recording, all those in which a thread would have waited.
THEOREM GraphMatchesObserved == Spec => []GraphIsObserved
<1>1. Init => ObservedInv
  BY DEF Init, ObservedInv, Recording
<1>2. RecordInv /\ ObservedInv /\ [Next]_vars => ObservedInv'
  BY ObservedStep DEF RecordInv
<1>3. ObservedInv => GraphIsObserved
  BY DEF ObservedInv, GraphIsObserved, Recording
<1>4. QED
  BY <1>1, <1>2, <1>3, RecordAlways, PTL DEF Spec

=============================================================================
