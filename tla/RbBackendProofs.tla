--------------------------- MODULE RbBackendProofs ---------------------------
(***************************************************************************)
(* The ring-buffer backend, for every number of threads and mutexes, every *)
(* capacity and index range: its type invariant, that its incremental      *)
(* reachability is the transitive closure, that it implements LockOrder,   *)
(* that no order is lost on its way into the graph and that the shutdown   *)
(* leaves none behind, with a late store of work_pending or without; and   *)
(* that on sequentially consistent memory no wake-up is lost.              *)
(***************************************************************************)
EXTENDS RbBackend, HeldStackProofs, SequenceTheorems, TLAPS

-----------------------------------------------------------------------------
(* Reachability.  That b is not reachable from a is witnessed by a closed  *)
(* set with a and without b.                                               *)

\* Paths in a graph with one more edge: an old path, or an old path to the
\* edge's start and one from its end.
LEMMA ReachesWithEdge ==
    ASSUME NEW E \in SUBSET Edges, NEW e \in Edges, NEW a \in Locks, NEW b \in Locks
    PROVE  Reaches(E \cup {e}, a, b) <=>
               \/ Reaches(E, a, b)
               \/ Reaches(E, a, e[1]) /\ Reaches(E, e[2], b)
<1>1. ASSUME Reaches(E, a, b) \/ (Reaches(E, a, e[1]) /\ Reaches(E, e[2], b))
      PROVE  Reaches(E \cup {e}, a, b)
  <2>1. SUFFICES ASSUME NEW S \in SUBSET Locks, a \in S, Closed(E \cup {e}, S)
                 PROVE  b \in S
    BY DEF Reaches
  <2>2. Closed(E, S) /\ (e[1] \in S => e[2] \in S)
    BY <2>1 DEF Closed
  <2>3. QED
    BY <1>1, <2>1, <2>2 DEF Reaches
<1>2. ASSUME ~Reaches(E, a, b), ~(Reaches(E, a, e[1]) /\ Reaches(E, e[2], b))
      PROVE  ~Reaches(E \cup {e}, a, b)
  <2>1. PICK S \in SUBSET Locks : a \in S /\ Closed(E, S) /\ b \notin S
    BY <1>2 DEF Reaches
  <2>2. CASE ~Reaches(E, a, e[1])
    <3>1. PICK C \in SUBSET Locks : a \in C /\ Closed(E, C) /\ e[1] \notin C
      BY <2>2 DEF Reaches
    <3>2. Closed(E \cup {e}, S \cap C)
      BY <2>1, <3>1 DEF Closed
    <3>3. QED
      BY <2>1, <3>1, <3>2 DEF Reaches
  <2>3. CASE ~Reaches(E, e[2], b)
    <3>1. PICK C \in SUBSET Locks : e[2] \in C /\ Closed(E, C) /\ b \notin C
      BY <2>3 DEF Reaches
    <3>2. Closed(E \cup {e}, S \cup C)
      BY <2>1, <3>1 DEF Closed
    <3>3. QED
      BY <2>1, <3>1, <3>2 DEF Reaches
  <2>4. QED
    BY <1>2, <2>2, <2>3
<1>3. QED
  BY <1>1, <1>2

\* A path of at least one edge.
Follows(E, a, b) == \E e \in E : e[1] = a /\ Reaches(E, e[2], b)

\* A path is empty or has a first edge.
LEMMA ReachesFirstEdge ==
    ASSUME NEW E \in SUBSET Edges, NEW a \in Locks, NEW b \in Locks
    PROVE  Reaches(E, a, b) <=> a = b \/ Follows(E, a, b)
<1>1. ASSUME a = b \/ Follows(E, a, b)
      PROVE  Reaches(E, a, b)
  BY <1>1 DEF Follows, Reaches, Closed
<1>2. ASSUME a # b, ~Follows(E, a, b)
      PROVE  ~Reaches(E, a, b)
  <2> DEFINE S == {x \in Locks : x = a \/ Follows(E, a, x)}
  <2>1. ASSUME NEW e \in E, e[1] \in S
        PROVE  e[2] \in S
    <3>1. e[1] \in Locks /\ e[2] \in Locks
      BY <2>1 DEF Edges
    <3>2. CASE e[1] = a
      <4>1. Reaches(E, e[2], e[2])
        BY DEF Reaches
      <4>2. QED
        BY <2>1, <3>1, <3>2, <4>1 DEF Follows
    <3>3. CASE Follows(E, a, e[1])
      <4>1. PICK f \in E : f[1] = a /\ Reaches(E, f[2], e[1])
        BY <3>3 DEF Follows
      <4>2. Reaches(E, f[2], e[2])
        BY <2>1, <4>1 DEF Reaches, Closed
      <4>3. QED
        BY <3>1, <4>1, <4>2 DEF Follows
    <3>4. QED
      BY <2>1, <3>2, <3>3
  <2>2. S \in SUBSET Locks /\ a \in S /\ b \notin S /\ Closed(E, S)
    BY <1>2, <2>1 DEF Closed
  <2>3. QED
    BY <2>2 DEF Reaches
<1>3. QED
  BY <1>1, <1>2

\* What update_reachability computes from the closure is the closure again.
LEMMA ClosureGrows ==
    ASSUME NEW E \in SUBSET Edges, NEW e \in Edges, NEW a \in Locks, NEW b \in Locks
    PROVE  Follows(E \cup {e}, a, b) <=>
               \/ Follows(E, a, b)
               \/ (a = e[1] \/ Follows(E, a, e[1])) /\ (b = e[2] \/ Follows(E, e[2], b))
<1> DEFINE F == E \cup {e}
<1>1. e[1] \in Locks /\ e[2] \in Locks
  BY DEF Edges
<1>2. Reaches(E, e[2], b) <=> b = e[2] \/ Follows(E, e[2], b)
  BY <1>1, ReachesFirstEdge
<1>3. Follows(F, a, b) <=>
          \/ \E g \in E : g[1] = a /\ Reaches(F, g[2], b)
          \/ e[1] = a /\ Reaches(F, e[2], b)
  BY DEF Follows
<1>4. Reaches(F, e[2], b) <=> Reaches(E, e[2], b)
  BY <1>1, ReachesWithEdge
<1>5. \A g \in E : Reaches(F, g[2], b) <=>
          Reaches(E, g[2], b) \/ (Reaches(E, g[2], e[1]) /\ Reaches(E, e[2], b))
  <2>1. \A g \in E : g[2] \in Locks
    BY DEF Edges
  <2>2. QED
    BY <2>1, ReachesWithEdge
<1>6. (\E g \in E : g[1] = a /\ Reaches(F, g[2], b)) <=>
          Follows(E, a, b) \/ (Follows(E, a, e[1]) /\ Reaches(E, e[2], b))
  BY <1>5 DEF Follows
<1>7. QED
  BY <1>2, <1>3, <1>4, <1>6

-----------------------------------------------------------------------------
(* The rings' indices. *)

LEMMA ModSmall ==
    ASSUME NEW M \in Nat \ {0}, NEW x \in 0..(M - 1)
    PROVE  x % M = x
OBVIOUS

LEMMA ModNegative ==
    ASSUME NEW M \in Nat \ {0}, NEW x \in Int, x < 0, x >= -M
    PROVE  x % M = x + M
OBVIOUS

LEMMA ModRange ==
    ASSUME NEW M \in Nat \ {0}, NEW x \in Int
    PROVE  x % M \in 0..(M - 1)
OBVIOUS

Indices == 0..(IndexModulus - 1)

\* Counting up, with wrap-around.
LEMMA IncValue ==
    ASSUME NEW i \in Indices
    PROVE  /\ Inc(i) = IF i + 1 = IndexModulus THEN 0 ELSE i + 1
           /\ Inc(i) \in Indices
<1>1. IndexModulus \in Nat \ {0}
  BY RbAssumption
<1>2. CASE i + 1 = IndexModulus
  <2>1. IndexModulus % IndexModulus = 0
    BY <1>1
  <2>2. QED
    BY <1>1, <1>2, <2>1 DEF Inc, Indices
<1>3. CASE i + 1 # IndexModulus
  <2>1. i + 1 \in 0..(IndexModulus - 1)
    BY <1>1, <1>3 DEF Indices
  <2>2. QED
    BY <1>1, <1>3, <2>1, ModSmall DEF Inc, Indices
<1>4. QED
  BY <1>2, <1>3

\* Unsigned subtraction of two indices.
LEMMA DiffValue ==
    ASSUME NEW i \in Indices, NEW j \in Indices
    PROVE  (i - j) % IndexModulus = IF i >= j THEN i - j ELSE i - j + IndexModulus
<1>1. IndexModulus \in Nat \ {0}
  BY RbAssumption
<1>2. CASE i >= j
  <2>1. i - j \in 0..(IndexModulus - 1)
    BY <1>1, <1>2 DEF Indices
  <2>2. QED
    BY <1>1, <1>2, <2>1, ModSmall
<1>3. CASE ~(i >= j)
  <2>1. i - j \in Int /\ i - j < 0 /\ i - j >= -IndexModulus
    BY <1>1, <1>3 DEF Indices
  <2>2. QED
    BY <1>1, <1>3, <2>1, ModNegative
<1>4. QED
  BY <1>2, <1>3

\* An event more, an event less, and an empty ring.
LEMMA RingArithmetic ==
    ASSUME NEW i \in Indices, NEW j \in Indices
    PROVE  /\ (i - j) % IndexModulus \in Nat
           /\ (i - j) % IndexModulus = 0 <=> i = j
           /\ (i - j) % IndexModulus < Capacity =>
                  /\ Inc(i) # j
                  /\ (Inc(i) - j) % IndexModulus = ((i - j) % IndexModulus) + 1
           /\ i # j => (i - Inc(j)) % IndexModulus = ((i - j) % IndexModulus) - 1
<1>1. IndexModulus \in Nat \ {0} /\ Capacity \in Nat /\ Capacity < IndexModulus
  BY RbAssumption
<1>2. /\ Inc(i) \in Indices /\ Inc(i) = IF i + 1 = IndexModulus THEN 0 ELSE i + 1
      /\ Inc(j) \in Indices /\ Inc(j) = IF j + 1 = IndexModulus THEN 0 ELSE j + 1
  BY IncValue
<1>3. /\ (i - j) % IndexModulus = IF i >= j THEN i - j ELSE i - j + IndexModulus
      /\ (Inc(i) - j) % IndexModulus =
            IF Inc(i) >= j THEN Inc(i) - j ELSE Inc(i) - j + IndexModulus
      /\ (i - Inc(j)) % IndexModulus =
            IF i >= Inc(j) THEN i - Inc(j) ELSE i - Inc(j) + IndexModulus
  BY <1>2, DiffValue
<1>4. i \in Nat /\ j \in Nat /\ i < IndexModulus /\ j < IndexModulus
  BY <1>1 DEF Indices
<1> DEFINE d == (i - j) % IndexModulus
           di == (Inc(i) - j) % IndexModulus
           dj == (i - Inc(j)) % IndexModulus
<1>5. /\ d = IF i >= j THEN i - j ELSE i - j + IndexModulus
      /\ di = IF Inc(i) >= j THEN Inc(i) - j ELSE Inc(i) - j + IndexModulus
      /\ dj = IF i >= Inc(j) THEN i - Inc(j) ELSE i - Inc(j) + IndexModulus
  BY <1>3
<1> HIDE DEF d, di, dj
<1>6. d \in Nat /\ (d = 0 <=> i = j)
  BY <1>1, <1>4, <1>5
<1>7. ASSUME d < Capacity
      PROVE  Inc(i) # j /\ di = d + 1
  BY <1>1, <1>2, <1>4, <1>5, <1>7
<1>8. ASSUME i # j
      PROVE  dj = d - 1
  BY <1>1, <1>2, <1>4, <1>5, <1>8
<1>9. QED
  BY <1>6, <1>7, <1>8 DEF d, di, dj

-----------------------------------------------------------------------------
(* Types. *)

\* What a thread is to enqueue are orders, and it has none before it has
\* compared its locks with the snapshot and after it has handed them over.
UnknownProper == \A t \in Threads :
    /\ EdgesTo(unknown[t], new[t]) \subseteq Edges
    /\ pc[t] \in {"idle", "collect", "signal", "post"} => unknown[t] = {}

\* The slots of a ring hold orders.
ProperEvents == {ev \in Events \cup {NoEvent} :
                    EdgesTo(ev.from, ev.to) \subseteq Edges}

EventsProper == events \in [Threads -> [0..(Capacity - 1) -> ProperEvents]]

NoWorker == {"none", "exited"}
Creating == {"create", "launch", "started"}

\* A worker is created by one thread, when there is none, also after the
\* destructor has ended the one before.
StartedOnce ==
    /\ workerState = 0 \/ main = "reset" => wpc \in NoWorker
    /\ main \in {"post", "join", "reset"} => workerState = 2
    /\ \A t \in Threads : pc[t] \in Creating => workerState = 1
    /\ \A t \in Threads : pc[t] \in {"create", "launch"} => wpc \in NoWorker
    /\ \A t, u \in Threads : pc[t] \in Creating /\ pc[u] \in Creating => t = u

TypeInv == TypeOK /\ UnknownProper /\ EventsProper /\ StartedOnce

LEMMA HeldLocksType ==
    ASSUME AppTypes, NEW t \in Threads
    PROVE  HeldLocks(t) \in SUBSET Locks
<1>1. held[t] \in Seq(Locks)
  BY DEF AppTypes
<1>2. \A i \in 1..Len(held[t]) : held[t][i] \in Locks
  BY <1>1
<1>3. QED
  BY <1>2 DEF HeldLocks

LEMMA EdgesToType ==
    ASSUME NEW L \in SUBSET Locks, NEW m \in Locks, m \notin L
    PROVE  EdgesTo(L, m) \subseteq Edges
BY DEF EdgesTo, Edges

LEMMA OrdersOfType ==
    ASSUME AppTypes, NEW t \in Threads, NEW m \in Locks
    PROVE  OrdersOf(t, m) \subseteq Edges
<1>1. HeldLocks(t) \ {m} \in SUBSET Locks
  BY HeldLocksType
<1>2. QED
  BY <1>1, EdgesToType DEF OrdersOf

LEMMA TypeInit == Init => TypeInv
<1>1. SUFFICES ASSUME Init PROVE TypeInv
  OBVIOUS
<1> USE RbAssumption
<1>2. EdgesTo({}, NoLock) = {} /\ NoEvent \in ProperEvents
  BY DEF EdgesTo, ProperEvents, NoEvent
<1>3. EventsProper
  BY <1>1, <1>2 DEF Init, EventsProper
<1>4. UnknownProper
  BY <1>1, <1>2 DEF Init, UnknownProper
<1>5. StartedOnce
  BY <1>1 DEF Init, StartedOnce, NoWorker, Creating
<1>6. AppTypes
  BY <1>1 DEF Init, AppTypes, Points
<1>7. RingTypes
  <2>1. 0 \in Indices /\ (0 - 0) % IndexModulus = 0
    BY RingArithmetic DEF Indices
  <2>2. \A t \in Threads : Queued(t) = 0
    BY <1>1, <2>1 DEF Init, Queued
  <2>3. QED
    BY <1>1, <2>2 DEF Init, RingTypes
<1>8. WakeTypes
  BY <1>1 DEF Init, WakeTypes
<1>9. WorkerTypes
  <2>1. /\ wpc = "none" /\ scan = 0 /\ hand = {}
        /\ second = FALSE /\ progress = FALSE /\ late = FALSE
    BY <1>1 DEF Init
  <2>2. 0 \in 0..ThreadCount
    OBVIOUS
  <2>3. second \in BOOLEAN /\ progress \in BOOLEAN /\ late \in BOOLEAN
    BY <2>1
  <2>4. QED
    BY <2>1, <2>2, <2>3 DEF WorkerTypes
<1>10. GraphTypes
  BY <1>1 DEF Init, GraphTypes
<1>11. QED
  BY <1>3, <1>4, <1>5, <1>6, <1>7, <1>8, <1>9, <1>10 DEF TypeInv, TypeOK

\* A thread's step leaves the others where they are.
LEMMA UnknownStays ==
    ASSUME UnknownProper, NEW t \in Threads,
           \A u \in Threads \ {t} :
               pc'[u] = pc[u] /\ new'[u] = new[u] /\ unknown'[u] = unknown[u],
           EdgesTo(unknown'[t], new'[t]) \subseteq Edges,
           pc'[t] \in {"idle", "collect", "signal", "post"} => unknown'[t] = {}
    PROVE  UnknownProper'
BY DEF UnknownProper, EdgesTo

\* A thread that neither creates the worker nor has just done so.
LEMMA StartedStays ==
    ASSUME StartedOnce, NEW t \in Threads,
           UNCHANGED <<main, workerState, wpc>>,
           \A u \in Threads \ {t} : pc'[u] = pc[u],
           pc'[t] \notin Creating
    PROVE  StartedOnce'
BY DEF StartedOnce, Creating

\* The worker and its graph are where they were, and what it has seen in a ring
\* is still there.
LEMMA WorkerStays ==
    ASSUME WorkerTypes, UNCHANGED <<workerVars, head, tail>>
    PROVE  WorkerTypes'
BY DEF WorkerTypes, workerVars

LEMMA RingStays ==
    ASSUME RingTypes, EventsProper, UNCHANGED ringVars
    PROVE  RingTypes' /\ EventsProper'
BY DEF RingTypes, EventsProper, ringVars, Queued

LEMMA AppStays ==
    ASSUME AppTypes, UnknownProper, UNCHANGED appVars
    PROVE  AppTypes' /\ UnknownProper'
BY DEF AppTypes, UnknownProper, appVars, historyVars

\* Back out of the hook.
LEMMA PushTypes ==
    ASSUME AppTypes, UnknownProper, NEW t \in Threads, pc[t] # "idle", unknown[t] = {},
           Push(t), UNCHANGED <<unknown, acquires, policy>>
    PROVE  AppTypes' /\ UnknownProper'
<1>1. /\ held' = [held EXCEPT ![t] = Append(held[t], new[t])]
      /\ new' = [new EXCEPT ![t] = NoLock]
      /\ pc' = [pc EXCEPT ![t] = "idle"]
  BY DEF Push, Goto
<1>2. held[t] \in Seq(Locks) /\ new[t] \in Locks
  BY DEF AppTypes
<1>3. Append(held[t], new[t]) \in Seq(Locks)
  BY <1>2
<1>4. held' \in [Threads -> Seq(Locks)]
  BY <1>1, <1>3 DEF AppTypes
<1>5. AppTypes'
  BY <1>1, <1>4 DEF AppTypes, Points
<1>6. /\ \A u \in Threads \ {t} :
            pc'[u] = pc[u] /\ new'[u] = new[u] /\ unknown'[u] = unknown[u]
      /\ EdgesTo(unknown'[t], new'[t]) = {} /\ unknown'[t] = {}
  BY <1>1 DEF AppTypes, EdgesTo
<1>7. UnknownProper'
  BY <1>6, UnknownStays
<1>8. QED
  BY <1>5, <1>7

\* A step between two points of a hook: its own variables apart, the thread
\* stays in the hook.
LEMMA PointTypes ==
    ASSUME AppTypes, NEW t \in Threads, NEW point \in Points \ {"idle"},
           pc[t] # "idle", Goto(t, point),
           UNCHANGED <<held, new, acquires, policy>>,
           unknown' \in [Threads -> SUBSET Locks]
    PROVE  AppTypes'
<1>1. pc' = [pc EXCEPT ![t] = point]
  BY DEF Goto
<1>2. pc' \in [Threads -> Points]
  BY <1>1 DEF AppTypes
<1>3. \A u \in Threads : pc'[u] # "idle" <=> pc[u] # "idle"
  BY <1>1 DEF AppTypes
<1>4. QED
  BY <1>2, <1>3 DEF AppTypes

LEMMA TypeAcquire ==
    ASSUME TypeInv, NEW t \in Threads, NEW m \in Locks, Acquire(t, m)
    PROVE  TypeInv'
<1> USE RbAssumption
<1>1. /\ pc[t] = "idle" /\ acquires < MaxAcquires
      /\ acquires' = acquires + 1
      /\ UNCHANGED <<backVars, ringVars, wakeVars, unknown, dropped, owed>>
  BY DEF Acquire
<1>2. AppTypes /\ UnknownProper /\ StartedOnce /\ unknown[t] = {}
  BY <1>1 DEF TypeInv, TypeOK, UnknownProper
<1>3. /\ AppTypes'
      /\ UnknownProper'
      /\ observed' \subseteq observed \cup OrdersOf(t, m)
      /\ \A u \in Threads \ {t} : pc'[u] = pc[u]
      /\ pc'[t] \notin Creating
  <2>1. acquires' \in 0..MaxAcquires /\ UNCHANGED <<policy, unknown>>
    BY <1>1, <1>2 DEF AppTypes, backVars
  <2>2. CASE held[t] = << >>
    <3>1. held' = [held EXCEPT ![t] = <<m>>] /\ UNCHANGED <<new, pc, observed>>
      BY <2>2 DEF Acquire
    <3>2. <<m>> \in Seq(Locks)
      OBVIOUS
    <3>3. held' \in [Threads -> Seq(Locks)]
      BY <1>2, <3>1, <3>2 DEF AppTypes
    <3>4. AppTypes'
      BY <1>2, <2>1, <3>1, <3>3 DEF AppTypes
    <3>5. UnknownProper'
      BY <1>2, <2>1, <3>1 DEF UnknownProper
    <3>6. QED
      BY <1>1, <3>1, <3>4, <3>5 DEF Creating
  <2>3. CASE held[t] # << >>
    <3>1. /\ new' = [new EXCEPT ![t] = m]
          /\ pc' = [pc EXCEPT ![t] = "collect"]
          /\ observed' = observed \cup OrdersOf(t, m)
          /\ UNCHANGED held
      BY <2>3 DEF Acquire, Goto
    <3>2. pc' \in [Threads -> Points]
      BY <1>2, <3>1 DEF AppTypes, Points
    <3>3. \A u \in Threads : pc'[u] # "idle" <=> new'[u] # NoLock
      BY <1>2, <3>1 DEF AppTypes
    <3>4. AppTypes'
      BY <1>2, <2>1, <3>1, <3>2, <3>3 DEF AppTypes
    <3>5. /\ \A u \in Threads \ {t} :
                pc'[u] = pc[u] /\ new'[u] = new[u] /\ unknown'[u] = unknown[u]
          /\ unknown'[t] = {} /\ EdgesTo(unknown'[t], new'[t]) = {}
      BY <1>2, <2>1, <3>1 DEF AppTypes, EdgesTo
    <3>6. UnknownProper'
      BY <1>2, <3>5, UnknownStays
    <3>7. pc'[t] = "collect"
      BY <1>2, <3>1 DEF AppTypes
    <3>8. QED
      BY <3>1, <3>4, <3>5, <3>6, <3>7 DEF Creating
  <2>4. QED
    BY <2>2, <2>3
<1>4. StartedOnce'
  BY <1>1, <1>2, <1>3, StartedStays DEF backVars, wakeVars, workerVars
<1>5. GraphTypes'
  <2>1. OrdersOf(t, m) \subseteq Edges
    BY <1>2, OrdersOfType
  <2>2. QED
    BY <1>1, <1>3, <2>1 DEF TypeInv, TypeOK, GraphTypes, backVars, graphVars, workerVars
<1>6. RingTypes' /\ EventsProper'
  BY <1>1, RingStays DEF TypeInv, TypeOK
<1>7. WorkerTypes'
  BY <1>1, WorkerStays DEF TypeInv, TypeOK, backVars, ringVars
<1>8. WakeTypes'
  BY <1>1 DEF TypeInv, TypeOK, WakeTypes, wakeVars, backVars
<1>9. QED
  BY <1>3, <1>4, <1>5, <1>6, <1>7, <1>8 DEF TypeInv, TypeOK

LEMMA TypeRelease ==
    ASSUME TypeInv, NEW t \in Threads, NEW m \in Locks, Release(t, m)
    PROVE  TypeInv'
<1>1. /\ held' = [held EXCEPT ![t] = RemoveHeld(held[t], m)]
      /\ UNCHANGED <<backVars, ringVars, wakeVars, historyVars, new, pc, unknown>>
  BY DEF Release
<1>2. RemoveHeld(held[t], m) \in Seq(Locks)
  BY RemoveHeldType DEF TypeInv, TypeOK, AppTypes
<1>3. held' \in [Threads -> Seq(Locks)]
  BY <1>1, <1>2 DEF TypeInv, TypeOK, AppTypes
<1>4. AppTypes'
  BY <1>1, <1>3 DEF TypeInv, TypeOK, AppTypes, historyVars, backVars
<1>5. UnknownProper'
  BY <1>1 DEF TypeInv, UnknownProper
<1>6. StartedOnce'
  BY <1>1 DEF TypeInv, StartedOnce, backVars, wakeVars, workerVars
<1>7. GraphTypes'
  BY <1>1 DEF TypeInv, TypeOK, GraphTypes, backVars, graphVars, workerVars, historyVars
<1>8. RingTypes' /\ EventsProper'
  BY <1>1, RingStays DEF TypeInv, TypeOK
<1>9. WorkerTypes'
  BY <1>1, WorkerStays DEF TypeInv, TypeOK, backVars, ringVars
<1>10. WakeTypes'
  BY <1>1 DEF TypeInv, TypeOK, WakeTypes, wakeVars, backVars
<1>11. QED
  BY <1>4, <1>5, <1>6, <1>7, <1>8, <1>9, <1>10 DEF TypeInv, TypeOK

\* The worker, its graph and the rings are where they were.
LEMMA BackStays ==
    ASSUME TypeInv, UNCHANGED <<backVars, ringVars, observed, dropped, owed>>
    PROVE  GraphTypes' /\ RingTypes' /\ EventsProper' /\ WorkerTypes'
<1>1. UNCHANGED <<workerVars, graphVars, ringVars, head, tail>>
  BY DEF backVars, ringVars
<1>2. GraphTypes'
  BY <1>1 DEF TypeInv, TypeOK, GraphTypes, graphVars, workerVars
<1>3. RingTypes' /\ EventsProper'
  BY RingStays DEF TypeInv, TypeOK
<1>4. WorkerTypes'
  BY <1>1, WorkerStays DEF TypeInv, TypeOK
<1>5. QED
  BY <1>2, <1>3, <1>4

LEMMA TypeCollect ==
    ASSUME TypeInv, NEW t \in Threads, Collect(t)
    PROVE  TypeInv'
<1> USE RbAssumption
<1> DEFINE news == {l \in Candidates(t) : <<l, new[t]>> \notin graph}
<1>1. /\ pc[t] = "collect"
      /\ UNCHANGED <<backVars, ringVars, wakeVars, historyVars>>
  BY DEF Collect
<1>2. AppTypes /\ UnknownProper /\ StartedOnce /\ unknown[t] = {}
  BY <1>1 DEF TypeInv, TypeOK, UnknownProper
<1>3. new[t] \in Locks /\ news \in SUBSET Locks /\ EdgesTo(news, new[t]) \subseteq Edges
  <2>1. new[t] \in Locks
    BY <1>1, <1>2 DEF AppTypes
  <2>2. HeldLocks(t) \in SUBSET Locks
    BY <1>2, HeldLocksType
  <2>3. news \in SUBSET Locks /\ new[t] \notin news
    BY <2>2 DEF Candidates
  <2>4. QED
    BY <2>1, <2>3, EdgesToType
<1>4. /\ AppTypes' /\ UnknownProper'
      /\ \A u \in Threads \ {t} : pc'[u] = pc[u]
      /\ pc'[t] \notin Creating
  <2>1. UNCHANGED <<acquires, policy>>
    BY <1>1 DEF historyVars, backVars
  <2>2. CASE news = {}
    <3>1. Push(t) /\ UNCHANGED unknown
      BY <2>2 DEF Collect
    <3>2. AppTypes' /\ UnknownProper'
      BY <1>1, <1>2, <2>1, <3>1, PushTypes
    <3>3. pc' = [pc EXCEPT ![t] = "idle"]
      BY <3>1 DEF Push, Goto
    <3>4. QED
      BY <1>2, <3>2, <3>3 DEF AppTypes, Creating
  <2>3. CASE news # {}
    <3>1. /\ unknown' = [unknown EXCEPT ![t] = news]
          /\ Goto(t, "ensure")
          /\ UNCHANGED <<held, new>>
      BY <2>3 DEF Collect
    <3>3. unknown' \in [Threads -> SUBSET Locks]
      BY <1>2, <1>3, <3>1 DEF AppTypes
    <3>4. AppTypes'
      BY <1>1, <1>2, <2>1, <3>1, <3>3, PointTypes DEF Points
    <3>5. pc' = [pc EXCEPT ![t] = "ensure"]
      BY <3>1 DEF Goto
    <3>6. /\ \A u \in Threads \ {t} :
                pc'[u] = pc[u] /\ new'[u] = new[u] /\ unknown'[u] = unknown[u]
          /\ unknown'[t] = news /\ new'[t] = new[t] /\ pc'[t] = "ensure"
      BY <1>2, <3>1, <3>5 DEF AppTypes
    <3>7. UnknownProper'
      BY <1>2, <1>3, <3>6, UnknownStays
    <3>8. QED
      BY <3>4, <3>6, <3>7 DEF Creating
  <2>4. QED
    BY <2>2, <2>3
<1>5. StartedOnce'
  <2>1. UNCHANGED <<main, workerState, wpc>>
    BY <1>1 DEF backVars, wakeVars, workerVars
  <2>2. QED
    BY <1>2, <1>4, <2>1, StartedStays
<1>6. GraphTypes' /\ RingTypes' /\ EventsProper' /\ WorkerTypes'
  BY <1>1, BackStays DEF historyVars
<1>7. WakeTypes'
  BY <1>1 DEF TypeInv, TypeOK, WakeTypes, wakeVars, backVars
<1>8. QED
  BY <1>4, <1>5, <1>6, <1>7 DEF TypeInv, TypeOK

\* The steps of the worker's creation.
LEMMA TypeCreation ==
    ASSUME TypeInv, NEW t \in Threads,
           EnsureWorkerStarted(t) \/ InitSemaphore(t) \/ CreateWorker(t) \/ WorkerStarted(t)
    PROVE  TypeInv'
<1> USE RbAssumption
<1>1. UNCHANGED <<ringVars, historyVars, graphVars, held, new, unknown, policy, main, hand,
                  late>>
  BY DEF EnsureWorkerStarted, InitSemaphore, CreateWorker, WorkerStarted, backVars, workerVars
<1>2. AppTypes /\ UnknownProper /\ StartedOnce /\ WorkerTypes /\ WakeTypes
  BY DEF TypeInv, TypeOK
<1>3. PICK point \in {"await", "create", "launch", "started", "enqueue"} :
          /\ pc[t] \in {"ensure", "await", "create", "launch", "started"}
          /\ Goto(t, point)
          /\ point # "started" => UNCHANGED workerVars
          /\ point = "await"   => pc[t] = "ensure" /\ UNCHANGED workerState
          /\ point = "create"  => pc[t] = "ensure" /\ workerState = 0 /\ workerState' = 1
          /\ point = "launch"  => pc[t] = "create" /\ UNCHANGED workerState
          /\ point = "started" => /\ pc[t] = "launch" /\ UNCHANGED workerState
                                  /\ second' = FALSE /\ Restart
          /\ point = "enqueue" => /\ workerState' = 2
                                  /\ pc[t] # "started" => UNCHANGED workerState
                                  /\ pc[t] \in {"ensure", "await", "started"}
  BY DEF EnsureWorkerStarted, InitSemaphore, CreateWorker, WorkerStarted, backVars, workerVars
<1>4. pc' = [pc EXCEPT ![t] = point]
  BY <1>3 DEF Goto
<1>5. pc'[t] = point /\ \A u \in Threads \ {t} : pc'[u] = pc[u]
  BY <1>2, <1>4 DEF AppTypes
<1>6. AppTypes'
  BY <1>1, <1>2, <1>3, PointTypes DEF Points, AppTypes, historyVars
<1>7. UnknownProper'
  BY <1>1, <1>2, <1>3, <1>5 DEF UnknownProper
<1>8. point # "started" => UNCHANGED wpc
  BY <1>3 DEF workerVars
<1>9. StartedOnce'
  <2>1. CASE point = "create"
    <3>1. \A u \in Threads : pc[u] \notin Creating
      BY <1>2, <1>3, <2>1 DEF StartedOnce
    <3>2. wpc' \in NoWorker /\ workerState' = 1
      BY <1>2, <1>3, <1>8, <2>1 DEF StartedOnce
    <3>3. main \notin {"post", "join", "reset"}
      BY <1>2, <1>3, <2>1 DEF StartedOnce
    <3>4. QED
      BY <1>1, <1>5, <2>1, <3>1, <3>2, <3>3 DEF StartedOnce, Creating
  <2>2. CASE point \in {"launch", "started"}
    <3>1. /\ \A u \in Threads \ {t} : pc[u] \notin Creating
          /\ workerState' = 1
          /\ main \notin {"post", "join", "reset"}
      BY <1>2, <1>3, <2>2 DEF StartedOnce, Creating
    <3>2. point = "launch" => wpc' \in NoWorker
      BY <1>2, <1>3, <1>8 DEF StartedOnce
    <3>3. QED
      BY <1>1, <1>5, <2>2, <3>1, <3>2 DEF StartedOnce, Creating
  <2>3. CASE point = "enqueue"
    <3>1. \A u \in Threads \ {t} : pc[u] \notin Creating
      BY <1>2, <1>3, <2>3 DEF StartedOnce, Creating
    <3>2. main = "reset" => wpc' \in NoWorker
      BY <1>2, <1>8, <2>3 DEF StartedOnce
    <3>3. QED
      BY <1>1, <1>3, <1>5, <2>3, <3>1, <3>2 DEF StartedOnce, Creating
  <2>4. CASE point = "await"
    <3>1. pc'[t] \notin Creating /\ pc[t] \notin Creating
      BY <1>3, <1>5, <2>4 DEF Creating
    <3>2. UNCHANGED <<main, workerState, wpc>>
      BY <1>1, <1>3, <1>8, <2>4
    <3>3. \A u \in Threads : pc'[u] \in Creating => u # t /\ pc[u] \in Creating
      BY <1>5, <3>1
    <3>4. /\ \A u \in Threads : pc[u] \in {"create", "launch"} => pc[u] \in Creating
          /\ \A u \in Threads : pc'[u] \in {"create", "launch"} =>
                pc'[u] \in Creating /\ pc[u] = pc'[u]
      BY <1>5, <3>3 DEF Creating
    <3>5. /\ workerState' = 0 \/ main' = "reset" => wpc' \in NoWorker
          /\ main' \in {"post", "join", "reset"} => workerState' = 2
      BY <1>2, <3>2 DEF StartedOnce
    <3>6. /\ \A u \in Threads : pc'[u] \in Creating => workerState' = 1
          /\ \A u, v \in Threads : pc'[u] \in Creating /\ pc'[v] \in Creating => u = v
      BY <1>2, <3>2, <3>3 DEF StartedOnce
    <3>7. \A u \in Threads : pc'[u] \in {"create", "launch"} => wpc' \in NoWorker
      BY <1>2, <3>2, <3>4 DEF StartedOnce
    <3>8. QED
      BY <3>5, <3>6, <3>7 DEF StartedOnce
  <2>5. QED
    BY <1>3, <2>1, <2>2, <2>3, <2>4
<1>10. GraphTypes'
  <2>1. batch' \subseteq batch
    BY <1>3 DEF workerVars, Restart
  <2>2. QED
    BY <1>1, <2>1 DEF TypeInv, TypeOK, GraphTypes, graphVars, historyVars
<1>11. RingTypes' /\ EventsProper'
  BY <1>1, RingStays DEF TypeInv, TypeOK
<1>12. WorkerTypes'
  <2>1. CASE point # "started"
    BY <1>1, <1>2, <1>3, <2>1, WorkerStays DEF ringVars
  <2>2. CASE point = "started"
    <3>1. wpc \in NoWorker
      BY <1>2, <1>3, <2>2 DEF StartedOnce
    <3>2. wpc' = "scan" /\ scan' = 0 /\ second' = FALSE /\ progress' = FALSE
      BY <1>3, <2>2 DEF Restart
    <3>3. hand' = {} /\ late' \in BOOLEAN
      BY <1>1, <1>2, <3>1 DEF WorkerTypes, NoWorker
    <3>4. second' \in BOOLEAN
      BY <3>2
    <3>5. progress' \in BOOLEAN
      BY <3>2
    <3>6. scan' \in 0..ThreadCount
      BY <3>2
    <3>7. QED
      BY <3>2, <3>3, <3>4, <3>5, <3>6 DEF WorkerTypes
  <2>3. QED
    BY <2>1, <2>2
<1>13. WakeTypes'
  <2>1. /\ workPending' \in {workPending, FALSE} /\ wakeupSem' \in {wakeupSem, 0}
        /\ shouldStop' \in {shouldStop, FALSE}
    BY DEF EnsureWorkerStarted, InitSemaphore, CreateWorker, WorkerStarted
  <2>2. workPending' \in BOOLEAN
    BY <1>2, <2>1 DEF WakeTypes
  <2>3. wakeupSem' \in Nat
    BY <1>2, <2>1 DEF WakeTypes
  <2>4. shouldStop' \in BOOLEAN
    BY <1>2, <2>1 DEF WakeTypes
  <2>5. workerState' \in {0, 1, 2}
    BY <1>2, <1>3 DEF WakeTypes
  <2>6. QED
    BY <1>1, <1>2, <2>2, <2>3, <2>4, <2>5 DEF WakeTypes
<1>14. QED
  BY <1>6, <1>7, <1>9, <1>10, <1>11, <1>12, <1>13 DEF TypeInv, TypeOK

\* Having handed over its event, or dropped it, a thread has none.
LEMMA HandedOver ==
    ASSUME AppTypes, UnknownProper, NEW t \in Threads, pc[t] = "enqueue",
           unknown' = [unknown EXCEPT ![t] = {}], Goto(t, "signal"),
           UNCHANGED <<held, new, acquires, policy>>
    PROVE  AppTypes' /\ UnknownProper'
<1>1. unknown' \in [Threads -> SUBSET Locks]
  BY DEF AppTypes
<1>2. AppTypes'
  BY <1>1, PointTypes DEF Points
<1>3. pc' = [pc EXCEPT ![t] = "signal"]
  BY DEF Goto
<1>4. /\ \A u \in Threads \ {t} :
            pc'[u] = pc[u] /\ new'[u] = new[u] /\ unknown'[u] = unknown[u]
      /\ unknown'[t] = {} /\ EdgesTo(unknown'[t], new'[t]) = {}
  BY <1>3 DEF AppTypes, EdgesTo
<1>5. UnknownProper'
  BY <1>4, UnknownStays
<1>6. QED
  BY <1>2, <1>5

LEMMA TypeEnqueue ==
    ASSUME TypeInv, NEW t \in Threads, EnqueueEvent(t)
    PROVE  TypeInv'
<1> USE RbAssumption
<1> DEFINE slot == tail[t] % Capacity
           ev == [to |-> new[t], from |-> unknown[t]]
<1>1. /\ pc[t] = "enqueue" /\ HasRoom(t)
      /\ events' = [events EXCEPT ![t][slot] = ev]
      /\ tail' = [tail EXCEPT ![t] = Inc(tail[t])]
      /\ unknown' = [unknown EXCEPT ![t] = {}]
      /\ Goto(t, "signal")
      /\ UNCHANGED <<backVars, wakeVars, historyVars, held, new, head>>
  BY DEF EnqueueEvent
<1>2. AppTypes /\ UnknownProper /\ EventsProper /\ StartedOnce /\ RingTypes /\ WorkerTypes
  BY DEF TypeInv, TypeOK
<1>3. UNCHANGED <<acquires, observed, dropped, owed, policy, main, workerVars, graphVars, scan,
                  wpc>>
  BY <1>1 DEF backVars, historyVars, workerVars
<1>4. AppTypes' /\ UnknownProper'
  BY <1>1, <1>2, <1>3, HandedOver
<1>5. StartedOnce'
  <2>1. pc' = [pc EXCEPT ![t] = "signal"]
    BY <1>1 DEF Goto
  <2>2. pc'[t] = "signal" /\ \A u \in Threads \ {t} : pc'[u] = pc[u]
    BY <1>2, <2>1 DEF AppTypes
  <2>3. UNCHANGED workerState
    BY <1>1 DEF wakeVars
  <2>4. QED
    BY <1>2, <1>3, <2>2, <2>3, StartedStays DEF Creating
<1>6. tail[t] \in Indices /\ head[t] \in Indices /\ slot \in 0..(Capacity - 1)
  <2>1. tail[t] \in Indices /\ head[t] \in Indices
    BY <1>2 DEF RingTypes, Indices
  <2>2. tail[t] \in Int
    BY <2>1 DEF Indices
  <2>3. QED
    BY <2>1, <2>2, ModRange
<1>7. EventsProper' /\ events' \in [Threads -> [0..(Capacity - 1) -> Events \cup {NoEvent}]]
  <2>1. new[t] \in Locks /\ unknown[t] \in SUBSET Locks
    BY <1>1, <1>2 DEF AppTypes
  <2>2. ev \in Events \cup {NoEvent} /\ EdgesTo(ev.from, ev.to) \subseteq Edges
    BY <1>2, <2>1 DEF UnknownProper, Events
  <2>3. ev \in ProperEvents
    BY <2>2 DEF ProperEvents
  <2>4. EventsProper'
    BY <1>1, <1>2, <1>6, <2>3 DEF EventsProper
  <2>5. ProperEvents \subseteq Events \cup {NoEvent}
    BY DEF ProperEvents
  <2>6. QED
    BY <2>4, <2>5 DEF EventsProper
<1>8. Inc(tail[t]) \in Indices /\ Inc(tail[t]) # head[t]
      /\ (Inc(tail[t]) - head[t]) % IndexModulus <= Capacity
  <2>1. (tail[t] - head[t]) % IndexModulus < Capacity
    BY <1>1 DEF HasRoom, Queued
  <2>2. QED
    BY <1>6, <2>1, IncValue, RingArithmetic
<1>9. RingTypes'
  <2>1. tail' \in [Threads -> Indices] /\ UNCHANGED head
    BY <1>1, <1>2, <1>8 DEF RingTypes, Indices
  <2>2. ASSUME NEW u \in Threads
        PROVE  Queued(u)' <= Capacity
    <3>1. CASE u = t
      BY <1>1, <1>2, <1>8, <3>1 DEF RingTypes, Queued
    <3>2. CASE u # t
      <4>1. tail'[u] = tail[u] /\ head'[u] = head[u]
        BY <1>1, <1>2, <3>2 DEF RingTypes
      <4>2. QED
        BY <1>2, <4>1 DEF RingTypes, Queued
    <3>3. QED
      BY <3>1, <3>2
  <2>3. QED
    BY <1>2, <1>7, <2>1, <2>2 DEF RingTypes, Indices
<1>10. WorkerTypes'
  <2>1. ASSUME wpc = "advance"
        PROVE  head'[scan] # tail'[scan]
    <3>1. scan \in Threads /\ head[scan] # tail[scan]
      BY <1>2, <2>1 DEF WorkerTypes, Threads
    <3>2. tail'[scan] = IF scan = t THEN Inc(tail[t]) ELSE tail[scan]
      BY <1>1, <1>2, <3>1 DEF RingTypes
    <3>3. QED
      BY <1>1, <1>8, <3>1, <3>2
  <2>2. QED
    BY <1>2, <1>3, <2>1 DEF WorkerTypes, workerVars
<1>11. GraphTypes'
  BY <1>3 DEF TypeInv, TypeOK, GraphTypes, graphVars, workerVars
<1>12. WakeTypes'
  BY <1>1, <1>3 DEF TypeInv, TypeOK, WakeTypes, wakeVars
<1>13. QED
  BY <1>4, <1>5, <1>7, <1>9, <1>10, <1>11, <1>12 DEF TypeInv, TypeOK

LEMMA TypeRingFull ==
    ASSUME TypeInv, NEW t \in Threads, RingFull(t)
    PROVE  TypeInv'
<1> USE RbAssumption
<1>1. /\ pc[t] = "enqueue"
      /\ UNCHANGED <<backVars, ringVars, wakeVars, held, new, acquires, observed, owed>>
  BY DEF RingFull
<1>2. AppTypes /\ UnknownProper /\ StartedOnce
  BY DEF TypeInv, TypeOK
<1>3. UNCHANGED <<policy, main, workerVars, graphVars, wpc, workerState>>
  BY <1>1 DEF backVars, wakeVars, workerVars
<1>4. PICK point \in {"signal", "stall"} :
        /\ Goto(t, point)
        /\ point = "signal" =>
              /\ dropped' = dropped \cup EdgesTo(unknown[t], new[t])
              /\ unknown' = [unknown EXCEPT ![t] = {}]
        /\ point = "stall" => UNCHANGED <<unknown, dropped>>
  BY DEF RingFull
<1>5. /\ pc'[t] = point
      /\ \A u \in Threads \ {t} : pc'[u] = pc[u]
  BY <1>2, <1>4 DEF Goto, AppTypes
<1>6. AppTypes' /\ UnknownProper'
  <2>1. CASE point = "signal"
    BY <1>1, <1>2, <1>3, <1>4, <2>1, HandedOver
  <2>2. CASE point = "stall"
    <3>1. UNCHANGED unknown /\ unknown' \in [Threads -> SUBSET Locks]
      BY <1>2, <1>4, <2>2 DEF AppTypes
    <3>2. AppTypes'
      BY <1>1, <1>2, <1>3, <1>4, <2>2, <3>1, PointTypes DEF Points
    <3>3. UnknownProper'
      BY <1>1, <1>2, <1>5, <2>2, <3>1 DEF UnknownProper
    <3>4. QED
      BY <3>2, <3>3
  <2>3. QED
    BY <2>1, <2>2
<1>7. StartedOnce'
  BY <1>2, <1>3, <1>5, StartedStays DEF Creating
<1>8. GraphTypes'
  <2>1. dropped' \subseteq dropped \cup EdgesTo(unknown[t], new[t])
    BY <1>4
  <2>2. EdgesTo(unknown[t], new[t]) \subseteq Edges
    BY <1>2 DEF UnknownProper
  <2>3. QED
    BY <1>1, <1>3, <2>1, <2>2 DEF TypeInv, TypeOK, GraphTypes, graphVars, workerVars
<1>9. RingTypes' /\ EventsProper'
  BY <1>1, RingStays DEF TypeInv, TypeOK
<1>10. WorkerTypes'
  BY <1>1, <1>3, WorkerStays DEF TypeInv, TypeOK, ringVars
<1>11. WakeTypes'
  BY <1>1, <1>3 DEF TypeInv, TypeOK, WakeTypes, wakeVars
<1>12. QED
  BY <1>6, <1>7, <1>8, <1>9, <1>10, <1>11 DEF TypeInv, TypeOK

\* The exchange of work_pending and the post, with what the thread does next.
LEMMA TypeSignal ==
    ASSUME TypeInv, NEW t \in Threads, SignalWorker(t) \/ PostWorker(t)
    PROVE  TypeInv'
<1> USE RbAssumption
<1>1. /\ pc[t] \in {"signal", "stall", "post", "stall_post"}
      /\ UNCHANGED <<backVars, ringVars, historyVars, unknown, workerState, shouldStop>>
      /\ workPending' \in {workPending, TRUE}
      /\ wakeupSem' \in {wakeupSem, wakeupSem + 1}
  BY DEF SignalWorker, PostWorker
<1>2. AppTypes /\ UnknownProper /\ StartedOnce /\ WakeTypes
  BY DEF TypeInv, TypeOK
<1>3. UNCHANGED <<acquires, observed, dropped, owed, policy, main, wpc>>
  BY <1>1 DEF backVars, historyVars, workerVars
<1>4. \/ pc[t] \in {"signal", "post"} /\ Push(t)
      \/ \E point \in {"post", "stall_post", "enqueue"} :
            /\ point = "post" => pc[t] = "signal"
            /\ Goto(t, point)
            /\ UNCHANGED <<held, new>>
  BY <1>1 DEF SignalWorker, PostWorker, Signalled
<1>5. /\ AppTypes' /\ UnknownProper'
      /\ pc'[t] \notin Creating
      /\ \A u \in Threads \ {t} : pc'[u] = pc[u]
  <2>1. CASE pc[t] \in {"signal", "post"} /\ Push(t)
    <3>1. unknown[t] = {}
      BY <1>2, <2>1 DEF UnknownProper
    <3>2. AppTypes' /\ UnknownProper'
      BY <1>1, <1>2, <1>3, <2>1, <3>1, PushTypes
    <3>3. pc' = [pc EXCEPT ![t] = "idle"]
      BY <2>1 DEF Push, Goto
    <3>4. QED
      BY <1>2, <3>2, <3>3 DEF AppTypes, Creating
  <2>2. ASSUME NEW point \in {"post", "stall_post", "enqueue"},
               point = "post" => pc[t] = "signal",
               Goto(t, point), UNCHANGED <<held, new>>
        PROVE  /\ AppTypes' /\ UnknownProper'
               /\ pc'[t] \notin Creating
               /\ \A u \in Threads \ {t} : pc'[u] = pc[u]
    <3>1. unknown' \in [Threads -> SUBSET Locks]
      BY <1>1, <1>2 DEF AppTypes
    <3>2. AppTypes'
      BY <1>1, <1>2, <1>3, <2>2, <3>1, PointTypes DEF Points
    <3>3. pc'[t] = point /\ \A u \in Threads \ {t} : pc'[u] = pc[u]
      BY <1>2, <2>2 DEF Goto, AppTypes
    <3>4. UnknownProper'
      BY <1>1, <1>2, <2>2, <3>3 DEF UnknownProper
    <3>5. QED
      BY <3>2, <3>3, <3>4 DEF Creating
  <2>3. QED
    BY <1>4, <2>1, <2>2
<1>6. StartedOnce'
  BY <1>1, <1>2, <1>3, <1>5, StartedStays
<1>7. GraphTypes' /\ RingTypes' /\ EventsProper' /\ WorkerTypes'
  BY <1>1, <1>3, BackStays
<1>8. WakeTypes'
  <2>1. workPending' \in BOOLEAN
    BY <1>1, <1>2 DEF WakeTypes
  <2>2. wakeupSem' \in Nat
    BY <1>1, <1>2 DEF WakeTypes
  <2>3. QED
    BY <1>1, <1>2, <1>3, <2>1, <2>2 DEF WakeTypes
<1>9. QED
  BY <1>5, <1>6, <1>7, <1>8 DEF TypeInv, TypeOK

-----------------------------------------------------------------------------
(* The worker's steps. *)

LEMMA ThreadsStay ==
    ASSUME TypeInv, UNCHANGED appVars, UNCHANGED workerState,
           wpc \notin NoWorker \/ UNCHANGED wpc
    PROVE  AppTypes' /\ UnknownProper' /\ StartedOnce'
<1>1. AppTypes' /\ UnknownProper'
  BY AppStays DEF TypeInv, TypeOK
<1>2. UNCHANGED <<pc, main>>
  BY DEF appVars
<1>3. StartedOnce'
  BY <1>2 DEF TypeInv, StartedOnce, NoWorker
<1>4. QED
  BY <1>1, <1>3

LEMMA TypeDequeue ==
    ASSUME TypeInv, DequeueEvent
    PROVE  TypeInv'
<1> USE RbAssumption
<1>1. /\ wpc = "scan" /\ scan < ThreadCount /\ head[scan] # tail[scan]
      /\ batch' = batch \cup EdgesTo(EventAtHead(scan).from, EventAtHead(scan).to)
      /\ progress' = TRUE
      /\ wpc' = "advance"
      /\ UNCHANGED <<appVars, ringVars, wakeVars, graphVars, scan, second, hand, late>>
  BY DEF DequeueEvent
<1>2. AppTypes' /\ UnknownProper' /\ StartedOnce'
  BY <1>1, ThreadsStay DEF wakeVars, NoWorker
<1>3. RingTypes' /\ EventsProper'
  BY <1>1, RingStays DEF TypeInv, TypeOK
<1>4. WakeTypes'
  BY <1>1 DEF TypeInv, TypeOK, WakeTypes, wakeVars, appVars
<1>5. WorkerTypes'
  BY <1>1 DEF TypeInv, TypeOK, WorkerTypes, ringVars
<1>6. GraphTypes'
  <2>1. scan \in Threads
    BY <1>1 DEF TypeInv, TypeOK, WorkerTypes, Threads
  <2>2. head[scan] \in Int
    BY <2>1 DEF TypeInv, TypeOK, RingTypes
  <2>3. head[scan] % Capacity \in 0..(Capacity - 1)
    BY <2>2, ModRange
  <2>4. EventAtHead(scan) \in ProperEvents
    BY <2>1, <2>3 DEF TypeInv, EventsProper, EventAtHead
  <2>5. EdgesTo(EventAtHead(scan).from, EventAtHead(scan).to) \subseteq Edges
    BY <2>4 DEF ProperEvents
  <2>6. QED
    BY <1>1, <2>5 DEF TypeInv, TypeOK, GraphTypes, graphVars, appVars, historyVars
<1>7. QED
  BY <1>2, <1>3, <1>4, <1>5, <1>6 DEF TypeInv, TypeOK

LEMMA TypeAdvance ==
    ASSUME TypeInv, AdvanceHead
    PROVE  TypeInv'
<1> USE RbAssumption
<1>1. /\ wpc = "advance"
      /\ head' = [head EXCEPT ![scan] = Inc(head[scan])]
      /\ wpc' = "scan"
      /\ UNCHANGED <<appVars, wakeVars, graphVars, tail, events, scan, second, progress,
                     batch, hand, late>>
  BY DEF AdvanceHead
<1>2. AppTypes' /\ UnknownProper' /\ StartedOnce'
  BY <1>1, ThreadsStay DEF wakeVars, NoWorker
<1>3. EventsProper'
  BY <1>1 DEF TypeInv, EventsProper
<1>4. scan \in Threads /\ head[scan] # tail[scan]
  BY <1>1 DEF TypeInv, TypeOK, WorkerTypes, Threads
<1>5. head[scan] \in Indices /\ tail[scan] \in Indices
  BY <1>4 DEF TypeInv, TypeOK, RingTypes, Indices
<1>6. RingTypes'
  <2>1. Inc(head[scan]) \in Indices
    BY <1>5, IncValue
  <2>2. head' \in [Threads -> Indices]
    BY <1>1, <2>1 DEF TypeInv, TypeOK, RingTypes, Indices
  <2>3. (tail[scan] - Inc(head[scan])) % IndexModulus <= Capacity
    <3>1. /\ (tail[scan] - head[scan]) % IndexModulus \in Nat
          /\ (tail[scan] - Inc(head[scan])) % IndexModulus =
                ((tail[scan] - head[scan]) % IndexModulus) - 1
      BY <1>4, <1>5, RingArithmetic
    <3>2. (tail[scan] - head[scan]) % IndexModulus <= Capacity
      BY <1>4 DEF TypeInv, TypeOK, RingTypes, Queued
    <3>3. QED
      BY <3>1, <3>2
  <2>4. ASSUME NEW u \in Threads
        PROVE  Queued(u)' <= Capacity
    <3>1. CASE u = scan
      BY <1>1, <1>4, <2>3, <3>1 DEF TypeInv, TypeOK, RingTypes, Queued
    <3>2. CASE u # scan
      <4>1. head'[u] = head[u] /\ tail'[u] = tail[u]
        BY <1>1, <3>2 DEF TypeInv, TypeOK, RingTypes
      <4>2. QED
        BY <4>1 DEF TypeInv, TypeOK, RingTypes, Queued
    <3>3. QED
      BY <3>1, <3>2
  <2>5. QED
    BY <1>1, <2>2, <2>4 DEF TypeInv, TypeOK, RingTypes, Indices
<1>7. WakeTypes'
  BY <1>1 DEF TypeInv, TypeOK, WakeTypes, wakeVars, appVars
<1>8. WorkerTypes'
  BY <1>1 DEF TypeInv, TypeOK, WorkerTypes
<1>9. GraphTypes'
  BY <1>1 DEF TypeInv, TypeOK, GraphTypes, graphVars, appVars, historyVars
<1>10. QED
  BY <1>2, <1>3, <1>6, <1>7, <1>8, <1>9 DEF TypeInv, TypeOK

\* Looking for cycles and recording.
LEMMA TypeProcess ==
    ASSUME TypeInv, FindCycle \/ ReportCycle \/ InsertEdge
    PROVE  TypeInv'
<1> USE RbAssumption
<1>1. /\ wpc \in {"scan", "report", "insert"}
      /\ UNCHANGED <<appVars, ringVars, wakeVars, scan, second, progress, batch, late>>
  BY DEF FindCycle, ReportCycle, InsertEdge, Drained
<1>2. AppTypes' /\ UnknownProper' /\ StartedOnce'
  <2>1. wpc \notin NoWorker
    BY <1>1 DEF NoWorker
  <2>2. UNCHANGED workerState
    BY <1>1 DEF wakeVars
  <2>3. QED
    BY <1>1, <2>1, <2>2, ThreadsStay
<1>3. RingTypes' /\ EventsProper'
  BY <1>1, RingStays DEF TypeInv, TypeOK
<1>4. WakeTypes'
  BY <1>1 DEF TypeInv, TypeOK, WakeTypes, wakeVars, appVars
<1>5. WorkerTypes' /\ GraphTypes'
  <2>1. UNCHANGED <<observed, dropped, owed, head, tail>>
    BY <1>1 DEF appVars, historyVars, ringVars
  <2>2. WorkerTypes /\ GraphTypes
    BY DEF TypeInv, TypeOK
  <2>3. CASE FindCycle
    <3>1. PICK e \in batch \ graph : hand' = {e}
      BY <2>3 DEF FindCycle
    <3>2. wpc' = "report" /\ UNCHANGED graphVars
      BY <2>3 DEF FindCycle
    <3>3. WorkerTypes'
      BY <1>1, <2>1, <2>2, <3>1, <3>2 DEF WorkerTypes
    <3>4. GraphTypes'
      BY <1>1, <2>1, <2>2, <3>1, <3>2 DEF GraphTypes, graphVars
    <3>5. QED
      BY <3>3, <3>4
  <2>4. CASE ReportCycle
    <3>1. /\ wpc = "report" /\ wpc' = "insert"
          /\ reported' = reported \cup hand
          /\ UNCHANGED <<hand, graph, reach>>
      BY <2>4 DEF ReportCycle
    <3>2. WorkerTypes'
      BY <1>1, <2>1, <2>2, <3>1 DEF WorkerTypes
    <3>3. GraphTypes'
      BY <1>1, <2>1, <2>2, <3>1 DEF GraphTypes
    <3>4. QED
      BY <3>2, <3>3
  <2>5. CASE InsertEdge
    <3>1. PICK e \in batch \ graph : graph' = graph \cup {e} /\ reach' = UpdatedReach(e)
      BY <2>5 DEF InsertEdge
    <3>2. hand' = {} /\ wpc' = "scan" /\ UNCHANGED reported
      BY <2>5 DEF InsertEdge
    <3>3. WorkerTypes'
      BY <1>1, <2>1, <2>2, <3>2 DEF WorkerTypes
    <3>4. e[1] \in Locks /\ e[2] \in Locks
      BY <2>2, <3>1 DEF GraphTypes, Edges
    <3>5. reach' \in [Locks -> SUBSET Locks]
      BY <2>2, <3>1, <3>4 DEF GraphTypes, UpdatedReach
    <3>6. GraphTypes'
      BY <1>1, <2>1, <2>2, <3>1, <3>2, <3>5 DEF GraphTypes
    <3>7. QED
      BY <3>3, <3>6
  <2>6. QED
    BY <2>3, <2>4, <2>5
<1>6. QED
  BY <1>2, <1>3, <1>4, <1>5 DEF TypeInv, TypeOK

\* Going on to the next ring, to another drain, to sleep or to an end; and the
\* late store.
LEMMA TypeLoop ==
    ASSUME TypeInv,
           \/ NextRing \/ DrainAgain \/ ClearPending \/ WorkFound \/ EndOrSleep \/ CheckQueue
           \/ EndWorker \/ WakeUp
           \/ FlushPending
    PROVE  TypeInv'
<1> USE RbAssumption
<1>1. UNCHANGED <<appVars, ringVars, graphVars, workerState, shouldStop, hand>>
  BY DEF NextRing, DrainAgain, ClearPending, WorkFound, EndOrSleep, CheckQueue,
         EndWorker, WakeUp, FlushPending,
         wakeVars
<1>2. /\ \/ /\ wpc \in {"scan", "sleep", "check"}
            /\ wpc' \in {"scan", "sleep", "check", "exited"}
         \/ UNCHANGED <<wpc, scan>>
      /\ scan' \in {scan, 0} \/ (scan < ThreadCount /\ scan' = scan + 1)
      /\ batch' \in {batch, {}}
  BY DEF NextRing, DrainAgain, ClearPending, WorkFound, EndOrSleep, CheckQueue,
         EndWorker, WakeUp, FlushPending,
         DrainDone, Drained, LookAgain, Restart
<1>3. /\ second' \in {second, TRUE, FALSE}
      /\ progress' \in {progress, FALSE}
      /\ late' \in {late, TRUE, FALSE}
  BY DEF NextRing, DrainAgain, ClearPending, WorkFound, EndOrSleep, CheckQueue,
         EndWorker, WakeUp, FlushPending,
         LookAgain, Restart
<1>4. workPending' \in {workPending, TRUE, FALSE}
  BY DEF NextRing, DrainAgain, ClearPending, WorkFound, EndOrSleep, CheckQueue,
         EndWorker, WakeUp, FlushPending,
         wakeVars
<1>5. wakeupSem' = wakeupSem \/ (wakeupSem > 0 /\ wakeupSem' = wakeupSem - 1)
  BY DEF NextRing, DrainAgain, ClearPending, WorkFound, EndOrSleep, CheckQueue,
         EndWorker, WakeUp, FlushPending,
         wakeVars
<1>6. AppTypes' /\ UnknownProper' /\ StartedOnce'
  <2>1. wpc \notin NoWorker \/ UNCHANGED wpc
    BY <1>2 DEF NoWorker
  <2>2. QED
    BY <1>1, <2>1, ThreadsStay
<1>7. RingTypes' /\ EventsProper'
  BY <1>1, RingStays DEF TypeInv, TypeOK
<1>8. WakeTypes'
  <2>1. workPending' \in BOOLEAN
    BY <1>4 DEF TypeInv, TypeOK, WakeTypes
  <2>2. wakeupSem' \in Nat
    BY <1>5 DEF TypeInv, TypeOK, WakeTypes
  <2>3. QED
    BY <1>1, <2>1, <2>2 DEF TypeInv, TypeOK, WakeTypes, appVars
<1>9. WorkerTypes'
  <2>1. WorkerTypes /\ UNCHANGED <<hand, head, tail>>
    BY <1>1 DEF TypeInv, TypeOK, ringVars
  <2>2. scan' \in 0..ThreadCount
    BY <1>2, <2>1 DEF WorkerTypes
  <2>3. second' \in BOOLEAN
    BY <1>3, <2>1 DEF WorkerTypes
  <2>4. progress' \in BOOLEAN
    BY <1>3, <2>1 DEF WorkerTypes
  <2>5. late' \in BOOLEAN
    BY <1>3, <2>1 DEF WorkerTypes
  <2>6. QED
    BY <1>2, <2>1, <2>2, <2>3, <2>4, <2>5 DEF WorkerTypes
<1>10. GraphTypes'
  BY <1>1, <1>2 DEF TypeInv, TypeOK, GraphTypes, graphVars, appVars, historyVars
<1>11. QED
  BY <1>6, <1>7, <1>8, <1>9, <1>10 DEF TypeInv, TypeOK

\* What is queued are orders.
LEMMA QueuedType ==
    ASSUME TypeInv, NEW t \in Threads
    PROVE  QueuedEdges(t) \subseteq Edges
<1> USE RbAssumption
<1> DEFINE ev(i) == EventAt(t, i)
<1>1. ASSUME NEW i \in 0..(Queued(t) - 1)
      PROVE  EdgesTo(ev(i).from, ev(i).to) \subseteq Edges
  <2>1. head[t] + i \in Int
    BY DEF TypeInv, TypeOK, RingTypes
  <2>2. (head[t] + i) % Capacity \in 0..(Capacity - 1)
    BY <2>1, ModRange
  <2>3. ev(i) \in ProperEvents
    BY <2>2 DEF TypeInv, EventsProper, EventAt
  <2>4. QED
    BY <2>3 DEF ProperEvents
<1>2. QED
  BY <1>1 DEF QueuedEdges

\* The shutdown.
LEMMA TypeMain ==
    ASSUME TypeInv, Main
    PROVE  TypeInv'
<1> USE RbAssumption
<1>1. UNCHANGED <<workerVars, ringVars, acquires, observed, dropped, graphVars, held, new,
                  unknown, pc, policy, workPending>>
  BY DEF Main, Shutdown, PostStop, JoinWorker, ResetWorker, historyVars, wakeVars
<1>2. /\ main' \in {"post", "join", "reset", "done"}
      /\ main' = "post" => main = "run" /\ workerState = 2 /\ UNCHANGED workerState
      /\ main' = "join" => main = "post" /\ UNCHANGED workerState
      /\ main' = "reset" => main = "join" /\ wpc = "exited" /\ UNCHANGED workerState
      /\ main' = "done" => \/ UNCHANGED workerState
                           \/ main = "reset" /\ workerState' = 0
  BY DEF Main, Shutdown, PostStop, JoinWorker, ResetWorker, wakeVars
<1>3. AppTypes' /\ UnknownProper'
  BY <1>1 DEF TypeInv, TypeOK, AppTypes, UnknownProper
<1>4. StartedOnce'
  <2>1. StartedOnce /\ UNCHANGED <<pc, wpc>>
    BY <1>1 DEF TypeInv, workerVars
  <2>2. CASE UNCHANGED workerState
    <3>1. main' \in {"post", "join", "reset"} => workerState' = 2
      BY <1>2, <2>1, <2>2 DEF StartedOnce
    <3>2. main' = "reset" => wpc' \in NoWorker
      BY <1>2, <2>1 DEF NoWorker
    <3>3. QED
      BY <2>1, <2>2, <3>1, <3>2 DEF StartedOnce
  <2>3. CASE main' = "done" /\ main = "reset" /\ workerState' = 0
    <3>1. \A t \in Threads : pc'[t] \notin Creating
      BY <2>1, <2>3 DEF StartedOnce
    <3>2. wpc' \in NoWorker
      BY <2>1, <2>3 DEF StartedOnce
    <3>3. QED
      BY <2>3, <3>1, <3>2 DEF StartedOnce, Creating
  <2>4. QED
    BY <1>2, <2>2, <2>3
<1>5. RingTypes' /\ EventsProper'
  BY <1>1, RingStays DEF TypeInv, TypeOK
<1>6. WakeTypes'
  <2>1. shouldStop' \in {TRUE, shouldStop} /\ wakeupSem' \in {wakeupSem, wakeupSem + 1}
    BY DEF Main, Shutdown, PostStop, JoinWorker, ResetWorker, PostForStop, wakeVars
  <2>2. shouldStop' \in BOOLEAN
    BY <2>1 DEF TypeInv, TypeOK, WakeTypes
  <2>3. wakeupSem' \in Nat
    BY <2>1 DEF TypeInv, TypeOK, WakeTypes
  <2>4. workerState' \in {0, 1, 2} /\ main' \in {"run", "post", "join", "reset", "done"}
    BY <1>2 DEF TypeInv, TypeOK, WakeTypes
  <2>5. QED
    BY <1>1, <2>2, <2>3, <2>4 DEF TypeInv, TypeOK, WakeTypes
<1>7. WorkerTypes'
  BY <1>1, WorkerStays DEF TypeInv, TypeOK, ringVars
<1>8. GraphTypes'
  <2>1. owed' \subseteq owed \cup batch \cup UNION {QueuedEdges(t) : t \in Threads}
    BY DEF Main, Shutdown, PostStop, JoinWorker, ResetWorker, historyVars
  <2>2. UNION {QueuedEdges(t) : t \in Threads} \subseteq Edges
    BY QueuedType
  <2>3. QED
    BY <1>1, <2>1, <2>2 DEF TypeInv, TypeOK, GraphTypes, graphVars, workerVars
<1>9. QED
  BY <1>3, <1>4, <1>5, <1>6, <1>7, <1>8 DEF TypeInv, TypeOK

LEMMA TypeStutter ==
    ASSUME TypeInv, UNCHANGED vars
    PROVE  TypeInv'
<1>1. UNCHANGED <<appVars, ringVars, wakeVars, workerVars, graphVars>>
  BY DEF vars, appVars
<1>2. AppTypes' /\ UnknownProper' /\ StartedOnce'
  BY <1>1, ThreadsStay DEF wakeVars, workerVars
<1>3. RingTypes' /\ EventsProper'
  BY <1>1, RingStays DEF TypeInv, TypeOK
<1>4. WakeTypes'
  BY <1>1 DEF TypeInv, TypeOK, WakeTypes, wakeVars, appVars
<1>5. WorkerTypes'
  BY <1>1, WorkerStays DEF TypeInv, TypeOK, ringVars
<1>6. GraphTypes'
  BY <1>1 DEF TypeInv, TypeOK, GraphTypes, graphVars, workerVars, appVars, historyVars
<1>7. QED
  BY <1>2, <1>3, <1>4, <1>5, <1>6 DEF TypeInv, TypeOK

LEMMA TypeStep == TypeInv /\ [Next]_vars => TypeInv'
BY TypeAcquire, TypeRelease, TypeCollect, TypeCreation, TypeEnqueue, TypeRingFull, TypeSignal,
   TypeDequeue, TypeAdvance, TypeProcess, TypeLoop, TypeMain, TypeStutter
   DEF Next, Internal, Worker

LEMMA TypeInvariant == Spec => []TypeInv
BY TypeInit, TypeStep, PTL DEF Spec

\* Every variable keeps its type; in particular a ring, whose two indices count
\* modulo 2^32, never holds more events than it has slots, whatever the threads
\* and the worker do (potential.c: the two indices of lockdep_rb_queue_t).
THEOREM TypeCorrect == Spec => []TypeOK
<1>1. TypeInv => TypeOK
  BY DEF TypeInv
<1>2. QED
  BY <1>1, TypeInvariant, PTL

-----------------------------------------------------------------------------
(* The reachability bits. *)

\* All steps but three leave the graph and the edge in hand alone, and leave the
\* worker at its place if there is one.
LEMMA GraphFrame ==
    ASSUME TypeInv, [Next]_vars, ~FindCycle, ~ReportCycle, ~InsertEdge
    PROVE  /\ UNCHANGED <<graph, reach, reported, hand>>
           /\ UNCHANGED wpc \/ hand = {}
<1>1. CASE \E t \in Threads : CreateWorker(t)
  <2>1. PICK t \in Threads : CreateWorker(t)
    BY <1>1
  <2>2. pc[t] = "launch" /\ UNCHANGED <<graphVars, hand>>
    BY <2>1 DEF CreateWorker
  <2>3. hand = {}
    BY <2>2 DEF TypeInv, StartedOnce, NoWorker, TypeOK, WorkerTypes
  <2>4. QED
    BY <2>2, <2>3 DEF graphVars
<1>2. CASE \E t \in Threads :
            \/ \E m \in Locks : Acquire(t, m) \/ Release(t, m)
            \/ Collect(t) \/ EnsureWorkerStarted(t) \/ InitSemaphore(t) \/ WorkerStarted(t)
            \/ EnqueueEvent(t) \/ RingFull(t) \/ SignalWorker(t) \/ PostWorker(t)
  <2>1. UNCHANGED backVars
    BY <1>2 DEF Acquire, Release, Collect, EnsureWorkerStarted, InitSemaphore, WorkerStarted,
                EnqueueEvent, RingFull, SignalWorker, PostWorker
  <2>2. QED
    BY <2>1 DEF backVars, workerVars, graphVars
<1>3. CASE DequeueEvent \/ AdvanceHead
  <2>1. UNCHANGED <<graphVars, hand>> /\ wpc \in {"scan", "advance"}
    BY <1>3 DEF DequeueEvent, AdvanceHead
  <2>2. QED
    BY <2>1 DEF TypeInv, TypeOK, WorkerTypes, graphVars
<1>4. CASE NextRing \/ DrainAgain \/ ClearPending \/ WorkFound \/ EndOrSleep \/ CheckQueue
           \/ EndWorker \/ WakeUp
           \/ FlushPending
  <2>1. UNCHANGED <<graphVars, hand>> /\ (UNCHANGED wpc \/ wpc \in {"scan", "sleep", "check"})
    BY <1>4 DEF NextRing, DrainAgain, ClearPending, WorkFound, EndOrSleep, CheckQueue,
         EndWorker, WakeUp,
                FlushPending, DrainDone, Drained
  <2>2. QED
    BY <2>1 DEF TypeInv, TypeOK, WorkerTypes, graphVars
<1>5. CASE Main
  BY <1>5 DEF Main, Shutdown, PostStop, JoinWorker, ResetWorker, workerVars, graphVars
<1>6. CASE UNCHANGED vars
  BY <1>6 DEF vars, workerVars, graphVars
<1>7. QED
  BY <1>1, <1>2, <1>3, <1>4, <1>5, <1>6 DEF Next, Internal, Worker

LEMMA ClosureStep ==
    ASSUME TypeInv, ReachIsClosure, [Next]_vars
    PROVE  ReachIsClosure'
<1>1. CASE InsertEdge
  <2>1. PICK e \in batch \ graph : graph' = graph \cup {e} /\ reach' = UpdatedReach(e)
    BY <1>1 DEF InsertEdge
  <2>2. graph \in SUBSET Edges /\ e \in Edges /\ reach \in [Locks -> SUBSET Locks]
    BY <2>1 DEF TypeInv, TypeOK, GraphTypes
  <2>3. e[1] \in Locks /\ e[2] \in Locks
    BY <2>2 DEF Edges
  <2>4. \A x, y \in Locks : y \in reach[x] <=> Follows(graph, x, y)
    BY DEF ReachIsClosure, Follows
  <2>5. ASSUME NEW a \in Locks, NEW b \in Locks
        PROVE  b \in reach'[a] <=> Follows(graph', a, b)
    <3>1. b \in reach'[a] <=>
              \/ b \in reach[a]
              \/ (a = e[1] \/ e[1] \in reach[a]) /\ (b = e[2] \/ b \in reach[e[2]])
      BY <2>1, <2>2, <2>3 DEF UpdatedReach
    <3>2. Follows(graph', a, b) <=>
              \/ Follows(graph, a, b)
              \/ (a = e[1] \/ Follows(graph, a, e[1])) /\ (b = e[2] \/ Follows(graph, e[2], b))
      BY <2>1, <2>2, ClosureGrows
    <3>3. QED
      BY <2>3, <2>4, <3>1, <3>2
  <2>6. QED
    BY <2>5 DEF ReachIsClosure, Follows
<1>2. CASE ~InsertEdge
  <2>1. UNCHANGED <<graph, reach>>
    <3>1. CASE FindCycle \/ ReportCycle
      BY <3>1 DEF FindCycle, ReportCycle, graphVars
    <3>2. CASE ~FindCycle /\ ~ReportCycle
      BY <1>2, <3>2, GraphFrame
    <3>3. QED
      BY <3>1, <3>2
  <2>2. QED
    BY <2>1 DEF ReachIsClosure
<1>3. QED
  BY <1>1, <1>2

\* The bits the worker keeps up to date edge by edge are at all times the
\* transitive closure of its graph, cycles and all
\* (lockdep_rb_update_reachability).
THEOREM ReachabilityIsClosure == Spec => []ReachIsClosure
<1>1. Init => ReachIsClosure
  BY DEF Init, ReachIsClosure
<1>2. TypeInv /\ ReachIsClosure /\ [Next]_vars => ReachIsClosure'
  BY ClosureStep
<1>3. QED
  BY <1>1, <1>2, TypeInvariant, PTL DEF Spec

-----------------------------------------------------------------------------
(* Refinement. *)

\* The edge in hand is one of the batch, still to be inserted.
HandInBatch == \A e \in hand : hand = {e} /\ e \in batch \ graph

LEMMA HandStep ==
    ASSUME TypeInv, HandInBatch, [Next]_vars
    PROVE  HandInBatch'
<1>1. CASE FindCycle
  BY <1>1 DEF FindCycle, HandInBatch, graphVars
<1>2. CASE ReportCycle
  BY <1>2 DEF ReportCycle, HandInBatch
<1>3. CASE InsertEdge
  BY <1>3 DEF InsertEdge, HandInBatch
<1>4. CASE ~FindCycle /\ ~ReportCycle /\ ~InsertEdge
  <2>1. UNCHANGED <<graph, hand>>
    BY <1>4, GraphFrame
  <2>2. CASE hand = {}
    BY <2>1, <2>2 DEF HandInBatch
  <2>3. CASE hand # {}
    <3>1. wpc \in {"report", "insert"}
      BY <2>3 DEF TypeInv, TypeOK, WorkerTypes
    <3>2. CASE UNCHANGED batch
      BY <2>1, <3>2 DEF HandInBatch
    <3>3. CASE ~UNCHANGED batch
      <4>1. \A t \in Threads : ~CreateWorker(t)
        BY <3>1 DEF CreateWorker, TypeInv, StartedOnce, NoWorker
      <4>2. QED
        BY <1>4, <3>1, <3>3, <4>1 DEF Next, Internal, Worker, Main, vars, backVars, workerVars,
          Acquire, Release, Collect, EnsureWorkerStarted, InitSemaphore, WorkerStarted,
          EnqueueEvent, RingFull, SignalWorker, PostWorker, DequeueEvent, AdvanceHead,
          NextRing, DrainAgain, ClearPending, WorkFound, EndOrSleep, CheckQueue,
         EndWorker, WakeUp, FlushPending,
          DrainDone, Drained, Shutdown, PostStop, JoinWorker, ResetWorker
    <3>4. QED
      BY <3>2, <3>3
  <2>4. QED
    BY <2>2, <2>3
<1>5. QED
  BY <1>1, <1>2, <1>3, <1>4

LEMMA HandInvariant == Spec => []HandInBatch
<1>1. Init => HandInBatch
  BY DEF Init, HandInBatch
<1>2. TypeInv /\ HandInBatch /\ [Next]_vars => HandInBatch'
  BY HandStep
<1>3. QED
  BY <1>1, <1>2, TypeInvariant, PTL DEF Spec

\* For an edge the bits say what a search of the graph says.
LEMMA BitsFindCycles ==
    ASSUME TypeInv, ReachIsClosure, NEW e \in Edges
    PROVE  FindsCycle(e) <=> ClosesCycle(graph, e)
<1>1. e[1] \in Locks /\ e[2] \in Locks /\ e[1] # e[2] /\ graph \in SUBSET Edges
  BY DEF Edges, TypeInv, TypeOK, GraphTypes
<1>2. Reaches(graph, e[2], e[1]) <=> Follows(graph, e[2], e[1])
  BY <1>1, ReachesFirstEdge
<1>3. e[1] \in reach[e[2]] <=> Follows(graph, e[2], e[1])
  BY <1>1 DEF ReachIsClosure, Follows
<1>4. QED
  BY <1>2, <1>3 DEF FindsCycle, ClosesCycle

\* Every step of the backend records an order, prints a report, or is none of
\* LockOrder's business.
LEMMA RefinementStep ==
    ASSUME TypeInv, HandInBatch, ReachIsClosure, [Next]_vars
    PROVE  [Abstract!Next]_(Abstract!vars)
<1> DEFINE pend == IF wpc = "report" THEN hand ELSE {}
<1>1. CASE FindCycle
  <2>1. PICK e \in batch \ graph : FindsCycle(e) /\ hand' = {e}
    BY <1>1 DEF FindCycle
  <2>2. wpc = "scan" /\ wpc' = "report" /\ UNCHANGED <<graph, reported>>
    BY <1>1 DEF FindCycle, Drained, graphVars
  <2>3. hand = {} /\ e \in Edges
    BY <2>1, <2>2 DEF TypeInv, TypeOK, WorkerTypes, GraphTypes
  <2>4. ClosesCycle(graph \cup hand, e)
    BY <2>1, <2>3 DEF FindsCycle
  <2>5. Abstract!ClosesCycle(graph \cup hand, e)
    BY <2>4 DEF Abstract!ClosesCycle, ClosesCycle, Abstract!Reaches, Reaches,
                Abstract!Closed, Closed
  <2>6. Abstract!Record(e)
    BY <2>1, <2>2, <2>3, <2>5 DEF Abstract!Record
  <2>7. QED
    BY <2>3, <2>6 DEF Abstract!Next, Abstract!Edges, Edges
<1>2. CASE ReportCycle
  <2>1. /\ wpc = "report" /\ wpc' = "insert" /\ reported' = reported \cup hand
        /\ UNCHANGED <<graph, hand>>
    BY <1>2 DEF ReportCycle
  <2>2. PICK e \in hand : hand = {e} /\ e \in Edges
    BY <2>1 DEF TypeInv, TypeOK, WorkerTypes, GraphTypes, HandInBatch
  <2>3. Abstract!Report(e)
    BY <2>1, <2>2 DEF Abstract!Report
  <2>4. QED
    BY <2>2, <2>3 DEF Abstract!Next, Abstract!Edges, Edges
<1>3. CASE InsertEdge
  <2>1. PICK e \in batch \ graph :
            /\ \/ wpc = "insert" /\ e \in hand
               \/ wpc = "scan" /\ ~FindsCycle(e)
            /\ graph' = graph \cup {e}
    BY <1>3 DEF InsertEdge, Drained
  <2>2. hand' = {} /\ wpc' = "scan" /\ UNCHANGED reported
    BY <1>3 DEF InsertEdge
  <2>3. CASE wpc = "insert" /\ e \in hand
    <3>1. hand = {e}
      BY <2>3 DEF HandInBatch
    <3>2. UNCHANGED <<graph \cup hand, pend, reported>>
      BY <2>1, <2>2, <2>3, <3>1
    <3>3. QED
      BY <3>2 DEF Abstract!vars
  <2>4. CASE wpc = "scan" /\ ~FindsCycle(e)
    <3>1. hand = {} /\ e \in Edges
      BY <2>1, <2>4 DEF TypeInv, TypeOK, WorkerTypes, GraphTypes
    <3>2. ~ClosesCycle(graph \cup hand, e)
      BY <2>4, <3>1, BitsFindCycles
    <3>3. ~Abstract!ClosesCycle(graph \cup hand, e)
      BY <3>2 DEF Abstract!ClosesCycle, ClosesCycle, Abstract!Reaches, Reaches,
                  Abstract!Closed, Closed
    <3>4. Abstract!Record(e)
      BY <2>1, <2>2, <2>4, <3>1, <3>3 DEF Abstract!Record
    <3>5. QED
      BY <3>1, <3>4 DEF Abstract!Next, Abstract!Edges, Edges
  <2>5. QED
    BY <2>1, <2>3, <2>4
<1>4. CASE ~FindCycle /\ ~ReportCycle /\ ~InsertEdge
  <2>1. UNCHANGED <<graph, hand, reported>> /\ (UNCHANGED wpc \/ hand = {})
    BY <1>4, GraphFrame
  <2>2. UNCHANGED <<graph \cup hand, pend, reported>>
    BY <2>1
  <2>3. QED
    BY <2>2 DEF Abstract!vars
<1>5. QED
  BY <1>1, <1>2, <1>3, <1>4

\* The worker implements LockOrder: it records the orders one at a time, and
\* reports those, and only those, that close a cycle when they are recorded,
\* for the reachability bits never disagree with the graph
\* (lockdep_rb_add_edge_if_new).
THEOREM BackendImplementsLockOrder == Spec => ImplementsLockOrder
<1>1. Init => Abstract!Init
  BY DEF Init, Abstract!Init
<1>2. TypeInv /\ HandInBatch /\ ReachIsClosure /\ [Next]_vars
          => [Abstract!Next]_(Abstract!vars)
  BY RefinementStep
<1>3. QED
  BY <1>1, <1>2, TypeInvariant, HandInvariant, ReachabilityIsClosure, PTL
     DEF Spec, ImplementsLockOrder, Abstract!Spec

\* Through LockOrder: what it says of cycles.
Order == INSTANCE LockOrderProofs WITH
    recorded <- graph \cup hand,
    pending  <- IF wpc = "report" THEN hand ELSE {}

LEMMA OrderAlways == Spec => [](Order!CyclesNoticed /\ Order!ReportsOnCycles)
<1>1. Abstract!Init => Order!Init
  BY DEF Abstract!Init, Order!Init
<1>2. [Abstract!Next]_(Abstract!vars) => [Order!Next]_(Order!vars)
  BY DEF Abstract!Next, Abstract!vars, Abstract!Record, Abstract!Report,
     Abstract!Edges, Abstract!ClosesCycle, Abstract!Reaches, Abstract!Closed,
     Order!Next, Order!vars, Order!Record, Order!Report,
     Order!Edges, Order!ClosesCycle, Order!Reaches, Order!Closed
<1>3. Order!Spec => []Order!CyclesNoticed
  BY Order!CyclesAreNoticed
<1>4. Order!Spec => []Order!ReportsOnCycles
  BY Order!ReportsAreOnCycles
<1>5. QED
  BY <1>1, <1>2, <1>3, <1>4, BackendImplementsLockOrder, PTL
     DEF ImplementsLockOrder, Abstract!Spec, Order!Spec

-----------------------------------------------------------------------------
(* The wake-up protocol. *)

Posting(t) == pc[t] \in {"post", "stall_post"}

\* The worker has cleared work_pending since it last looked at t's ring for
\* the first time.
Passed(t) == wpc \notin NoWorker /\ second /\ (t < scan \/ wpc \in {"sleep", "check"})

\* While the worker is on its way to sleep, work_pending means a post, and a ring
\* that it has passed and that is not empty means work_pending, or a thread
\* about to set it.
WakeInv ==
    /\ ~late
    /\ wpc \in {"sleep", "check"} => second
    /\ wpc \notin NoWorker /\ second /\ workPending =>
          wakeupSem > 0 \/ \E t \in Threads : Posting(t)
    /\ \A t \in Threads : Passed(t) /\ head[t] # tail[t] => workPending \/ pc[t] = "signal"

\* A thread's step that touches neither rings, semaphore nor flag.
LEMMA WakeFrame ==
    ASSUME WakeInv, NEW t \in Threads,
           UNCHANGED <<workerVars, ringVars, workPending, wakeupSem>>,
           \A u \in Threads \ {t} : pc'[u] = pc[u],
           pc[t] \notin {"signal", "post", "stall_post"}
    PROVE  WakeInv'
BY DEF WakeInv, Passed, Posting, workerVars, ringVars

LEMMA WakeApp ==
    ASSUME TypeInv, WakeInv, NEW t \in Threads,
           \/ \E m \in Locks : Acquire(t, m) \/ Release(t, m)
           \/ Collect(t) \/ EnsureWorkerStarted(t) \/ WorkerStarted(t) \/ RingFull(t)
    PROVE  WakeInv'
<1>1. UNCHANGED <<workerVars, ringVars, workPending, wakeupSem>>
  BY DEF Acquire, Release, Collect, EnsureWorkerStarted, WorkerStarted, RingFull,
     backVars, wakeVars, workerVars, ringVars
<1>2. pc' = pc \/ \E point : pc' = [pc EXCEPT ![t] = point]
  BY DEF Acquire, Release, Collect, EnsureWorkerStarted, WorkerStarted, RingFull, Goto, Push
<1>3. \A u \in Threads \ {t} : pc'[u] = pc[u]
  BY <1>2 DEF TypeInv, TypeOK, AppTypes
<1>4. pc[t] \notin {"signal", "post", "stall_post"}
  BY DEF Acquire, Release, Collect, EnsureWorkerStarted, WorkerStarted, RingFull
<1>5. QED
  BY <1>1, <1>3, <1>4, WakeFrame

\* There is no worker yet, or a new one begins.
LEMMA WakeCreation ==
    ASSUME TypeInv, WakeInv, NEW t \in Threads, InitSemaphore(t) \/ CreateWorker(t)
    PROVE  WakeInv'
<1>1. wpc \in NoWorker
  BY DEF InitSemaphore, CreateWorker, TypeInv, StartedOnce
<1>2. CASE InitSemaphore(t)
  BY <1>1, <1>2 DEF InitSemaphore, backVars, workerVars, WakeInv, Passed, NoWorker
<1>3. CASE CreateWorker(t)
  BY <1>3 DEF CreateWorker, Restart, WakeInv, Passed
<1>4. QED
  BY <1>2, <1>3

LEMMA WakeEnqueue ==
    ASSUME TypeInv, WakeInv, NEW t \in Threads, EnqueueEvent(t)
    PROVE  WakeInv'
<1>1. /\ pc[t] = "enqueue"
      /\ tail' = [tail EXCEPT ![t] = Inc(tail[t])]
      /\ pc' = [pc EXCEPT ![t] = "signal"]
      /\ UNCHANGED <<workerVars, workPending, wakeupSem, head>>
  BY DEF EnqueueEvent, Goto, backVars, wakeVars
<1>2. /\ pc'[t] = "signal"
      /\ \A u \in Threads \ {t} : pc'[u] = pc[u] /\ tail'[u] = tail[u]
  BY <1>1 DEF TypeInv, TypeOK, AppTypes, RingTypes
<1>3. QED
  BY <1>1, <1>2 DEF WakeInv, Passed, Posting, workerVars

LEMMA WakeSignal ==
    ASSUME TypeInv, WakeInv, NEW t \in Threads, SignalWorker(t)
    PROVE  WakeInv'
<1>1. /\ workPending' = TRUE
      /\ UNCHANGED <<workerVars, ringVars, wakeupSem>>
      /\ ~Posting(t)
  BY DEF SignalWorker, backVars, Posting
<1>2. /\ \A u \in Threads \ {t} : pc'[u] = pc[u]
      /\ ~workPending => Posting(t)'
  BY DEF SignalWorker, MustPost, Signalled, Push, Goto, Posting, TypeInv, TypeOK, AppTypes
<1>3. QED
  BY <1>1, <1>2 DEF WakeInv, Passed, Posting, workerVars, ringVars

LEMMA WakePost ==
    ASSUME TypeInv, WakeInv, NEW t \in Threads, PostWorker(t)
    PROVE  WakeInv'
<1>1. /\ wakeupSem' = wakeupSem + 1 /\ wakeupSem \in Nat
      /\ UNCHANGED <<workerVars, ringVars, workPending>>
      /\ pc[t] # "signal"
  BY DEF PostWorker, backVars, TypeInv, TypeOK, WakeTypes
<1>2. \A u \in Threads \ {t} : pc'[u] = pc[u]
  BY DEF PostWorker, Signalled, Push, Goto, TypeInv, TypeOK, AppTypes
<1>3. QED
  BY <1>1, <1>2 DEF WakeInv, Passed, workerVars, ringVars

\* The worker passes a ring only when it is empty, and what it takes from one
\* makes none less empty.
LEMMA WakeWorker ==
    ASSUME TypeInv, WakeInv, Worker \/ FlushPending, ~StoreBuffers
    PROVE  WakeInv'
<1>1. UNCHANGED <<pc, tail>>
  BY DEF Worker, FlushPending, DequeueEvent, AdvanceHead, NextRing, FindCycle, ReportCycle,
     InsertEdge, DrainAgain, ClearPending, WorkFound, EndOrSleep, CheckQueue, EndWorker,
     WakeUp, appVars, ringVars
<1>2. scan \in 0..ThreadCount /\ ThreadCount \in Nat
  BY RbAssumption DEF TypeInv, TypeOK, WorkerTypes
<1>3. CASE DequeueEvent
  BY <1>3 DEF DequeueEvent, ringVars, wakeVars, appVars, WakeInv, Passed, Posting, NoWorker
<1>4. CASE AdvanceHead
  <2>1. \A u \in Threads : u # scan => head'[u] = head[u]
    BY <1>4 DEF AdvanceHead, TypeInv, TypeOK, RingTypes
  <2>2. QED
    BY <1>1, <1>2, <1>4, <2>1
       DEF AdvanceHead, wakeVars, WakeInv, Passed, Posting, NoWorker, Threads
<1>5. CASE NextRing
  <2>1. /\ wpc = "scan" /\ head[scan] = tail[scan] /\ scan' = scan + 1
        /\ UNCHANGED <<pc, ringVars, wakeVars, wpc, second, late>>
    BY <1>5 DEF NextRing, appVars
  <2>2. \A u \in Threads : u < scan' => u < scan \/ u = scan
    BY <1>2, <2>1 DEF Threads
  <2>3. QED
    BY <2>1, <2>2 DEF WakeInv, Passed, Posting, NoWorker, ringVars, wakeVars
<1>6. CASE FindCycle \/ ReportCycle \/ InsertEdge
  BY <1>6 DEF FindCycle, ReportCycle, InsertEdge, Drained, ringVars, wakeVars, appVars,
     WakeInv, Passed, Posting, NoWorker
<1>7. CASE DrainAgain \/ WorkFound \/ WakeUp
  BY <1>7 DEF DrainAgain, WorkFound, WakeUp, Restart, appVars, ringVars, WakeInv, Passed
<1>8. CASE ClearPending
  <2>1. /\ workPending' = FALSE /\ scan' = 0 /\ wpc' = "scan" /\ UNCHANGED late
    BY <1>8 DEF ClearPending, LookAgain, Restart
  <2>2. \A u \in Threads : ~(u < scan')
    BY <2>1 DEF Threads
  <2>3. QED
    BY <2>1, <2>2 DEF WakeInv, Passed
<1>9. CASE EndOrSleep
  <2>1. /\ wpc = "scan" /\ scan = ThreadCount /\ second
        /\ wpc' \in {"sleep", "check"}
        /\ UNCHANGED <<pc, ringVars, wakeVars, second, late>>
    BY <1>9 DEF EndOrSleep, DrainDone, Drained, appVars
  <2>2. \A u \in Threads : u < scan
    BY <1>2, <2>1 DEF Threads
  <2>3. QED
    BY <2>1, <2>2 DEF WakeInv, Passed, Posting, NoWorker, ringVars, wakeVars
<1>10. CASE CheckQueue
  <2>1. /\ wpc = "check" /\ wpc' \in {"sleep", "check"}
        /\ UNCHANGED <<pc, ringVars, wakeVars, second, late>>
    BY <1>10 DEF CheckQueue, appVars
  <2>2. QED
    BY <2>1 DEF WakeInv, Passed, Posting, NoWorker, ringVars, wakeVars
<1>11. CASE EndWorker
  BY <1>11 DEF EndWorker, WakeInv, Passed, NoWorker
<1>12. CASE FlushPending
  BY <1>12 DEF FlushPending, WakeInv
<1>13. QED
  BY <1>3, <1>4, <1>5, <1>6, <1>7, <1>8, <1>9, <1>10, <1>11, <1>12 DEF Worker

LEMMA WakeMain ==
    ASSUME TypeInv, WakeInv, Main
    PROVE  WakeInv'
<1>1. UNCHANGED <<workerVars, ringVars, workPending, pc>>
  BY DEF Main, Shutdown, PostStop, JoinWorker, ResetWorker, wakeVars
<1>2. wakeupSem \in Nat /\ wakeupSem' \in {wakeupSem, wakeupSem + 1}
  BY DEF Main, Shutdown, PostStop, PostForStop, JoinWorker, ResetWorker, wakeVars, TypeInv,
     TypeOK, WakeTypes
<1>3. QED
  BY <1>1, <1>2 DEF WakeInv, Passed, Posting, workerVars, ringVars

LEMMA WakeInvariant ==
    ASSUME ~StoreBuffers PROVE Spec => []WakeInv
<1>1. Init => WakeInv
  BY DEF Init, WakeInv, Passed, NoWorker
<1>2. TypeInv /\ WakeInv /\ [Next]_vars => WakeInv'
  <2>1. WakeInv /\ UNCHANGED vars => WakeInv'
    BY DEF vars, workerVars, ringVars, wakeVars, WakeInv, Passed, Posting
  <2>2. QED
    BY <2>1, WakeApp, WakeCreation, WakeEnqueue, WakeSignal, WakePost, WakeWorker, WakeMain
       DEF Next, Internal
<1>3. QED
  BY <1>1, <1>2, TypeInvariant, PTL DEF Spec

\* On sequentially consistent memory the worker never sleeps on a queued event
\* without a post on its way: the exchange and the second look at the rings
\* cannot both miss the other.
THEOREM WorkerSleepsRight ==
    ASSUME ~StoreBuffers PROVE Spec => []SleepsOnlyWithoutWork
<1>1. TypeInv /\ WakeInv => SleepsOnlyWithoutWork
  BY DEF SleepsOnlyWithoutWork, Asleep, PostComing, WakeInv, Passed, Posting, NoWorker,
     TypeInv, TypeOK, WakeTypes
<1>2. QED
  BY <1>1, TypeInvariant, WakeInvariant, PTL

-----------------------------------------------------------------------------
(* The slots of a ring.                                                    *)

LEMMA Quotient ==
    ASSUME NEW C \in Nat \ {0}, NEW x \in Int
    PROVE  \E q \in Int : x = (q * C) + (x % C)
<1>1. x \div C \in Int
  OBVIOUS
<1>2. x = ((x \div C) * C) + (x % C)
  OBVIOUS
<1>3. QED
  BY <1>1, <1>2

LEMMA Remainder ==
    ASSUME NEW C \in Nat \ {0}, NEW x \in Int, NEW q \in Int, NEW r \in 0..(C - 1),
           x = (q * C) + r
    PROVE  x % C = r
OBVIOUS

\* Indices wrap around where the ring does.
LEMMA SlotPeriod ==
    ASSUME NEW C \in Nat \ {0}, NEW x \in Int, NEW M \in Int, M % C = 0
    PROVE  (x + M) % C = x % C
<1>1. PICK q \in Int : x = (q * C) + (x % C)
  BY Quotient
<1>2. PICK k \in Int : M = k * C
  <2>1. PICK k \in Int : M = (k * C) + (M % C)
    BY Quotient
  <2>2. QED
    BY <2>1
<1> DEFINE r == x % C
<1>3. x = (q * C) + r /\ r \in 0..(C - 1)
  BY <1>1
<1> HIDE DEF r
<1>4. x + M = ((q + k) * C) + r
  <2>1. (q + k) * C = (q * C) + (k * C)
    OBVIOUS
  <2>2. q * C \in Int /\ k * C \in Int
    OBVIOUS
  <2>3. QED
    BY <1>2, <1>3, <2>1, <2>2
<1>5. (x + M) % C = r
  <2>1. q + k \in Int /\ x + M \in Int
    OBVIOUS
  <2>2. QED
    BY <1>3, <1>4, <2>1, Remainder
<1>6. QED
  BY <1>5 DEF r

\* Indices less than a capacity apart have different slots.
LEMMA SlotsDistinct ==
    ASSUME NEW C \in Nat \ {0}, NEW x \in Int, NEW y \in Int, x < y, y - x < C
    PROVE  x % C # y % C
<1>1. SUFFICES ASSUME x % C = y % C PROVE FALSE
  OBVIOUS
<1>2. PICK p \in Int : x = (p * C) + (x % C)
  BY Quotient
<1>3. PICK q \in Int : y = (q * C) + (y % C)
  BY Quotient
<1>4. y - x = (q - p) * C
  <2>1. y - x = (q * C) - (p * C)
    BY <1>1, <1>2, <1>3
  <2>2. QED
    BY <2>1
<1>5. q - p >= 1 => (q - p) * C >= C
  OBVIOUS
<1>6. q - p <= 0 => (q - p) * C <= 0
  OBVIOUS
<1>7. QED
  BY <1>4, <1>5, <1>6

-----------------------------------------------------------------------------
(* What is queued. *)

QueuedAt(t, i) == EdgesTo(EventAt(t, i).from, EventAt(t, i).to)

LEMMA QueuedMember ==
    ASSUME NEW t \in Threads, NEW e
    PROVE  e \in QueuedEdges(t) <=> \E i \in 0..(Queued(t) - 1) : e \in QueuedAt(t, i)
BY DEF QueuedEdges, QueuedAt

LEMMA QueuedMemberPrime ==
    ASSUME NEW t \in Threads, NEW e
    PROVE  e \in QueuedEdges(t)' <=> \E i \in 0..(Queued(t)' - 1) : e \in QueuedAt(t, i)'
BY DEF QueuedEdges, QueuedAt

LEMMA QueuedStays ==
    ASSUME UNCHANGED ringVars, NEW t \in Threads
    PROVE  QueuedEdges(t)' = QueuedEdges(t)
BY DEF ringVars, QueuedEdges, Queued, EventAt

\* The slot of an index i places from the head, and the one of the tail.
LEMMA TailSlot ==
    ASSUME TypeInv, NEW t \in Threads
    PROVE  tail[t] % Capacity = (head[t] + Queued(t)) % Capacity
<1>1. head[t] \in Indices /\ tail[t] \in Indices
  BY DEF TypeInv, TypeOK, RingTypes, Indices
<1>2. Queued(t) = IF tail[t] >= head[t] THEN tail[t] - head[t]
                                        ELSE tail[t] - head[t] + IndexModulus
  BY <1>1, DiffValue DEF Queued
<1>3. head[t] \in Int /\ tail[t] \in Int /\ IndexModulus \in Int
  BY <1>1, RbAssumption DEF Indices
<1>4. CASE tail[t] >= head[t]
  BY <1>2, <1>3, <1>4
<1>5. CASE ~(tail[t] >= head[t])
  <2>1. head[t] + Queued(t) = tail[t] + IndexModulus
    BY <1>2, <1>3, <1>5
  <2>2. (tail[t] + IndexModulus) % Capacity = tail[t] % Capacity
    BY <1>3, RbAssumption, SlotPeriod
  <2>3. QED
    BY <2>1, <2>2
<1>6. QED
  BY <1>4, <1>5

\* An event that is put into a ring does not overwrite one that is queued.
LEMMA EnqueueEvents ==
    ASSUME TypeInv, NEW t \in Threads, EnqueueEvent(t)
    PROVE  /\ \A u \in Threads, i \in Nat : i < Queued(u) => EventAt(u, i)' = EventAt(u, i)
           /\ \A u \in Threads \ {t} : Queued(u)' = Queued(u)
           /\ Queued(t) \in Nat /\ Queued(t)' = Queued(t) + 1
           /\ \A i \in Nat : i = Queued(t) => EventAt(t, i)' = [to |-> new[t], from |-> unknown[t]]
<1> USE RbAssumption
<1>1. /\ Queued(t) < Capacity
      /\ events' = [events EXCEPT ![t][tail[t] % Capacity] = [to |-> new[t], from |-> unknown[t]]]
      /\ tail' = [tail EXCEPT ![t] = Inc(tail[t])]
      /\ UNCHANGED head
  BY DEF EnqueueEvent, HasRoom
<1>2. /\ head \in [Threads -> Indices] /\ tail \in [Threads -> Indices]
      /\ events \in [Threads -> [0..(Capacity - 1) -> Events \cup {NoEvent}]]
  BY DEF TypeInv, TypeOK, RingTypes, Indices
<1>3. Queued(t) \in Nat /\ Queued(t)' = Queued(t) + 1
  BY <1>1, <1>2, RingArithmetic DEF Queued
<1>4. \A u \in Threads \ {t} : /\ Queued(u)' = Queued(u)
                               /\ \A i \in Nat : EventAt(u, i)' = EventAt(u, i)
  BY <1>1, <1>2 DEF Queued, EventAt
<1>5. head[t] \in Nat /\ tail[t] \in Nat
  BY <1>2 DEF Indices
<1>6. \A i \in Nat : (head[t] + i) % Capacity \in 0..(Capacity - 1)
  BY <1>5
<1>7. /\ events'[t][tail[t] % Capacity] = [to |-> new[t], from |-> unknown[t]]
      /\ \A s \in 0..(Capacity - 1) : s # tail[t] % Capacity => events'[t][s] = events[t][s]
  <2>1. tail[t] % Capacity \in 0..(Capacity - 1)
    BY <1>5
  <2>2. QED
    BY <1>1, <1>2, <2>1
<1>8. ASSUME NEW i \in Nat, i < Queued(t)
      PROVE  EventAt(t, i)' = EventAt(t, i)
  <2>1. (head[t] + i) % Capacity # (head[t] + Queued(t)) % Capacity
    <3>1. /\ head[t] + i \in Int /\ head[t] + Queued(t) \in Int
          /\ head[t] + i < head[t] + Queued(t)
          /\ (head[t] + Queued(t)) - (head[t] + i) < Capacity
      BY <1>1, <1>3, <1>5, <1>8
    <3>2. QED
      BY <3>1, SlotsDistinct
  <2>2. events'[t][(head[t] + i) % Capacity] = events[t][(head[t] + i) % Capacity]
    BY <1>6, <1>7, <2>1, TailSlot
  <2>3. QED
    BY <1>1, <2>2 DEF EventAt
<1>9. ASSUME NEW i \in Nat, i = Queued(t)
      PROVE  EventAt(t, i)' = [to |-> new[t], from |-> unknown[t]]
  <2>1. events'[t][(head[t] + i) % Capacity] = [to |-> new[t], from |-> unknown[t]]
    BY <1>7, <1>9, TailSlot
  <2>2. QED
    BY <1>1, <2>1 DEF EventAt
<1>10. QED
  BY <1>3, <1>4, <1>8, <1>9

LEMMA EnqueueKeeps ==
    ASSUME TypeInv, NEW t \in Threads, EnqueueEvent(t)
    PROVE  /\ \A u \in Threads, i \in Nat : i < Queued(u) => QueuedAt(u, i)' = QueuedAt(u, i)
           /\ \A u \in Threads \ {t} : Queued(u)' = Queued(u)
           /\ Queued(t) \in Nat /\ Queued(t)' = Queued(t) + 1
           /\ \A i \in Nat : i = Queued(t) => QueuedAt(t, i)' = EdgesTo(unknown[t], new[t])
<1>1. \A u \in Threads, i \in Nat : i < Queued(u) => EventAt(u, i)' = EventAt(u, i)
  BY EnqueueEvents
<1>2. \A i \in Nat : i = Queued(t) => EventAt(t, i)' = [to |-> new[t], from |-> unknown[t]]
  BY EnqueueEvents
<1>3. QED
  BY <1>1, <1>2, EnqueueEvents DEF QueuedAt, EdgesTo

LEMMA EnqueueQueued ==
    ASSUME TypeInv, NEW t \in Threads, EnqueueEvent(t)
    PROVE  /\ \A u \in Threads : QueuedEdges(u) \subseteq QueuedEdges(u)'
           /\ EdgesTo(unknown[t], new[t]) \subseteq QueuedEdges(t)'
<1>1. ASSUME NEW u \in Threads, NEW e \in QueuedEdges(u)
      PROVE  e \in QueuedEdges(u)'
  <2>1. PICK i \in 0..(Queued(u) - 1) : e \in QueuedAt(u, i)
    BY <1>1, QueuedMember
  <2>2. Queued(u) \in Nat
    BY RingArithmetic DEF TypeInv, TypeOK, RingTypes, Indices, Queued
  <2>3. i \in Nat /\ i < Queued(u) /\ i \in 0..(Queued(u)' - 1)
    BY <2>2, EnqueueKeeps
  <2>4. e \in QueuedAt(u, i)'
    BY <2>1, <2>3, EnqueueKeeps
  <2>5. QED
    BY <2>3, <2>4, QueuedMemberPrime
<1>2. ASSUME NEW e \in EdgesTo(unknown[t], new[t])
      PROVE  e \in QueuedEdges(t)'
  <2>1. PICK i \in Nat : i = Queued(t) /\ i \in 0..(Queued(t)' - 1)
    BY EnqueueKeeps
  <2>2. e \in QueuedAt(t, i)'
    BY <1>2, <2>1, EnqueueKeeps
  <2>3. QED
    BY <2>1, <2>2, QueuedMemberPrime
<1>3. QED
  BY <1>1, <1>2

\* Moving head takes away the event at the head, and the others move up.
LEMMA AdvanceEvents ==
    ASSUME TypeInv, AdvanceHead
    PROVE  /\ scan \in Threads /\ scan' = scan
           /\ Queued(scan) \in Nat \ {0} /\ Queued(scan)' = Queued(scan) - 1
           /\ \A i \in Nat : EventAt(scan, i)' = EventAt(scan, i + 1)
           /\ \A u \in Threads \ {scan} :
                  /\ Queued(u)' = Queued(u)
                  /\ \A i \in Nat : EventAt(u, i)' = EventAt(u, i)
<1> USE RbAssumption
<1>1. /\ head' = [head EXCEPT ![scan] = Inc(head[scan])]
      /\ UNCHANGED <<tail, events, scan>>
      /\ wpc = "advance"
  BY DEF AdvanceHead
<1>2. scan \in Threads /\ head[scan] # tail[scan]
  BY <1>1 DEF TypeInv, TypeOK, WorkerTypes, Threads
<1>3. head \in [Threads -> Indices] /\ tail \in [Threads -> Indices]
  BY DEF TypeInv, TypeOK, RingTypes, Indices
<1>4. \A u \in Threads \ {scan} :
          /\ Queued(u)' = Queued(u)
          /\ \A i \in Nat : EventAt(u, i)' = EventAt(u, i)
  BY <1>1, <1>3 DEF EventAt, Queued
<1> DEFINE t == scan
<1>5. /\ head'[t] = Inc(head[t]) /\ head[t] \in Nat
      /\ head'[t] = IF head[t] + 1 = IndexModulus THEN 0 ELSE head[t] + 1
  BY <1>1, <1>2, <1>3, IncValue DEF Indices
<1>6. (tail[t] - head'[t]) % IndexModulus = Queued(t) - 1 /\ Queued(t) \in Nat \ {0}
  <2>1. tail[t] \in Indices /\ head[t] \in Indices
    BY <1>2, <1>3
  <2>2. /\ (tail[t] - head[t]) % IndexModulus \in Nat \ {0}
        /\ (tail[t] - Inc(head[t])) % IndexModulus
              = ((tail[t] - head[t]) % IndexModulus) - 1
    BY <1>2, <2>1, RingArithmetic
  <2>3. QED
    BY <1>5, <2>2 DEF Queued
<1>7. ASSUME NEW i \in Nat
      PROVE  (head'[t] + i) % Capacity = (head[t] + (i + 1)) % Capacity
  <2>1. CASE head[t] + 1 = IndexModulus
    <3>1. head[t] + (i + 1) = i + IndexModulus /\ head'[t] + i = i
      BY <1>5, <2>1
    <3>2. (i + IndexModulus) % Capacity = i % Capacity
      <4>1. i \in Int /\ IndexModulus \in Int
        OBVIOUS
      <4>2. QED
        BY <4>1, SlotPeriod
    <3>3. QED
      BY <3>1, <3>2
  <2>2. CASE head[t] + 1 # IndexModulus
    <3>1. head'[t] + i = head[t] + (i + 1)
      BY <1>5, <2>2
    <3>2. QED
      BY <3>1
  <2>3. QED
    BY <2>1, <2>2
<1>8. \A i \in Nat : EventAt(scan, i)' = EventAt(scan, i + 1)
  BY <1>1, <1>7 DEF EventAt
<1>9. Queued(scan)' = Queued(scan) - 1
  BY <1>1, <1>6 DEF Queued
<1>10. QED
  BY <1>1, <1>2, <1>4, <1>6, <1>8, <1>9

LEMMA AdvanceQueued ==
    ASSUME TypeInv, AdvanceHead
    PROVE  /\ \A u \in Threads \ {scan} : QueuedEdges(u)' = QueuedEdges(u)
           /\ QueuedEdges(scan) \subseteq QueuedAt(scan, 0) \cup QueuedEdges(scan)'
<1>1. ASSUME NEW u \in Threads \ {scan}, NEW e
      PROVE  e \in QueuedEdges(u)' <=> e \in QueuedEdges(u)
  <2>1. \A i \in Nat : QueuedAt(u, i)' = QueuedAt(u, i)
    BY <1>1, AdvanceEvents DEF QueuedAt, EdgesTo
  <2>2. Queued(u)' = Queued(u) /\ \A i \in 0..(Queued(u) - 1) : i \in Nat
    BY <1>1, AdvanceEvents
  <2>3. QED
    BY <1>1, <2>1, <2>2, QueuedMember, QueuedMemberPrime
<1>2. ASSUME NEW e \in QueuedEdges(scan), e \notin QueuedAt(scan, 0)
      PROVE  e \in QueuedEdges(scan)'
  <2>1. scan \in Threads /\ Queued(scan) \in Nat /\ Queued(scan)' = Queued(scan) - 1
    BY AdvanceEvents
  <2>2. PICK k \in 0..(Queued(scan) - 1) : e \in QueuedAt(scan, k)
    BY <1>2, <2>1, QueuedMember
  <2>3. k # 0
    BY <1>2, <2>2
  <2>4. PICK i \in Nat : i \in 0..((Queued(scan) - 1) - 1) /\ k = i + 1
    BY <2>1, <2>2, <2>3
  <2>5. EdgesTo(EventAt(scan, i + 1).from, EventAt(scan, i + 1).to)
            = EdgesTo(EventAt(scan, i)'.from, EventAt(scan, i)'.to)
    BY <2>4, AdvanceEvents
  <2>6. e \in QueuedAt(scan, i)'
    BY <2>2, <2>4, <2>5 DEF QueuedAt, EdgesTo
  <2>7. \E j \in 0..(Queued(scan)' - 1) : e \in QueuedAt(scan, j)'
    BY <2>1, <2>4, <2>6
  <2>8. QED
    BY <2>1, <2>7 DEF QueuedEdges, QueuedAt
<1>3. QED
  BY <1>1, <1>2

-----------------------------------------------------------------------------
(* The way of an order into the graph. *)

\* The batch is finished before it is forgotten, and has an event before the
\* event leaves the ring.
BatchInv ==
    /\ wpc \in {"none", "sleep", "check", "exited"} => batch \subseteq graph
    /\ wpc = "advance" => QueuedAt(scan, 0) \subseteq batch

\* What has been handed over.
Kept == graph \cup batch \cup UNION {QueuedEdges(t) : t \in Threads}

\* The steps of a thread that leave the rings and the worker alone.
Outside(t) ==
    \/ \E m \in Locks : Acquire(t, m) \/ Release(t, m)
    \/ Collect(t) \/ EnsureWorkerStarted(t) \/ InitSemaphore(t) \/ WorkerStarted(t)
    \/ RingFull(t) \/ SignalWorker(t) \/ PostWorker(t)

LEMMA OutsideStays ==
    ASSUME NEW t \in Threads, Outside(t)
    PROVE  UNCHANGED <<backVars, ringVars>>
BY DEF Outside, Acquire, Release, Collect, EnsureWorkerStarted, InitSemaphore, WorkerStarted,
   RingFull, SignalWorker, PostWorker

\* The ring the worker looks at.
LEMMA ScanIsThread ==
    ASSUME TypeInv, wpc = "advance" \/ scan < ThreadCount
    PROVE  scan \in Threads /\ head[scan] \in Indices
<1>1. scan \in Threads
  BY RbAssumption DEF TypeInv, TypeOK, WorkerTypes, Threads
<1>2. QED
  BY <1>1 DEF TypeInv, TypeOK, RingTypes, Indices

LEMMA GraphGrows ==
    ASSUME TypeInv, [Next]_vars
    PROVE  graph \subseteq graph'
<1>1. CASE FindCycle \/ ReportCycle
  BY <1>1 DEF FindCycle, ReportCycle, graphVars
<1>2. CASE InsertEdge
  BY <1>2 DEF InsertEdge
<1>3. CASE ~FindCycle /\ ~ReportCycle /\ ~InsertEdge
  BY <1>3, GraphFrame
<1>4. QED
  BY <1>1, <1>2, <1>3

\* A step of the worker that leaves the rings alone keeps the batch, or has
\* finished it.
LEMMA BatchSteps ==
    ASSUME TypeInv, BatchInv, [Next]_vars, ~AdvanceHead,
           \A t \in Threads : ~EnqueueEvent(t)
    PROVE  /\ UNCHANGED ringVars
           /\ batch \subseteq batch' \/ batch \subseteq graph
<1>1. CASE \E t \in Threads : Outside(t)
  BY <1>1, OutsideStays DEF backVars, workerVars
<1>2. CASE \E t \in Threads : CreateWorker(t)
  BY <1>2 DEF CreateWorker, TypeInv, StartedOnce, NoWorker, BatchInv
<1>3. CASE Worker
  BY <1>3 DEF Worker, DequeueEvent, NextRing, FindCycle, ReportCycle, InsertEdge, DrainAgain,
     ClearPending, WorkFound, EndOrSleep, CheckQueue, EndWorker, WakeUp, DrainDone, BatchInv
<1>4. CASE FlushPending \/ Main \/ UNCHANGED vars
  BY <1>4 DEF FlushPending, Main, Shutdown, PostStop, JoinWorker, ResetWorker, vars, workerVars
<1>5. QED
  BY <1>1, <1>2, <1>3, <1>4 DEF Next, Internal, Outside

\* Nothing that was handed over gets lost.
LEMMA KeptStep ==
    ASSUME TypeInv, BatchInv, [Next]_vars
    PROVE  Kept \subseteq Kept'
<1>1. Kept' = graph' \cup batch' \cup UNION {QueuedEdges(t)' : t \in Threads}
  BY DEF Kept
<1>2. graph \subseteq graph'
  BY GraphGrows
<1>3. CASE AdvanceHead
  <2>1. wpc = "advance" /\ UNCHANGED <<batch, scan>>
    BY <1>3 DEF AdvanceHead
  <2>2. ASSUME NEW u \in Threads
        PROVE  QueuedEdges(u) \subseteq batch \cup QueuedEdges(u)'
    <3>1. CASE u = scan
      <4>1. QueuedEdges(scan) \subseteq batch \cup QueuedEdges(scan)'
        BY <1>3, <2>1, AdvanceQueued DEF BatchInv
      <4>2. QED
        BY <2>1, <3>1, <4>1 DEF QueuedEdges, Queued
    <3>2. CASE u # scan
      BY <1>3, <3>2, AdvanceQueued
    <3>3. QED
      BY <3>1, <3>2
  <2>3. QED
    BY <1>1, <1>2, <2>1, <2>2 DEF Kept
<1>4. CASE \E t \in Threads : EnqueueEvent(t)
  <2>1. batch' = batch
    BY <1>4 DEF EnqueueEvent, backVars, workerVars
  <2>2. \A u \in Threads : QueuedEdges(u) \subseteq QueuedEdges(u)'
    BY <1>4, EnqueueQueued
  <2>3. QED
    BY <1>1, <1>2, <2>1, <2>2 DEF Kept
<1>5. CASE ~AdvanceHead /\ \A t \in Threads : ~EnqueueEvent(t)
  <2>1. \A u \in Threads : QueuedEdges(u) \subseteq QueuedEdges(u)'
    BY <1>5, BatchSteps, QueuedStays
  <2>2. batch \subseteq batch' \/ batch \subseteq graph
    BY <1>5, BatchSteps
  <2>3. QED
    BY <1>1, <1>2, <2>1, <2>2 DEF Kept
<1>6. QED
  BY <1>3, <1>4, <1>5

LEMMA BatchStep ==
    ASSUME TypeInv, BatchInv, [Next]_vars
    PROVE  BatchInv'
<1>1. CASE \E t \in Threads : Outside(t)
  <2>1. UNCHANGED <<backVars, ringVars>>
    BY <1>1, OutsideStays
  <2>2. QED
    BY <2>1 DEF BatchInv, backVars, workerVars, graphVars, ringVars, QueuedAt,
           EventAt
<1>2. CASE \E t \in Threads : CreateWorker(t)
  BY <1>2 DEF CreateWorker, Restart, BatchInv
<1>3. CASE \E t \in Threads : EnqueueEvent(t)
  <2>1. UNCHANGED <<workerVars, graphVars>>
    BY <1>3 DEF EnqueueEvent, backVars
  <2>2. wpc = "advance" => QueuedAt(scan, 0)' = QueuedAt(scan, 0)
    <3>1. SUFFICES ASSUME wpc = "advance"
                   PROVE  QueuedAt(scan, 0)' = QueuedAt(scan, 0)
      OBVIOUS
    <3>2. scan \in Threads /\ head[scan] # tail[scan]
      BY <3>1, RbAssumption DEF TypeInv, TypeOK, WorkerTypes, Threads
    <3>3. 0 < Queued(scan)
      <4>1. head[scan] \in Indices /\ tail[scan] \in Indices
        BY <3>2 DEF TypeInv, TypeOK, RingTypes, Indices
      <4>2. Queued(scan) \in Nat /\ Queued(scan) # 0
        BY <3>2, <4>1, RingArithmetic DEF Queued
      <4>3. QED
        BY <4>2
    <3>4. \A u \in Threads, i \in Nat : i < Queued(u) => QueuedAt(u, i)' = QueuedAt(u, i)
      BY <1>3, EnqueueKeeps
    <3>5. QED
      BY <2>1, <3>2, <3>3, <3>4 DEF workerVars, QueuedAt
  <2>3. QED
    BY <2>1, <2>2 DEF BatchInv, workerVars, graphVars
<1>4. CASE Worker
  <2>1. CASE DequeueEvent
    <3>1. /\ batch' = batch \cup EdgesTo(EventAtHead(scan).from, EventAtHead(scan).to)
          /\ scan < ThreadCount
          /\ wpc' = "advance" /\ UNCHANGED <<ringVars, scan>>
      BY <2>1 DEF DequeueEvent
    <3>2. head[scan] + 0 = head[scan]
      BY <3>1, ScanIsThread DEF Indices
    <3>3. QED
      BY <3>1, <3>2 DEF BatchInv, QueuedAt, EventAt, EventAtHead, ringVars
  <2>2. CASE AdvanceHead \/ NextRing \/ FindCycle \/ ReportCycle \/ InsertEdge
    BY <2>2 DEF AdvanceHead, NextRing, FindCycle, ReportCycle, InsertEdge, Drained, BatchInv
  <2>3. CASE DrainAgain \/ ClearPending \/ WorkFound \/ WakeUp
    BY <2>3 DEF DrainAgain, ClearPending, LookAgain, WorkFound, WakeUp, Restart, BatchInv
  <2>4. CASE EndOrSleep \/ CheckQueue \/ EndWorker
    BY <2>4 DEF EndOrSleep, CheckQueue, EndWorker, DrainDone, graphVars, BatchInv
  <2>5. QED
    BY <1>4, <2>1, <2>2, <2>3, <2>4 DEF Worker
<1>5. CASE FlushPending \/ Main \/ UNCHANGED vars
  <2>1. UNCHANGED <<wpc, scan, batch, graph, ringVars>>
    BY <1>5 DEF FlushPending, Main, Shutdown, PostStop, JoinWorker, ResetWorker, vars,
       workerVars, graphVars
  <2>2. QED
    BY <2>1 DEF BatchInv, ringVars, QueuedAt, EventAt
<1>6. QED
  BY <1>1, <1>2, <1>3, <1>4, <1>5 DEF Next, Internal, Outside

LEMMA BatchInvariant == Spec => []BatchInv
<1>1. Init => BatchInv
  BY DEF Init, BatchInv
<1>2. TypeInv /\ BatchInv /\ [Next]_vars => BatchInv'
  BY BatchStep
<1>3. QED
  BY <1>1, <1>2, TypeInvariant, PTL DEF Spec

-----------------------------------------------------------------------------
(* No order gets lost. *)

\* What one thread does to the orders it is to enqueue, when nothing that was
\* handed over is lost: the other threads' are theirs still, and its own are
\* handed over, dropped, or there still, with those it now observes.
Hands(t) ==
    /\ \A u \in Threads \ {t} : InHook(u)' = InHook(u)
    /\ InHook(t) \subseteq Kept' \cup dropped' \cup InHook(t)'
    /\ observed' \subseteq observed \cup InHook(t)'
    /\ dropped \subseteq dropped'
    /\ policy' = policy
    /\ policy = "stall" => dropped' = dropped

LEMMA HandsStep ==
    ASSUME NothingLost, Kept \subseteq Kept', NEW t \in Threads, Hands(t)
    PROVE  NothingLost'
<1> DEFINE All == Kept \cup dropped \cup UNION {InHook(u) : u \in Threads}
<1>1. observed \subseteq All
  BY DEF NothingLost, Kept
<1>2. ASSUME NEW e \in observed'
      PROVE  e \in Kept' \cup dropped' \cup UNION {InHook(u)' : u \in Threads}
  BY <1>1, <1>2 DEF Hands
<1>3. observed' \subseteq graph' \cup batch' \cup dropped'
                            \cup UNION {QueuedEdges(u)' \cup InHook(u)' : u \in Threads}
  BY <1>2 DEF Kept
<1>4. QED
  BY <1>3 DEF NothingLost, Hands

\* What a thread is to enqueue depends on its own variables.
LEMMA OthersStay ==
    ASSUME AppTypes, NEW t \in Threads, NEW u \in Threads \ {t},
           UNCHANGED <<held[u], new[u], pc[u], unknown[u]>>
    PROVE  InHook(u)' = InHook(u)
BY DEF InHook, OrdersOf, HeldLocks, EdgesTo

LEMMA HandsAcquire ==
    ASSUME TypeInv, NEW t \in Threads, NEW m \in Locks, Acquire(t, m) \/ Release(t, m)
    PROVE  Hands(t)
<1>1. /\ pc[t] = "idle"
      /\ UNCHANGED <<unknown, dropped, policy>>
      /\ \A u \in Threads \ {t} : UNCHANGED <<held[u], new[u], pc[u], unknown[u]>>
  BY DEF Acquire, Release, Goto, backVars, historyVars, TypeInv, TypeOK, AppTypes
<1>2. \A u \in Threads \ {t} : InHook(u)' = InHook(u)
  BY <1>1, OthersStay DEF TypeInv, TypeOK
<1>3. InHook(t) = {}
  BY <1>1 DEF InHook, EdgesTo, TypeInv, UnknownProper
<1>4. observed' \subseteq observed \cup InHook(t)'
  <2>1. CASE UNCHANGED observed
    BY <2>1
  <2>2. CASE ~UNCHANGED observed
    <3>1. /\ new' = [new EXCEPT ![t] = m] /\ pc' = [pc EXCEPT ![t] = "collect"]
          /\ observed' = observed \cup OrdersOf(t, m) /\ UNCHANGED held
      BY <2>2 DEF Acquire, Release, Goto, historyVars
    <3>2. new'[t] = m /\ pc'[t] = "collect"
      BY <3>1 DEF TypeInv, TypeOK, AppTypes
    <3>3. InHook(t)' = OrdersOf(t, m)
      BY <3>1, <3>2 DEF InHook, OrdersOf, HeldLocks
    <3>4. QED
      BY <3>1, <3>3
  <2>3. QED
    BY <2>1, <2>2
<1>5. QED
  BY <1>1, <1>2, <1>3, <1>4 DEF Hands

LEMMA HandsCollect ==
    ASSUME TypeInv, NEW t \in Threads, Collect(t)
    PROVE  Hands(t)
<1> DEFINE news == {l \in Candidates(t) : <<l, new[t]>> \notin graph}
<1>1. /\ pc[t] = "collect"
      /\ UNCHANGED <<observed, dropped, policy, graph>>
      /\ \A u \in Threads \ {t} : UNCHANGED <<held[u], new[u], pc[u], unknown[u]>>
  BY DEF Collect, Push, Goto, backVars, graphVars, historyVars, TypeInv, TypeOK, AppTypes
<1>2. \A u \in Threads \ {t} : InHook(u)' = InHook(u)
  BY <1>1, OthersStay DEF TypeInv, TypeOK
<1>3. InHook(t) = EdgesTo(Candidates(t), new[t])
  BY <1>1 DEF InHook, OrdersOf, Candidates
<1>4. InHook(t) \subseteq graph \cup EdgesTo(news, new[t])
  BY <1>3 DEF EdgesTo
<1>5. EdgesTo(news, new[t]) \subseteq InHook(t)'
  <2>1. CASE news = {}
    BY <2>1 DEF EdgesTo
  <2>2. CASE news # {}
    <3>1. /\ unknown' = [unknown EXCEPT ![t] = news]
          /\ pc' = [pc EXCEPT ![t] = "ensure"] /\ UNCHANGED new
      BY <2>2 DEF Collect, Goto
    <3>2. unknown'[t] = news /\ pc'[t] = "ensure"
      BY <3>1 DEF TypeInv, TypeOK, AppTypes
    <3>3. QED
      BY <3>1, <3>2 DEF InHook, EdgesTo
  <2>3. QED
    BY <2>1, <2>2
<1>6. graph \subseteq Kept'
  BY <1>1 DEF Kept
<1>7. QED
  BY <1>1, <1>2, <1>4, <1>5, <1>6 DEF Hands

\* The steps that keep what the thread is to enqueue, if there is anything.
LEMMA HandsPoint ==
    ASSUME TypeInv, NEW t \in Threads,
           \/ EnsureWorkerStarted(t) \/ InitSemaphore(t) \/ CreateWorker(t)
           \/ WorkerStarted(t) \/ SignalWorker(t) \/ PostWorker(t)
    PROVE  Hands(t)
<1>1. /\ pc[t] \notin {"idle", "collect"}
      /\ UNCHANGED <<unknown, observed, dropped, policy>>
      /\ \A u \in Threads \ {t} : UNCHANGED <<held[u], new[u], pc[u], unknown[u]>>
  BY DEF EnsureWorkerStarted, InitSemaphore, CreateWorker, WorkerStarted, SignalWorker,
     PostWorker, Signalled, Push, Goto, backVars, historyVars, TypeInv, TypeOK, AppTypes
<1>2. \A u \in Threads \ {t} : InHook(u)' = InHook(u)
  BY <1>1, OthersStay DEF TypeInv, TypeOK
<1>3. InHook(t) \subseteq InHook(t)'
  <2>1. CASE pc[t] \in {"signal", "post"}
    BY <1>1, <2>1 DEF InHook, EdgesTo, TypeInv, UnknownProper
  <2>2. CASE pc[t] \notin {"signal", "post"}
    <3>1. UNCHANGED new /\ pc'[t] # "collect"
      BY <2>2 DEF EnsureWorkerStarted, InitSemaphore, CreateWorker, WorkerStarted, SignalWorker,
         PostWorker, Signalled, Goto, TypeInv, TypeOK, AppTypes
    <3>2. QED
      BY <1>1, <3>1 DEF InHook, EdgesTo
  <2>3. QED
    BY <2>1, <2>2
<1>4. QED
  BY <1>1, <1>2, <1>3 DEF Hands

LEMMA HandsEnqueue ==
    ASSUME TypeInv, NEW t \in Threads, EnqueueEvent(t) \/ RingFull(t)
    PROVE  Hands(t)
<1>1. /\ pc[t] = "enqueue"
      /\ UNCHANGED <<observed, new, policy>>
      /\ \A u \in Threads \ {t} : UNCHANGED <<held[u], new[u], pc[u], unknown[u]>>
  BY DEF EnqueueEvent, RingFull, Goto, backVars, historyVars, TypeInv, TypeOK, AppTypes
<1>2. \A u \in Threads \ {t} : InHook(u)' = InHook(u)
  BY <1>1, OthersStay DEF TypeInv, TypeOK
<1>3. InHook(t) = EdgesTo(unknown[t], new[t])
  BY <1>1 DEF InHook
<1>4. CASE EnqueueEvent(t)
  <2>1. InHook(t) \subseteq QueuedEdges(t)'
    BY <1>3, <1>4, EnqueueQueued
  <2>2. UNCHANGED dropped
    BY <1>4 DEF EnqueueEvent, historyVars
  <2>3. QED
    BY <1>1, <1>2, <2>1, <2>2 DEF Hands, Kept
<1>5. CASE RingFull(t) /\ policy = "drop"
  BY <1>1, <1>2, <1>3, <1>5 DEF RingFull, Hands
<1>6. CASE RingFull(t) /\ policy # "drop"
  <2>1. /\ pc' = [pc EXCEPT ![t] = "stall"]
        /\ UNCHANGED <<unknown, dropped>>
    BY <1>6 DEF RingFull, Goto
  <2>2. pc'[t] = "stall"
    BY <2>1 DEF TypeInv, TypeOK, AppTypes
  <2>3. InHook(t)' = InHook(t)
    BY <1>1, <1>3, <2>1, <2>2 DEF InHook, EdgesTo
  <2>4. QED
    BY <1>1, <1>2, <2>1, <2>3 DEF Hands
<1>7. QED
  BY <1>4, <1>5, <1>6

\* Every order a thread acquired mutexes in is in the graph, in the batch, in a
\* ring or with a thread that is still in the hook, unless it was dropped as the
\* policy says; so the snapshot never hides a new order, a ring never overwrites
\* an event, and the worker never forgets one (lockdep_rb_collect_unknown_predecessors,
\* lockdep_rb_enqueue_edge_batch, lockdep_rb_drain_once).
THEOREM OrdersAreKept == Spec => []NothingLost
<1>1. Init => NothingLost
  BY DEF Init, NothingLost
<1>2. TypeInv /\ BatchInv /\ NothingLost /\ [Next]_vars => NothingLost'
  <2>1. SUFFICES ASSUME TypeInv, BatchInv, NothingLost, [Next]_vars
                 PROVE  NothingLost'
    OBVIOUS
  <2>2. Kept \subseteq Kept'
    BY <2>1, KeptStep
  <2>3. CASE \E t \in Threads :
                \/ \E m \in Locks : Acquire(t, m) \/ Release(t, m)
                \/ Internal(t)
    <3>1. PICK t \in Threads : \/ \E m \in Locks : Acquire(t, m) \/ Release(t, m)
                               \/ Internal(t)
      BY <2>3
    <3>2. Hands(t)
      BY <2>1, <3>1, HandsAcquire, HandsCollect, HandsPoint, HandsEnqueue DEF Internal
    <3>3. QED
      BY <2>1, <2>2, <3>2, HandsStep
  <2>4. CASE Worker \/ FlushPending \/ Main \/ UNCHANGED vars
    <3>1. UNCHANGED <<held, new, pc, unknown, observed, dropped, policy>>
      BY <2>4 DEF Worker, DequeueEvent, AdvanceHead, NextRing, FindCycle, ReportCycle,
         InsertEdge, DrainAgain, ClearPending, WorkFound, EndOrSleep, CheckQueue, EndWorker,
         WakeUp, FlushPending, Main, Shutdown, PostStop, JoinWorker, ResetWorker, appVars,
         historyVars, vars
    <3>2. \A u \in Threads : InHook(u)' = InHook(u)
      BY <3>1 DEF InHook, OrdersOf, HeldLocks, EdgesTo
    <3>3. PICK t \in Threads : TRUE
      BY RbAssumption DEF Threads
    <3>4. Hands(t)
      BY <3>1, <3>2, <3>3 DEF Hands
    <3>5. QED
      BY <2>1, <2>2, <3>4, HandsStep
  <2>5. QED
    BY <2>1, <2>3, <2>4 DEF Next
<1>3. QED
  BY <1>1, <1>2, TypeInvariant, BatchInvariant, PTL DEF Spec

-----------------------------------------------------------------------------
(* The shutdown. *)

Joining == main \in {"post", "join"}

\* The rings the worker has still to look at before it may end.
QueuedFrom(s) == UNION {QueuedEdges(t) : t \in {u \in Threads : u >= s}}

\* What is owed stays on its way; and once the worker looks at the queues, what
\* is not in the graph is in a ring it has not come to.
DrainInv ==
    /\ main = "run" => ~shouldStop /\ owed = {} /\ wpc \notin {"check", "exited"}
    /\ owed \subseteq Kept
    /\ Joining /\ wpc = "check" => owed \subseteq graph \cup QueuedFrom(scan)
    /\ Joining /\ wpc = "exited" => owed \subseteq graph
    /\ ShutdownDrains

\* While the destructor waits, nobody creates a worker.
LEMMA NoCreation ==
    ASSUME TypeInv, NEW t \in Threads, CreateWorker(t) \/ InitSemaphore(t)
    PROVE  ~Joining /\ main # "reset"
BY DEF CreateWorker, InitSemaphore, TypeInv, StartedOnce, Joining, Creating

\* The steps of the threads only add to the rings.
LEMMA DrainApp ==
    ASSUME TypeInv, BatchInv, DrainInv, [Next]_vars, NEW t \in Threads,
           Outside(t) \/ EnqueueEvent(t) \/ CreateWorker(t)
    PROVE  DrainInv'
<1>1. UNCHANGED <<main, owed, graph>> /\ Kept \subseteq Kept'
  BY KeptStep DEF Outside, Acquire, Release, Collect, EnsureWorkerStarted, InitSemaphore,
     WorkerStarted, RingFull, SignalWorker, PostWorker, EnqueueEvent, CreateWorker, backVars,
     graphVars, historyVars
<1>2. ~shouldStop => ~shouldStop'
  BY DEF Outside, Acquire, Release, Collect, EnsureWorkerStarted, InitSemaphore,
     WorkerStarted, RingFull, SignalWorker, PostWorker, EnqueueEvent, CreateWorker, wakeVars
<1>3. CASE CreateWorker(t)
  <2>1. ~Joining
    BY <1>3, NoCreation
  <2>2. wpc' = "scan"
    BY <1>3 DEF CreateWorker, Restart
  <2>3. QED
    BY <1>1, <1>2, <2>1, <2>2 DEF DrainInv, ShutdownDrains, Joining
<1>4. CASE ~CreateWorker(t)
  <2>1. UNCHANGED workerVars /\ \A u \in Threads : QueuedEdges(u) \subseteq QueuedEdges(u)'
    <3>1. CASE Outside(t)
      BY <3>1, OutsideStays, QueuedStays DEF backVars
    <3>2. CASE EnqueueEvent(t)
      BY <3>2, EnqueueQueued DEF EnqueueEvent, backVars
    <3>3. QED
      BY <1>4, <3>1, <3>2
  <2>2. UNCHANGED <<wpc, scan>>
    BY <2>1 DEF workerVars
  <2>3. QueuedFrom(scan) \subseteq QueuedFrom(scan)'
    BY <2>1, <2>2 DEF QueuedFrom
  <2>4. QED
    BY <1>1, <1>2, <2>2, <2>3 DEF DrainInv, ShutdownDrains, Joining
<1>5. QED
  BY <1>3, <1>4

\* The worker looks at the queues only with a finished batch, and passes those
\* that are empty.
LEMMA DrainWorker ==
    ASSUME TypeInv, BatchInv, DrainInv, [Next]_vars, Worker \/ FlushPending
    PROVE  DrainInv'
<1>1. UNCHANGED <<main, owed, shouldStop>> /\ Kept \subseteq Kept' /\ graph \subseteq graph'
  BY KeptStep, GraphGrows DEF Worker, DequeueEvent, AdvanceHead, NextRing, FindCycle,
     ReportCycle, InsertEdge, DrainAgain, ClearPending, WorkFound, EndOrSleep, CheckQueue,
     EndWorker, WakeUp, FlushPending, appVars, historyVars, wakeVars
<1>2. CASE EndOrSleep /\ shouldStop
  <2>1. wpc' = "check" /\ scan' = 0 /\ batch \subseteq graph /\ UNCHANGED <<ringVars, graph>>
    BY <1>2 DEF EndOrSleep, DrainDone, graphVars
  <2>2. QueuedFrom(scan)' = UNION {QueuedEdges(u) : u \in Threads}
    <3>1. \A u \in Threads : u >= 0 /\ QueuedEdges(u)' = QueuedEdges(u)
      BY <2>1, QueuedStays DEF Threads
    <3>2. QED
      BY <2>1, <3>1 DEF QueuedFrom
  <2>3. owed \subseteq graph \cup QueuedFrom(scan)'
    BY <2>1, <2>2 DEF DrainInv, Kept
  <2>4. QED
    BY <1>1, <1>2, <2>1, <2>3 DEF DrainInv, ShutdownDrains, Joining
<1>3. CASE CheckQueue /\ QueueEmpty(scan)
  <2>1. /\ wpc = "check" /\ wpc' = "check" /\ scan < ThreadCount /\ scan' = scan + 1
        /\ head[scan] = tail[scan] /\ UNCHANGED <<ringVars, graph>>
    BY <1>3 DEF CheckQueue, QueueEmpty, graphVars
  <2>2. scan \in Threads
    BY <2>1, ScanIsThread
  <2>3. QueuedEdges(scan) = {}
    <3>1. head[scan] \in Indices /\ tail[scan] \in Indices
      BY <2>2 DEF TypeInv, TypeOK, RingTypes, Indices
    <3>2. Queued(scan) = 0
      BY <2>1, <3>1, RingArithmetic DEF Queued
    <3>3. QED
      BY <3>2 DEF QueuedEdges
  <2>4. QueuedFrom(scan) \subseteq QueuedFrom(scan)'
    <3>1. \A u \in Threads : u >= scan => u = scan \/ u >= scan + 1
      BY <2>2 DEF Threads
    <3>2. \A u \in Threads : QueuedEdges(u)' = QueuedEdges(u)
      BY <2>1, QueuedStays
    <3>3. QED
      BY <2>1, <2>3, <3>1, <3>2 DEF QueuedFrom
  <2>5. QED
    BY <1>1, <2>1, <2>4 DEF DrainInv, ShutdownDrains, Joining
<1>4. CASE EndWorker
  <2>1. /\ wpc = "check" /\ wpc' = "exited" /\ scan = ThreadCount /\ UNCHANGED graph
    BY <1>4 DEF EndWorker, graphVars
  <2>2. QueuedFrom(scan) = {}
    <3>1. \A u \in Threads : ~(u >= scan)
      BY <2>1, RbAssumption DEF Threads
    <3>2. QED
      BY <3>1 DEF QueuedFrom
  <2>3. QED
    BY <1>1, <2>1, <2>2 DEF DrainInv, ShutdownDrains, Joining
<1>5. CASE FlushPending
  <2>1. UNCHANGED <<wpc, scan, graph, ringVars>>
    BY <1>5 DEF FlushPending, graphVars
  <2>2. QueuedFrom(scan)' = QueuedFrom(scan)
    BY <2>1, QueuedStays DEF QueuedFrom
  <2>3. QED
    BY <1>1, <2>1, <2>2 DEF DrainInv, ShutdownDrains, Joining
<1>6. CASE Worker /\ ~(EndOrSleep /\ shouldStop) /\ ~(CheckQueue /\ QueueEmpty(scan))
           /\ ~EndWorker
  <2>1. wpc' \notin {"check", "exited"}
    BY <1>6 DEF Worker, DequeueEvent, AdvanceHead, NextRing, FindCycle, ReportCycle,
       InsertEdge, DrainAgain, ClearPending, LookAgain, WorkFound, EndOrSleep, CheckQueue,
       WakeUp, Restart, Drained
  <2>2. QED
    BY <1>1, <2>1 DEF DrainInv, ShutdownDrains, Joining
<1>7. QED
  BY <1>2, <1>3, <1>4, <1>5, <1>6

LEMMA DrainMain ==
    ASSUME TypeInv, BatchInv, DrainInv, [Next]_vars, Main
    PROVE  DrainInv'
<1>1. UNCHANGED <<workerVars, ringVars, graphVars>> /\ Kept \subseteq Kept'
  BY KeptStep DEF Main, Shutdown, PostStop, JoinWorker, ResetWorker
<1>2. UNCHANGED <<wpc, scan, batch, graph>>
  BY <1>1 DEF workerVars, graphVars
<1>3. QueuedFrom(scan)' = QueuedFrom(scan)
  BY <1>1, <1>2, QueuedStays DEF QueuedFrom
<1>4. CASE Shutdown
  BY <1>1, <1>2, <1>4 DEF Shutdown, DrainInv, ShutdownDrains, Joining, Kept
<1>5. CASE PostStop \/ JoinWorker \/ ResetWorker
  BY <1>1, <1>2, <1>3, <1>5 DEF PostStop, JoinWorker, ResetWorker, historyVars, DrainInv,
     ShutdownDrains, Joining
<1>6. QED
  BY <1>4, <1>5 DEF Main

\* The destructor never returns while an order that had reached a ring before it
\* set the stop flag is unrecorded, although the worker reads that flag without
\* any lock and the threads still running go on enqueuing
\* (lockdep_potential_shutdown, lockdep_rb_worker_main).
THEOREM ShutdownIsComplete == Spec => []ShutdownDrains
<1>1. Init => DrainInv
  BY DEF Init, DrainInv, ShutdownDrains, Joining, Kept
<1>2. TypeInv /\ BatchInv /\ DrainInv /\ [Next]_vars => DrainInv'
  <2>1. TypeInv /\ DrainInv /\ UNCHANGED vars => DrainInv'
    <3>1. SUFFICES ASSUME TypeInv, DrainInv, UNCHANGED vars PROVE DrainInv'
      OBVIOUS
    <3>2. UNCHANGED <<main, owed, shouldStop, wpc, scan, batch, graph, ringVars>>
      BY <3>1 DEF vars, historyVars, wakeVars, workerVars, graphVars
    <3>3. \A u \in Threads : QueuedEdges(u)' = QueuedEdges(u)
      BY <3>2, QueuedStays
    <3>4. QueuedFrom(scan)' = QueuedFrom(scan) /\ Kept' = Kept
      BY <3>2, <3>3 DEF QueuedFrom, Kept
    <3>5. QED
      BY <3>1, <3>2, <3>4 DEF DrainInv, ShutdownDrains, Joining
  <2>2. QED
    BY <2>1, DrainApp, DrainWorker, DrainMain DEF Next, Internal, Outside
<1>3. DrainInv => ShutdownDrains
  BY DEF DrainInv
<1>4. QED
  BY <1>1, <1>2, <1>3, TypeInvariant, BatchInvariant, PTL DEF Spec

-----------------------------------------------------------------------------
(* The rings implement queues.  First, what appending and taking do to lists *)
(* given place by place.                                                    *)

LEMMA ListLength ==
    ASSUME NEW S, NEW n \in Nat, NEW f \in [1..n -> S]
    PROVE  f \in Seq(S) /\ Len(f) = n
OBVIOUS

LEMMA ListAppend ==
    ASSUME NEW S, NEW n \in Nat, NEW f \in [1..n -> S],
           NEW g \in [1..(n + 1) -> S], NEW ev \in S,
           \A i \in 1..(n + 1) : g[i] = IF i \in 1..n THEN f[i] ELSE ev
    PROVE  g = Append(f, ev)
<1>1. f \in Seq(S) /\ Len(f) = n
  BY ListLength
<1>2. g \in Seq(S) /\ Len(g) = n + 1
  <2>1. n + 1 \in Nat
    OBVIOUS
  <2>2. QED
    BY <2>1, ListLength
<1>3. /\ Append(f, ev) \in Seq(S) /\ Len(Append(f, ev)) = n + 1
      /\ \A i \in 1..(n + 1) : Append(f, ev)[i] = IF i \in 1..n THEN f[i] ELSE ev
  BY <1>1
<1>4. \A i \in 1..Len(g) : g[i] = Append(f, ev)[i]
  BY <1>2, <1>3
<1>5. QED
  BY <1>2, <1>3, <1>4, SeqEqual

LEMMA ListTail ==
    ASSUME NEW S, NEW n \in Nat, NEW f \in [1..(n + 1) -> S], NEW g \in [1..n -> S],
           \A i \in 1..n : g[i] = f[i + 1]
    PROVE  f # << >> /\ Head(f) = f[1] /\ g = Tail(f)
<1>1. f \in Seq(S) /\ Len(f) = n + 1
  <2>1. n + 1 \in Nat
    OBVIOUS
  <2>2. QED
    BY <2>1, ListLength
<1>2. f # << >> /\ Head(f) = f[1]
  BY <1>1
<1>3. g \in Seq(S) /\ Len(g) = n
  BY ListLength
<1>4. Tail(f) \in Seq(S) /\ Len(Tail(f)) = n /\ \A i \in 1..n : Tail(f)[i] = f[i + 1]
  BY <1>1, <1>2
<1>5. QED
  BY <1>2, <1>3, <1>4, SeqEqual

Slots == Events \cup {NoEvent}

QueueLength(t) == Queued(t) - Copied(t)

LEMMA QueueType ==
    ASSUME TypeInv, NEW t \in Threads
    PROVE  /\ Queued(t) \in Nat /\ QueueLength(t) \in Nat /\ Copied(t) \in {0, 1}
           /\ QueueLength(t) <= Queued(t) /\ Queued(t) <= Capacity
           /\ EventQueue(t) \in [1..QueueLength(t) -> Slots]
<1> USE RbAssumption
<1>1. head[t] \in Indices /\ tail[t] \in Indices /\ Queued(t) <= Capacity
  BY DEF TypeInv, TypeOK, RingTypes, Indices
<1>2. Queued(t) \in Nat /\ (head[t] # tail[t] => Queued(t) # 0)
  BY <1>1, RingArithmetic DEF Queued
<1>3. Copied(t) \in {0, 1} /\ (Copied(t) = 1 => head[t] # tail[t])
  BY DEF Copied, TypeInv, TypeOK, WorkerTypes
<1>4. QueueLength(t) \in Nat /\ QueueLength(t) <= Queued(t)
  BY <1>2, <1>3 DEF QueueLength
<1>5. ASSUME NEW i \in 1..QueueLength(t)
      PROVE  EventAt(t, Copied(t) + (i - 1)) \in Slots
  <2>1. head[t] + (Copied(t) + (i - 1)) \in Int
    BY <1>1, <1>3 DEF Indices
  <2>2. (head[t] + (Copied(t) + (i - 1))) % Capacity \in 0..(Capacity - 1)
    BY <2>1, ModRange
  <2>3. QED
    BY <2>2 DEF EventAt, Slots, TypeInv, TypeOK, RingTypes
<1>6. EventQueue(t) \in [1..QueueLength(t) -> Slots]
  BY <1>5 DEF EventQueue, QueueLength
<1>7. QED
  BY <1>1, <1>2, <1>3, <1>4, <1>6

\* A step that leaves the rings alone, and the worker in the midst of taking an
\* event or not, leaves the queues alone.
LEMMA QueueStays ==
    ASSUME UNCHANGED ringVars, NEW t \in Threads,
           UNCHANGED <<wpc, scan>> \/ (wpc # "advance" /\ wpc' # "advance")
    PROVE  EventQueue(t)' = EventQueue(t)
BY DEF EventQueue, Copied, Queued, EventAt, ringVars

\* Putting an event into a ring appends it.
LEMMA QueuePut ==
    ASSUME TypeInv, NEW t \in Threads, EnqueueEvent(t)
    PROVE  /\ [to |-> new[t], from |-> unknown[t]] \in Queues!Events
           /\ Len(EventQueue(t)) < Capacity
           /\ EventQueue(t)' = Append(EventQueue(t), [to |-> new[t], from |-> unknown[t]])
           /\ [to |-> new[t], from |-> unknown[t]] \in Queues!Members(EventQueue(t)')
           /\ \A u \in Threads \ {t} : EventQueue(u)' = EventQueue(u)
<1> DEFINE ev == [to |-> new[t], from |-> unknown[t]]
           n == QueueLength(t)
<1>1. /\ pc[t] = "enqueue" /\ Queued(t) < Capacity
      /\ UNCHANGED <<wpc, scan>>
  BY DEF EnqueueEvent, HasRoom, backVars, workerVars
<1>2. ev \in Events
  BY <1>1 DEF TypeInv, TypeOK, AppTypes, Events
<1>3. /\ Queued(t) \in Nat /\ n \in Nat /\ Copied(t) \in {0, 1} /\ n <= Queued(t)
      /\ n = Queued(t) - Copied(t) /\ Capacity \in Nat
      /\ EventQueue(t) \in [1..n -> Slots]
  BY QueueType, RbAssumption DEF QueueLength
<1>4. Len(EventQueue(t)) < Capacity
  <2>1. Len(EventQueue(t)) = n
    BY <1>3, ListLength
  <2>2. QED
    BY <1>1, <1>3, <2>1
<1>5. \A u \in Threads : Copied(u)' = Copied(u)
  BY <1>1 DEF Copied
<1>6. EventQueue(t)' = Append(EventQueue(t), ev)
  <2>1. Queued(t)' = Queued(t) + 1
    BY EnqueueEvents
  <2>2. EventQueue(t)' = [i \in 1..(n + 1) |-> EventAt(t, Copied(t) + (i - 1))']
    <3>1. Queued(t)' - Copied(t)' = n + 1
      BY <1>3, <1>5, <2>1
    <3>2. EventQueue(t)' = [i \in 1..(Queued(t)' - Copied(t)') |->
                                 EventAt(t, Copied(t) + (i - 1))']
      BY DEF EventQueue
    <3>3. QED
      BY <3>1, <3>2
  <2>3. ASSUME NEW i \in 1..(n + 1)
        PROVE  EventAt(t, Copied(t) + (i - 1))'
                  = IF i \in 1..n THEN EventQueue(t)[i] ELSE ev
    <3> DEFINE k == Copied(t) + (i - 1)
    <3>1. k \in Nat /\ (i \in 1..n => k < Queued(t)) /\ (i \notin 1..n => k = Queued(t))
      BY <1>3
    <3>2. EventAt(t, k)' = events'[t][(head'[t] + (Copied(t)' + (i - 1))) % Capacity]
      BY DEF EventAt
    <3>3. /\ k < Queued(t) => events'[t][(head'[t] + k) % Capacity] = EventAt(t, k)
          /\ k = Queued(t) => events'[t][(head'[t] + k) % Capacity] = ev
      BY <3>1, EnqueueEvents DEF EventAt
    <3>4. i \in 1..n => EventQueue(t)[i] = EventAt(t, k)
      BY DEF EventQueue, QueueLength
    <3>5. QED
      BY <1>5, <3>1, <3>2, <3>3, <3>4
  <2>4. ev \in Slots
    BY <1>2 DEF Slots
  <2>5. /\ EventQueue(t)' \in [1..(n + 1) -> Slots]
        /\ \A i \in 1..(n + 1) :
              EventQueue(t)'[i] = IF i \in 1..n THEN EventQueue(t)[i] ELSE ev
    BY <1>3, <2>2, <2>3, <2>4
  <2> HIDE DEF ev, n
  <2>6. QED
    BY <1>3, <2>4, <2>5, ListAppend
<1>7. \A u \in Threads \ {t} : EventQueue(u)' = EventQueue(u)
  BY <1>1, <1>5 DEF EnqueueEvent, EventQueue, EventAt, Queued, Copied, TypeInv, TypeOK,
     RingTypes
<1>8. ev \in Queues!Members(EventQueue(t)')
  <2>1. EventQueue(t) \in Seq(Slots) /\ Len(EventQueue(t)) = n
    BY <1>3, ListLength
  <2> HIDE DEF ev, n
  <2>2. Append(EventQueue(t), ev)[n + 1] = ev /\ Len(Append(EventQueue(t), ev)) = n + 1
    BY <1>3, <2>1
  <2>3. QED
    BY <1>3, <1>6, <2>2 DEF Queues!Members
<1>9. QED
  BY <1>2, <1>4, <1>6, <1>7, <1>8 DEF Queues!Events, Events

\* Copying the event at the head takes it from the queue.
LEMMA QueueTake ==
    ASSUME TypeInv, DequeueEvent
    PROVE  /\ scan \in Threads
           /\ EventQueue(scan) # << >>
           /\ Head(EventQueue(scan)) = EventAtHead(scan)
           /\ EventQueue(scan)' = Tail(EventQueue(scan))
           /\ \A u \in Threads \ {scan} : EventQueue(u)' = EventQueue(u)
<1> DEFINE n == Queued(scan) - 1
<1>1. /\ wpc = "scan" /\ wpc' = "advance" /\ scan < ThreadCount /\ head[scan] # tail[scan]
      /\ UNCHANGED <<ringVars, scan>>
  BY DEF DequeueEvent
<1>2. scan \in Threads /\ head[scan] \in Indices /\ tail[scan] \in Indices
  BY <1>1, ScanIsThread DEF TypeInv, TypeOK, RingTypes, Indices
<1>3. Queued(scan) \in Nat \ {0}
  BY <1>1, <1>2, RingArithmetic DEF Queued
<1>4. /\ Copied(scan) = 0 /\ Copied(scan)' = 1
      /\ \A u \in Threads \ {scan} : Copied(u)' = Copied(u)
  BY <1>1 DEF Copied
<1>5. \A u \in Threads : Queued(u)' = Queued(u) /\ \A i : EventAt(u, i)' = EventAt(u, i)
  BY <1>1 DEF Queued, EventAt, ringVars
<1>6. \A u \in Threads \ {scan} : EventQueue(u)' = EventQueue(u)
  BY <1>1, <1>4 DEF EventQueue, Queued, EventAt, Copied, ringVars
<1>7. n \in Nat /\ EventQueue(scan) \in [1..(n + 1) -> Slots]
  <2>1. n + 1 = QueueLength(scan) /\ n \in Nat
    BY <1>3, <1>4 DEF QueueLength
  <2>2. EventQueue(scan) \in [1..QueueLength(scan) -> Slots]
    BY <1>2, QueueType
  <2>3. QED
    BY <2>1, <2>2
<1>8. ASSUME NEW i \in 1..(n + 1)
      PROVE  EventQueue(scan)[i] = EventAt(scan, i - 1)
  <2>1. i \in 1..(Queued(scan) - Copied(scan)) /\ Copied(scan) + (i - 1) = i - 1
    BY <1>3, <1>4
  <2>2. QED
    BY <2>1 DEF EventQueue
<1>9. /\ EventQueue(scan)' \in [1..n -> Slots]
      /\ \A i \in 1..n : EventQueue(scan)'[i] = EventQueue(scan)[i + 1]
  <2>1. EventQueue(scan)' =
            [i \in 1..(Queued(scan)' - Copied(scan)') |->
                events'[scan'][(head'[scan'] + (Copied(scan)' + (i - 1))) % Capacity]]
    BY DEF EventQueue, EventAt
  <2>2. EventQueue(scan)' = [i \in 1..n |-> EventAt(scan, 1 + (i - 1))]
    BY <1>1, <1>2, <1>4, <1>5, <2>1 DEF EventAt, ringVars
  <2>3. ASSUME NEW i \in 1..n
        PROVE  /\ EventAt(scan, 1 + (i - 1)) = EventQueue(scan)[i + 1]
               /\ EventQueue(scan)[i + 1] \in Slots
    <3>1. i + 1 \in 1..(n + 1) /\ 1 + (i - 1) = (i + 1) - 1
      BY <1>7
    <3>2. QED
      BY <1>7, <1>8, <3>1
  <2>4. QED
    BY <2>2, <2>3
<1>10. EventQueue(scan)[1] = EventAtHead(scan)
  <2>1. EventQueue(scan)[1] = EventAt(scan, 1 - 1)
    BY <1>7, <1>8
  <2>2. head[scan] + (1 - 1) = head[scan]
    BY <1>2 DEF Indices
  <2>3. QED
    BY <2>1, <2>2 DEF EventAt, EventAtHead
<1> HIDE DEF n
<1>11. /\ EventQueue(scan) # << >>
       /\ Head(EventQueue(scan)) = EventQueue(scan)[1]
       /\ EventQueue(scan)' = Tail(EventQueue(scan))
  BY <1>7, <1>9, ListTail
<1>12. QED
  BY <1>2, <1>6, <1>10, <1>11

\* Moving head past the copied event is not seen in the queue.
LEMMA QueueAdvance ==
    ASSUME TypeInv, AdvanceHead, NEW t \in Threads
    PROVE  EventQueue(t)' = EventQueue(t)
<1>1. wpc = "advance" /\ wpc' = "scan" /\ scan' = scan
  BY DEF AdvanceHead
<1>2. CASE t = scan
  <2>1. /\ Queued(t) \in Nat /\ Queued(t)' = Queued(t) - 1
        /\ \A i \in Nat : events'[t][(head'[t] + i) % Capacity] = EventAt(t, i + 1)
    BY <1>2, AdvanceEvents DEF EventAt, Queued
  <2>2. Copied(t) = 1 /\ Copied(t)' = 0
    BY <1>1, <1>2 DEF Copied
  <2>3. EventQueue(t)' = [i \in 1..(Queued(t)' - Copied(t)') |->
                              events'[t][(head'[t] + (Copied(t)' + (i - 1))) % Capacity]]
    BY DEF EventQueue, EventAt
  <2>4. Queued(t)' - Copied(t)' = Queued(t) - Copied(t)
    BY <2>1, <2>2
  <2>5. ASSUME NEW i \in 1..(Queued(t) - Copied(t))
        PROVE  events'[t][(head'[t] + (Copied(t)' + (i - 1))) % Capacity]
                  = EventAt(t, Copied(t) + (i - 1))
    <3>1. i - 1 \in Nat /\ 0 + (i - 1) = i - 1 /\ 1 + (i - 1) = (i - 1) + 1
      BY <2>1
    <3>2. QED
      BY <2>1, <2>2, <3>1
  <2>6. QED
    BY <2>3, <2>4, <2>5 DEF EventQueue
<1>3. CASE t # scan
  <2>1. UNCHANGED <<tail, events>> /\ head'[t] = head[t]
    BY <1>3 DEF AdvanceHead, TypeInv, TypeOK, RingTypes
  <2>2. Copied(t)' = Copied(t)
    BY <1>1, <1>3 DEF Copied
  <2>3. QED
    BY <2>1, <2>2 DEF EventQueue, Queued, EventAt
<1>4. QED
  BY <1>2, <1>3

\* A batch is emptied only when it is finished.
LEMMA BatchEmptied ==
    ASSUME TypeInv, BatchInv,
           \/ \E t \in Threads : CreateWorker(t)
           \/ DrainAgain \/ ClearPending \/ WorkFound \/ WakeUp
    PROVE  /\ batch \subseteq graph /\ batch' = {}
           /\ UNCHANGED <<ringVars, graph>>
           /\ wpc # "advance" /\ wpc' # "advance"
BY DEF CreateWorker, DrainAgain, ClearPending, WorkFound, WakeUp, LookAgain, Restart,
   DrainDone, Drained, TypeInv, StartedOnce, NoWorker, BatchInv, graphVars

\* What neither rings, batch nor graph see.
LEMMA QueueFrame ==
    ASSUME TypeInv,
           \/ \E t \in Threads : Outside(t)
           \/ NextRing \/ FindCycle \/ ReportCycle
           \/ EndOrSleep \/ CheckQueue \/ EndWorker
           \/ FlushPending \/ Main \/ UNCHANGED vars
    PROVE  /\ UNCHANGED <<ringVars, batch, graph>>
           /\ UNCHANGED <<wpc, scan>> \/ (wpc # "advance" /\ wpc' # "advance")
<1>1. CASE \E t \in Threads : Outside(t)
  BY <1>1, OutsideStays DEF backVars, workerVars, graphVars
<1>2. CASE NextRing \/ FindCycle \/ ReportCycle \/ EndOrSleep \/ CheckQueue \/ EndWorker
  BY <1>2 DEF NextRing, FindCycle, ReportCycle, EndOrSleep, CheckQueue, EndWorker, DrainDone,
     Drained, graphVars
<1>3. CASE FlushPending \/ Main \/ UNCHANGED vars
  BY <1>3 DEF FlushPending, Main, Shutdown, PostStop, JoinWorker, ResetWorker, vars,
     workerVars, graphVars
<1>4. QED
  BY <1>1, <1>2, <1>3

LEMMA QueuesStep ==
    ASSUME TypeInv, BatchInv, [Next]_vars
    PROVE  [Queues!Next]_(Queues!vars)
<1> DEFINE queue == [t \in Threads |-> EventQueue(t)]
<1>1. CASE \E t \in Threads : EnqueueEvent(t)
  <2>1. PICK t \in Threads : EnqueueEvent(t)
    BY <1>1
  <2>2. PICK ev \in Queues!Events :
            /\ Len(EventQueue(t)) < Capacity
            /\ EventQueue(t)' = Append(EventQueue(t), ev)
            /\ ev \in Queues!Members(EventQueue(t)')
            /\ \A u \in Threads \ {t} : EventQueue(u)' = EventQueue(u)
    BY <2>1, QueuePut
  <2>3. queue' = [queue EXCEPT ![t] = Append(queue[t], ev)]
    BY <2>2
  <2>4. UNCHANGED <<batch, graph>>
    BY <2>1 DEF EnqueueEvent, backVars, workerVars, graphVars
  <2>5. Queues!Put(t, ev)
    BY <2>2, <2>3, <2>4 DEF Queues!Put
  <2>6. queue'[t] = EventQueue(t)'
    OBVIOUS
  <2>7. Queues!HandOver(t)
    BY <2>2, <2>5, <2>6 DEF Queues!HandOver
  <2>8. QED
    BY <2>7 DEF Queues!Next
<1>2. CASE DequeueEvent
  <2>1. /\ batch' = batch \cup EdgesTo(EventAtHead(scan).from, EventAtHead(scan).to)
        /\ UNCHANGED graph
    BY <1>2 DEF DequeueEvent, graphVars
  <2>2. /\ scan \in Threads
        /\ EventQueue(scan) # << >>
        /\ Head(EventQueue(scan)) = EventAtHead(scan)
        /\ EventQueue(scan)' = Tail(EventQueue(scan))
        /\ \A u \in Threads \ {scan} : EventQueue(u)' = EventQueue(u)
    BY <1>2, QueueTake
  <2>3. scan' = scan
    BY <1>2 DEF DequeueEvent
  <2>4. queue' = [queue EXCEPT ![scan] = Tail(queue[scan])]
    BY <2>2, <2>3
  <2>5. batch' = batch \cup Queues!OrdersIn(Head(queue[scan]))
    BY <2>1, <2>2 DEF Queues!OrdersIn, EdgesTo
  <2>6. Queues!Take(scan)
    BY <2>1, <2>2, <2>4, <2>5 DEF Queues!Take
  <2>7. QED
    BY <2>2, <2>6 DEF Queues!Next
<1>3. CASE AdvanceHead
  <2>1. UNCHANGED <<batch, graph>>
    BY <1>3 DEF AdvanceHead, graphVars
  <2>2. UNCHANGED queue
    BY <1>3, QueueAdvance
  <2>3. QED
    BY <2>1, <2>2 DEF Queues!vars
<1>4. CASE InsertEdge
  <2>1. PICK e \in batch \ graph : graph' = graph \cup {e}
    BY <1>4 DEF InsertEdge
  <2>2. UNCHANGED <<ringVars, batch>> /\ wpc # "advance" /\ wpc' # "advance"
    BY <1>4 DEF InsertEdge, Drained
  <2>3. UNCHANGED queue
    BY <2>2, QueueStays
  <2>4. Queues!Record(e)
    BY <2>1, <2>2, <2>3 DEF Queues!Record
  <2>5. QED
    BY <2>1, <2>4 DEF Queues!Next
<1>5. CASE \/ \E t \in Threads : CreateWorker(t)
           \/ DrainAgain \/ ClearPending \/ WorkFound \/ WakeUp
  <2>1. /\ batch \subseteq graph /\ batch' = {}
        /\ UNCHANGED <<ringVars, graph>>
        /\ wpc # "advance" /\ wpc' # "advance"
    BY <1>5, BatchEmptied
  <2>2. UNCHANGED queue
    BY <2>1, QueueStays
  <2>3. QED
    BY <2>1, <2>2 DEF Queues!NewBatch, Queues!Next
<1>6. CASE \/ \E t \in Threads : Outside(t)
           \/ NextRing \/ FindCycle \/ ReportCycle
           \/ EndOrSleep \/ CheckQueue \/ EndWorker
           \/ FlushPending \/ Main \/ UNCHANGED vars
  <2>1. /\ UNCHANGED <<ringVars, batch, graph>>
        /\ UNCHANGED <<wpc, scan>> \/ (wpc # "advance" /\ wpc' # "advance")
    BY <1>6, QueueFrame
  <2>2. UNCHANGED queue
    BY <2>1, QueueStays
  <2>3. QED
    BY <2>1, <2>2 DEF Queues!vars
<1>7. QED
  BY <1>1, <1>2, <1>3, <1>4, <1>5, <1>6 DEF Next, Internal, Worker, Outside

\* Every ring, whose indices wrap around and whose slots are used again and
\* again, behaves as a bounded first-in-first-out queue: no event is overwritten,
\* taken twice or out of order, although thread and worker share it without a
\* lock; and the worker records every order of a batch before it forgets the
\* batch (lockdep_rb_enqueue_edge_batch, lockdep_rb_try_dequeue_event,
\* lockdep_rb_drain_once).
THEOREM BackendImplementsEventQueues == Spec => ImplementsEventQueues
<1>1. Init => Queues!Init
  <2>1. SUFFICES ASSUME Init PROVE Queues!Init
    OBVIOUS
  <2>2. ASSUME NEW t \in Threads
        PROVE  EventQueue(t) = << >>
    <3>1. TypeInv
      BY <2>1, TypeInit
    <3>2. Queued(t) = 0
      BY <2>1, RbAssumption, RingArithmetic DEF Init, Queued, Indices
    <3>3. QueueLength(t) = 0 /\ EventQueue(t) \in [1..QueueLength(t) -> Slots]
      BY <2>2, <3>1, <3>2, QueueType
    <3>4. QED
      BY <3>3
  <2>3. QED
    BY <2>1, <2>2 DEF Init, Queues!Init
<1>2. TypeInv /\ BatchInv /\ [Next]_vars => [Queues!Next]_(Queues!vars)
  BY QueuesStep
<1>3. QED
  BY <1>1, <1>2, TypeInvariant, BatchInvariant, PTL
     DEF Spec, ImplementsEventQueues, Queues!Spec

-----------------------------------------------------------------------------
(* The stop. *)

\* Once the stop has been posted the worker sleeps only with a post to come or
\* with a ring that is not empty: that is what it looks for before it sleeps.
StopInv ==
    /\ Joining => shouldStop
    /\ main = "join" /\ wpc = "sleep" => wakeupSem > 0 \/ \E t \in Threads : head[t] # tail[t]

LEMMA StopApp ==
    ASSUME TypeInv, StopInv, NEW t \in Threads,
           Outside(t) \/ EnqueueEvent(t) \/ CreateWorker(t)
    PROVE  StopInv'
<1>1. UNCHANGED main
  BY OutsideStays DEF EnqueueEvent, CreateWorker, backVars
<1>2. CASE InitSemaphore(t) \/ CreateWorker(t)
  BY <1>1, <1>2, NoCreation DEF StopInv, Joining
<1>3. CASE Outside(t) /\ ~InitSemaphore(t)
  <2>1. UNCHANGED <<wpc, head, tail>>
    BY <1>3, OutsideStays DEF backVars, workerVars, ringVars
  <2>2. UNCHANGED shouldStop /\ wakeupSem' \in {wakeupSem, wakeupSem + 1}
    BY <1>3 DEF Outside, Acquire, Release, Collect, EnsureWorkerStarted, WorkerStarted,
       RingFull, SignalWorker, PostWorker, wakeVars
  <2>3. wakeupSem \in Nat
    BY DEF TypeInv, TypeOK, WakeTypes
  <2>4. QED
    BY <1>1, <2>1, <2>2, <2>3 DEF StopInv, Joining
<1>4. CASE EnqueueEvent(t)
  <2>1. /\ Queued(t) < Capacity
        /\ tail' = [tail EXCEPT ![t] = Inc(tail[t])]
        /\ UNCHANGED <<head, wpc, shouldStop, wakeupSem>>
    BY <1>4 DEF EnqueueEvent, HasRoom, backVars, workerVars, wakeVars
  <2>2. head[t] \in Indices /\ tail[t] \in Indices
    BY DEF TypeInv, TypeOK, RingTypes, Indices
  <2>3. head'[t] # tail'[t]
    BY <2>1, <2>2, RingArithmetic DEF Queued, TypeInv, TypeOK, RingTypes
  <2>4. QED
    BY <1>1, <2>1, <2>3 DEF StopInv, Joining
<1>5. QED
  BY <1>2, <1>3, <1>4

LEMMA StopWorker ==
    ASSUME TypeInv, StopInv, Worker \/ FlushPending
    PROVE  StopInv'
<1>1. UNCHANGED <<main, shouldStop>>
  BY DEF Worker, FlushPending, DequeueEvent, AdvanceHead, NextRing, FindCycle, ReportCycle,
     InsertEdge, DrainAgain, ClearPending, WorkFound, EndOrSleep, CheckQueue, EndWorker,
     WakeUp, appVars, wakeVars
<1>2. CASE EndOrSleep
  BY <1>1, <1>2 DEF EndOrSleep, StopInv, Joining
<1>3. CASE CheckQueue
  <2>1. /\ scan < ThreadCount /\ UNCHANGED <<head, tail>>
        /\ wpc' = "sleep" => head[scan] # tail[scan]
    BY <1>3 DEF CheckQueue, QueueEmpty, ringVars
  <2>2. scan \in Threads
    BY <2>1, ScanIsThread
  <2>3. QED
    BY <1>1, <2>1, <2>2 DEF StopInv, Joining
<1>4. CASE FlushPending
  BY <1>1, <1>4 DEF FlushPending, ringVars, StopInv, Joining
<1>5. CASE Worker /\ ~EndOrSleep /\ ~CheckQueue
  <2>1. wpc' # "sleep"
    BY <1>5 DEF Worker, DequeueEvent, AdvanceHead, NextRing, FindCycle, ReportCycle,
       InsertEdge, DrainAgain, ClearPending, LookAgain, WorkFound, EndWorker, WakeUp, Restart
  <2>2. QED
    BY <1>1, <2>1 DEF StopInv, Joining
<1>6. QED
  BY <1>2, <1>3, <1>4, <1>5

LEMMA StopMain ==
    ASSUME TypeInv, StopInv, Main
    PROVE  StopInv'
BY DEF Main, Shutdown, PostStop, PostForStop, JoinWorker, ResetWorker, wakeVars, TypeInv,
   TypeOK, WakeTypes, StopInv, Joining

\* The destructor never waits in pthread_join for a worker that nobody will wake:
\* on sequentially consistent memory, a worker asleep after the stop was posted
\* has found a queue that was not empty, and the thread that filled it is on its
\* way to post (lockdep_potential_shutdown, lockdep_rb_worker_main).
THEOREM StopIsHeard ==
    ASSUME ~StoreBuffers PROVE Spec => []StopWakesWorker
<1>1. Init => StopInv
  BY DEF Init, StopInv, Joining
<1>2. TypeInv /\ StopInv /\ [Next]_vars => StopInv'
  <2>1. StopInv /\ UNCHANGED vars => StopInv'
    BY DEF vars, workerVars, ringVars, wakeVars, StopInv, Joining
  <2>2. QED
    BY <2>1, StopApp, StopWorker, StopMain DEF Next, Internal, Outside
<1>3. StopInv /\ SleepsOnlyWithoutWork => StopWakesWorker
  BY DEF StopInv, SleepsOnlyWithoutWork, StopWakesWorker, Asleep
<1>4. QED
  BY <1>1, <1>2, <1>3, TypeInvariant, WorkerSleepsRight, PTL DEF Spec

-----------------------------------------------------------------------------
(* No order is invented. *)

\* Where an order can be on its way.
Seen ==
    graph \cup batch \cup hand \cup reported
          \cup UNION {QueuedEdges(t) \cup InHook(t) : t \in Threads}

SeenInv == Seen \subseteq observed

\* A thread's step adds to the rings only what it was to enqueue, and to that only
\* what it has just observed.
Offers(t) ==
    /\ \A u \in Threads : QueuedEdges(u)' \subseteq QueuedEdges(u) \cup InHook(t)
    /\ \A u \in Threads \ {t} : InHook(u)' = InHook(u)
    /\ InHook(t)' \subseteq InHook(t) \cup observed'
    /\ observed \subseteq observed'
    /\ graph' \cup batch' \cup hand' \cup reported' \subseteq graph \cup batch \cup hand \cup reported

LEMMA SeenByOffers ==
    ASSUME SeenInv, NEW t \in Threads, Offers(t)
    PROVE  SeenInv'
<1>1. /\ graph \cup batch \cup hand \cup reported \subseteq observed
      /\ \A u \in Threads : QueuedEdges(u) \subseteq observed /\ InHook(u) \subseteq observed
  BY DEF SeenInv, Seen
<1>2. \A u \in Threads : InHook(u)' \subseteq observed'
  BY <1>1 DEF Offers
<1>3. \A u \in Threads : QueuedEdges(u)' \subseteq observed'
  BY <1>1 DEF Offers
<1>4. graph' \cup batch' \cup hand' \cup reported' \subseteq observed'
  BY <1>1 DEF Offers
<1>5. Seen' = graph' \cup batch' \cup hand' \cup reported'
                 \cup UNION {QueuedEdges(u)' \cup InHook(u)' : u \in Threads}
  BY DEF Seen
<1>6. QED
  BY <1>2, <1>3, <1>4, <1>5 DEF SeenInv

\* Outside the place where it has just acquired a mutex, a thread is to enqueue
\* no more than before.
LEMMA InHookShrinks ==
    ASSUME TypeInv, TypeInv', NEW t \in Threads, pc[t] # "collect", pc'[t] # "collect",
           unknown'[t] \subseteq unknown[t], new'[t] = new[t] \/ pc'[t] = "idle"
    PROVE  InHook(t)' \subseteq InHook(t)
<1>1. pc'[t] = "idle" => unknown'[t] = {}
  BY DEF TypeInv, UnknownProper
<1>2. QED
  BY <1>1 DEF InHook, EdgesTo

LEMMA OffersOutside ==
    ASSUME TypeInv, [Next]_vars, NEW t \in Threads,
           Outside(t) \/ EnqueueEvent(t) \/ CreateWorker(t)
    PROVE  Offers(t)
<1>1. TypeInv'
  BY TypeStep
<1>2. \A u \in Threads \ {t} : UNCHANGED <<held[u], new[u], pc[u], unknown[u]>>
  BY DEF Outside, Acquire, Release, Collect, EnsureWorkerStarted, InitSemaphore, CreateWorker,
     WorkerStarted, EnqueueEvent, RingFull, SignalWorker, PostWorker, Signalled, Push, Goto,
     TypeInv, TypeOK, AppTypes
<1>3. \A u \in Threads \ {t} : InHook(u)' = InHook(u)
  BY <1>2, OthersStay DEF TypeInv, TypeOK
<1>4. graph' \cup batch' \cup hand' \cup reported' \subseteq graph \cup batch \cup hand \cup reported
  BY OutsideStays DEF EnqueueEvent, CreateWorker, Restart, backVars, workerVars, graphVars
<1>5. \A u \in Threads : QueuedEdges(u)' \subseteq QueuedEdges(u) \cup InHook(t)
  <2>1. CASE EnqueueEvent(t)
    <3>1. InHook(t) = EdgesTo(unknown[t], new[t])
      BY <2>1 DEF EnqueueEvent, InHook
    <3>2. ASSUME NEW u \in Threads, NEW e \in QueuedEdges(u)'
          PROVE  e \in QueuedEdges(u) \cup InHook(t)
      <4>1. PICK i \in 0..(Queued(u)' - 1) : e \in QueuedAt(u, i)'
        BY <3>2, QueuedMemberPrime
      <4>2. Queued(u) \in Nat /\ Queued(u)' = IF u = t THEN Queued(t) + 1 ELSE Queued(u)
        BY <2>1, EnqueueKeeps, QueueType
      <4>3. CASE i < Queued(u)
        <5>1. e \in QueuedAt(u, i) /\ i \in 0..(Queued(u) - 1)
          BY <2>1, <4>1, <4>2, <4>3, EnqueueKeeps
        <5>2. QED
          BY <5>1, QueuedMember
      <4>4. CASE ~(i < Queued(u))
        <5>1. u = t /\ i \in Nat /\ i = Queued(t)
          BY <4>1, <4>2, <4>4
        <5>2. QED
          BY <2>1, <3>1, <4>1, <5>1, EnqueueKeeps
      <4>5. QED
        BY <4>3, <4>4
    <3>3. QED
      BY <3>2
  <2>2. CASE Outside(t) \/ CreateWorker(t)
    BY <2>2, OutsideStays, QueuedStays DEF CreateWorker
  <2>3. QED
    BY <2>1, <2>2
<1>6. observed \subseteq observed' /\ InHook(t)' \subseteq InHook(t) \cup observed'
  <2>1. CASE \E m \in Locks : Acquire(t, m)
    <3>1. PICK m \in Locks : Acquire(t, m)
      BY <2>1
    <3>2. CASE UNCHANGED <<new, pc, observed>>
      <4>1. UNCHANGED unknown /\ pc[t] = "idle"
        BY <3>1 DEF Acquire
      <4>2. QED
        BY <3>2, <4>1 DEF InHook, EdgesTo
    <3>3. CASE ~UNCHANGED <<new, pc, observed>>
      <4>1. /\ new' = [new EXCEPT ![t] = m] /\ pc' = [pc EXCEPT ![t] = "collect"]
            /\ observed' = observed \cup OrdersOf(t, m) /\ UNCHANGED held
        BY <3>1, <3>3 DEF Acquire, Goto
      <4>2. new'[t] = m /\ pc'[t] = "collect"
        BY <4>1 DEF TypeInv, TypeOK, AppTypes
      <4>3. InHook(t)' = OrdersOf(t, m)
        BY <4>1, <4>2 DEF InHook, OrdersOf, HeldLocks
      <4>4. QED
        BY <4>1, <4>3
    <3>4. QED
      BY <3>2, <3>3
  <2>2. CASE Collect(t)
    <3> DEFINE news == {l \in Candidates(t) : <<l, new[t]>> \notin graph}
    <3>1. pc[t] = "collect" /\ UNCHANGED observed
      BY <2>2 DEF Collect, historyVars
    <3>2. InHook(t) = EdgesTo(Candidates(t), new[t])
      BY <3>1 DEF InHook, OrdersOf, Candidates
    <3>3. CASE news = {}
      <4>1. pc'[t] = "idle" /\ unknown'[t] = {}
        BY <1>1, <2>2, <3>3 DEF Collect, Push, Goto, TypeInv, TypeOK, AppTypes, UnknownProper
      <4>2. QED
        BY <3>1, <4>1 DEF InHook, EdgesTo
    <3>4. CASE news # {}
      <4>1. /\ unknown' = [unknown EXCEPT ![t] = news]
            /\ pc' = [pc EXCEPT ![t] = "ensure"] /\ UNCHANGED new
        BY <2>2, <3>4 DEF Collect, Goto
      <4>2. unknown'[t] = news /\ pc'[t] = "ensure"
        BY <4>1 DEF TypeInv, TypeOK, AppTypes
      <4>3. InHook(t)' = EdgesTo(news, new[t])
        BY <4>1, <4>2 DEF InHook, EdgesTo
      <4>4. QED
        BY <3>1, <3>2, <4>3 DEF EdgesTo
    <3>5. QED
      BY <3>3, <3>4
  <2>3. CASE ~(\E m \in Locks : Acquire(t, m)) /\ ~Collect(t)
    <3>1. UNCHANGED observed
      BY <2>3 DEF Outside, Release, EnsureWorkerStarted, InitSemaphore, CreateWorker,
         WorkerStarted, EnqueueEvent, RingFull, SignalWorker, PostWorker, historyVars
    <3>2. pc[t] # "collect" /\ pc'[t] # "collect"
      BY <2>3 DEF Outside, Release, EnsureWorkerStarted, InitSemaphore, CreateWorker,
         WorkerStarted, EnqueueEvent, RingFull, SignalWorker, PostWorker, Signalled, Push,
         Goto, TypeInv, TypeOK, AppTypes
    <3>3. unknown'[t] \subseteq unknown[t]
      BY <2>3 DEF Outside, Release, EnsureWorkerStarted, InitSemaphore, CreateWorker,
         WorkerStarted, EnqueueEvent, RingFull, SignalWorker, PostWorker, TypeInv, TypeOK,
         AppTypes
    <3>4. new'[t] = new[t] \/ pc'[t] = "idle"
      BY <2>3 DEF Outside, Release, EnsureWorkerStarted, InitSemaphore, CreateWorker,
         WorkerStarted, EnqueueEvent, RingFull, SignalWorker, PostWorker, Signalled, Push,
         Goto, TypeInv, TypeOK, AppTypes
    <3>5. QED
      BY <1>1, <3>1, <3>2, <3>3, <3>4, InHookShrinks
  <2>4. QED
    BY <2>1, <2>2, <2>3
<1>7. QED
  BY <1>3, <1>4, <1>5, <1>6 DEF Offers

\* What the worker has and hands on.
Taken == graph \cup batch \cup hand \cup reported

LEMMA SeenByWorker ==
    ASSUME TypeInv, SeenInv, NEW more,
           UNCHANGED <<held, new, pc, unknown, observed>>,
           \A u \in Threads : QueuedEdges(u)' \subseteq QueuedEdges(u),
           Taken' \subseteq Taken \cup more, more \subseteq observed
    PROVE  SeenInv'
<1>1. /\ Taken \subseteq observed
      /\ \A u \in Threads : QueuedEdges(u) \subseteq observed /\ InHook(u) \subseteq observed
  BY DEF SeenInv, Seen, Taken
<1>2. \A u \in Threads : InHook(u)' = InHook(u)
  BY OthersStay DEF InHook, OrdersOf, HeldLocks, EdgesTo
<1>3. Seen' = Taken' \cup UNION {QueuedEdges(u)' \cup InHook(u)' : u \in Threads}
  BY DEF Seen, Taken
<1>4. QED
  BY <1>1, <1>2, <1>3 DEF SeenInv

LEMMA SeenWorker ==
    ASSUME TypeInv, SeenInv, [Next]_vars,
           Worker \/ FlushPending \/ Main \/ UNCHANGED vars
    PROVE  SeenInv'
<1>1. UNCHANGED <<held, new, pc, unknown, observed>>
  BY DEF Worker, DequeueEvent, AdvanceHead, NextRing, FindCycle, ReportCycle,
     InsertEdge, DrainAgain, ClearPending, WorkFound, EndOrSleep, CheckQueue, EndWorker,
     WakeUp, FlushPending, Main, Shutdown, PostStop, JoinWorker, ResetWorker, appVars,
     historyVars, vars
<1>2. CASE DequeueEvent
  <2>1. /\ batch' = batch \cup EdgesTo(EventAtHead(scan).from, EventAtHead(scan).to)
        /\ UNCHANGED <<ringVars, hand, graph, reported>>
        /\ scan < ThreadCount /\ head[scan] # tail[scan]
    BY <1>2 DEF DequeueEvent, graphVars
  <2>2. scan \in Threads /\ head[scan] \in Indices /\ tail[scan] \in Indices
    BY <2>1, ScanIsThread DEF TypeInv, TypeOK, RingTypes, Indices
  <2>3. 0 \in 0..(Queued(scan) - 1)
    BY <2>1, <2>2, RingArithmetic DEF Queued
  <2>4. EdgesTo(EventAtHead(scan).from, EventAtHead(scan).to) = QueuedAt(scan, 0)
    <3>1. head[scan] + 0 = head[scan]
      BY <2>2 DEF Indices
    <3>2. QED
      BY <3>1 DEF QueuedAt, EventAt, EventAtHead
  <2>5. QueuedAt(scan, 0) \subseteq observed
    BY <2>2, <2>3, QueuedMember DEF SeenInv, Seen
  <2>6. \A u \in Threads : QueuedEdges(u)' \subseteq QueuedEdges(u)
    BY <2>1, QueuedStays
  <2>7. Taken' \subseteq Taken \cup QueuedAt(scan, 0)
    BY <2>1, <2>4 DEF Taken
  <2>8. QED
    BY <1>1, <2>5, <2>6, <2>7, SeenByWorker
<1>3. CASE AdvanceHead
  <2>1. Taken' = Taken
    BY <1>3 DEF AdvanceHead, graphVars, Taken
  <2>2. ASSUME NEW u \in Threads, NEW e \in QueuedEdges(u)'
        PROVE  e \in QueuedEdges(u)
    <3>1. CASE u = scan
      <4>1. PICK i \in 0..(Queued(u)' - 1) : e \in QueuedAt(u, i)'
        BY <2>2, QueuedMemberPrime
      <4>2. /\ Queued(u) \in Nat \ {0} /\ Queued(u)' = Queued(u) - 1
            /\ \A j \in Nat : events'[u][(head'[u] + j) % Capacity] = EventAt(u, j + 1)
        BY <1>3, <3>1, AdvanceEvents DEF EventAt, Queued
      <4>3. i \in Nat /\ i + 1 \in 0..(Queued(u) - 1)
        BY <4>1, <4>2
      <4>4. e \in QueuedAt(u, i + 1)
        BY <4>1, <4>2, <4>3 DEF QueuedAt, EventAt, EdgesTo
      <4>5. QED
        BY <4>3, <4>4, QueuedMember
    <3>2. CASE u # scan
      BY <1>3, <2>2, <3>2, AdvanceQueued
    <3>3. QED
      BY <3>1, <3>2
  <2>3. QED
    BY <1>1, <2>1, <2>2, SeenByWorker
<1>4. CASE ~DequeueEvent /\ ~AdvanceHead
  <2>1. UNCHANGED ringVars
    BY <1>4 DEF Worker, NextRing, FindCycle, ReportCycle, InsertEdge, DrainAgain,
       ClearPending, WorkFound, EndOrSleep, CheckQueue, EndWorker, WakeUp, FlushPending, Main,
       Shutdown, PostStop, JoinWorker, ResetWorker, vars
  <2>2. Taken' \subseteq Taken
    <3>1. CASE FindCycle \/ ReportCycle \/ InsertEdge
      BY <3>1 DEF FindCycle, ReportCycle, InsertEdge, graphVars, Taken
    <3>2. CASE ~FindCycle /\ ~ReportCycle /\ ~InsertEdge
      <4>1. UNCHANGED <<graph, reported, hand>>
        BY <3>2, GraphFrame
      <4>2. batch' \in {batch, {}}
        BY <1>4, <3>2 DEF Worker, NextRing, DrainAgain, ClearPending, LookAgain, WorkFound,
           EndOrSleep, CheckQueue, EndWorker, WakeUp, Restart, FlushPending, Main, Shutdown,
           PostStop, JoinWorker, ResetWorker, vars, workerVars
      <4>3. QED
        BY <4>1, <4>2 DEF Taken
    <3>3. QED
      BY <3>1, <3>2
  <2>3. \A u \in Threads : QueuedEdges(u)' \subseteq QueuedEdges(u)
    BY <2>1, QueuedStays
  <2>4. QED
    BY <1>1, <2>2, <2>3, SeenByWorker
<1>5. QED
  BY <1>2, <1>3, <1>4

LEMMA SeenInvariant == Spec => []SeenInv
<1>1. Init => SeenInv
  <2>1. SUFFICES ASSUME Init PROVE SeenInv
    OBVIOUS
  <2>2. ASSUME NEW t \in Threads
        PROVE  QueuedEdges(t) = {} /\ InHook(t) = {}
    <3>1. Queued(t) = 0
      BY <2>1, RbAssumption, RingArithmetic DEF Init, Queued, Indices
    <3>2. QED
      BY <2>1, <3>1 DEF Init, QueuedEdges, InHook, EdgesTo
  <2>3. QED
    BY <2>1, <2>2 DEF Init, SeenInv, Seen
<1>2. TypeInv /\ SeenInv /\ [Next]_vars => SeenInv'
  <2>1. SUFFICES ASSUME TypeInv, SeenInv, [Next]_vars PROVE SeenInv'
    OBVIOUS
  <2>2. CASE \E t \in Threads : Outside(t) \/ EnqueueEvent(t) \/ CreateWorker(t)
    BY <2>1, <2>2, OffersOutside, SeenByOffers
  <2>3. CASE Worker \/ FlushPending \/ Main \/ UNCHANGED vars
    BY <2>1, <2>3, SeenWorker
  <2>4. QED
    BY <2>1, <2>2, <2>3 DEF Next, Internal, Outside
<1>3. QED
  BY <1>1, <1>2, TypeInvariant, PTL DEF Spec

\* Whatever goes through the rings, a graph with a cycle has a report, printed or
\* about to be (lockdep_rb_report_cycle_if_any).
THEOREM CyclesAreNoticed == Spec => []CyclesNoticed
<1>1. Order!CyclesNoticed => CyclesNoticed
  <2>1. SUFFICES ASSUME Order!CyclesNoticed, Cyclic(graph), wpc # "report"
                 PROVE  reported # {}
    BY DEF CyclesNoticed
  <2>2. PICK e \in graph : ClosesCycle(graph, e)
    BY <2>1 DEF Cyclic
  <2>3. Order!ClosesCycle(graph \cup hand, e)
    BY <2>2 DEF ClosesCycle, Reaches, Closed, Order!ClosesCycle, Order!Reaches, Order!Closed
  <2>4. Order!Cyclic(graph \cup hand)
    BY <2>2, <2>3 DEF Order!Cyclic
  <2>5. QED
    BY <2>1, <2>4 DEF Order!CyclesNoticed
<1>2. QED
  BY <1>1, OrderAlways, PTL

\* The worker records only orders that some thread did acquire mutexes in, and
\* what it reports is a cycle of such orders: no slot of a ring is read before an
\* event is written to it, no event is taken for another, and nothing comes out
\* of a batch that did not go into a ring (lockdep_rb_enqueue_edge_batch,
\* lockdep_rb_drain_once, lockdep_rb_report_cycle_if_any).
THEOREM OrdersAreReal == Spec => []NothingInvented
<1>1. SeenInv /\ Order!ReportsOnCycles => NothingInvented
  <2>1. SUFFICES ASSUME SeenInv, Order!ReportsOnCycles
                 PROVE  NothingInvented
    OBVIOUS
  <2>2. graph \cup hand \subseteq observed /\ reported \subseteq observed
    BY <2>1 DEF SeenInv, Seen
  <2>3. ASSUME NEW e \in reported
        PROVE  ClosesCycle(observed, e)
    <3>1. Order!ClosesCycle(graph \cup hand, e)
      BY <2>1, <2>3 DEF Order!ReportsOnCycles
    <3>2. QED
      BY <2>2, <3>1 DEF ClosesCycle, Reaches, Closed, Order!ClosesCycle, Order!Reaches,
         Order!Closed
  <2>4. QED
    BY <2>2, <2>3 DEF NothingInvented
<1>2. QED
  BY <1>1, SeenInvariant, OrderAlways, PTL

=============================================================================
