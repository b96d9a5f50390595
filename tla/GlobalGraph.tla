----------------------------- MODULE GlobalGraph -----------------------------
(***************************************************************************)
(* The synchronous potential-deadlock backend (graph.c and the global mode *)
(* of potential.c): a thread that acquires a mutex while it holds others   *)
(* checks, without a lock, whether the orders are already known, and if    *)
(* not inserts them one by one under the metadata spin lock, looking for a *)
(* cycle before each insertion.                                            *)
(*                                                                         *)
(* One step is one atomic access to shared memory, or the code under the   *)
(* spin lock up to the next access that other threads see without it.  The *)
(* depth-first search is its result here.  Sites are left out, and so is   *)
(* the registry, which shares the spin lock.                               *)
(***************************************************************************)
EXTENDS HeldStack, LockGraph, FiniteSets

CONSTANTS
    Threads,
    NoThread,        \* the metadata spin lock is free
    NoLock,          \* no acquire in progress
    Recursive,       \* mutexes of type PTHREAD_MUTEX_RECURSIVE
    MaxHeldLockSlots, \* LOCKDEP_MAX_HELD_LOCK_SLOTS
    MaxOrders        \* bound: how many different orders the program nests

ASSUME GlobalGraphAssumption ==
    /\ NoThread \notin Threads
    /\ NoLock \notin Locks
    /\ Recursive \subseteq Locks
    /\ MaxHeldLockSlots \in Nat \ {0}
    /\ MaxOrders \in Nat

VARIABLES
    held,      \* held_lock_slots of each thread, in the order of acquisition
    new,       \* the mutex each thread has just got and is recording
    pc,        \* where each thread is in lockdep_potential_on_acquire
    idx,       \* its loop index over the held locks (1-based)
    found,     \* its local found_cycle
    meta,      \* g_meta_lock: the thread that holds it
    graph,     \* g_dependency_graph
    pred,      \* g_dependency_predecessor_bits
    reported,  \* edges whose cycle has been printed
    observed,  \* history: every order some thread acquired mutexes in
    blocking   \* history: those in which pthread_mutex_lock acquired the later one

history == <<observed, blocking>>

vars == <<held, new, pc, idx, found, meta, graph, pred, reported, history>>

Points == {"idle", "check", "add", "search", "insert", "publish", "unlock", "report"}

Init ==
    /\ held     = [t \in Threads |-> << >>]
    /\ new      = [t \in Threads |-> NoLock]
    /\ pc       = [t \in Threads |-> "idle"]
    /\ idx      = [t \in Threads |-> 1]
    /\ found    = [t \in Threads |-> FALSE]
    /\ meta     = NoThread
    /\ graph    = {}
    /\ pred     = [m \in Locks |-> {}]
    /\ reported = {}
    /\ observed = {} /\ blocking = {}

-----------------------------------------------------------------------------
Goto(t, point) == pc' = [pc EXCEPT ![t] = point]

\* The edge t's loop is at.
Edge(t) == <<held[t][idx[t]], new[t]>>

InLoop(t) == idx[t] <= Len(held[t])

\* for (...) i++
NextHeld(t) == idx' = [idx EXCEPT ![t] = @ + 1]

\* The real mutex, of libc: nobody else has it, and the thread itself only if
\* it is recursive.
Available(t, m) ==
    /\ \A u \in Threads \ {t} : ~Lists(held[u], m) /\ new[u] # m
    /\ Lists(held[t], m) => m \in Recursive

\* The orders in which t acquires m.
OrdersOf(t, m) == {<<held[t][i], m>> : i \in {j \in 1..Len(held[t]) : held[t][j] # m}}

\* A mutex has been acquired; with others held its orders are recorded, whichever
\* function did it.  (Only pthread_mutex_lock would have waited for the mutex.)
Acquire(t, m, f) ==
    /\ pc[t] = "idle"
    /\ Len(held[t]) < MaxHeldLockSlots
    /\ Cardinality(observed \cup OrdersOf(t, m)) <= MaxOrders
    /\ Available(t, m)
    /\ \/ /\ held[t] = << >>
          /\ held' = [held EXCEPT ![t] = <<m>>]
          /\ UNCHANGED <<new, pc, idx, history>>
       \/ /\ held[t] # << >>
          /\ new' = [new EXCEPT ![t] = m]
          /\ Goto(t, "check")
          /\ idx' = [idx EXCEPT ![t] = 1]
          /\ observed' = observed \cup OrdersOf(t, m)
          /\ blocking' = IF f = "lock" THEN blocking \cup OrdersOf(t, m) ELSE blocking
          /\ UNCHANGED held
    /\ UNCHANGED <<found, meta, graph, pred, reported>>

\* lockdep_push_held_lock_slot, and the hook returns.
Push(t) ==
    /\ held' = [held EXCEPT ![t] = Append(@, new[t])]
    /\ new'  = [new EXCEPT ![t] = NoLock]
    /\ Goto(t, "idle")
    /\ idx'  = [idx EXCEPT ![t] = 1]

Release(t, m) ==
    /\ pc[t] = "idle"
    /\ Lists(held[t], m)
    /\ held' = [held EXCEPT ![t] = RemoveHeld(@, m)]
    /\ UNCHANGED <<new, pc, idx, found, meta, graph, pred, reported, history>>

-----------------------------------------------------------------------------
(* lockdep_global_has_unknown_predecessor: one bit after the other.        *)

\* Mutant: the order of acquisition is mixed up.
KnownBackwards(t) == new[t] \in pred[held[t][idx[t]]]

\* lockdep_global_bit_test of the loop's predecessor.
Known(t) == held[t][idx[t]] \in pred[new[t]]

CheckPredecessor(t) ==
    /\ pc[t] = "check" /\ InLoop(t)
    /\ IF held[t][idx[t]] = new[t] \/ Known(t)
       THEN NextHeld(t) /\ UNCHANGED pc
       ELSE Goto(t, "add") /\ idx' = [idx EXCEPT ![t] = 1]
    /\ UNCHANGED <<held, new, found, meta, graph, pred, reported, history>>

\* The loop over the held locks ends: everything was known, or is by now.
FinishAcquire(t) ==
    /\ pc[t] \in {"check", "add"} /\ ~InLoop(t)
    /\ Push(t)
    /\ UNCHANGED <<found, meta, graph, pred, reported, history>>

-----------------------------------------------------------------------------
(* lockdep_global_on_acquire and lockdep_add_edge_and_check_cycle.         *)

\* Mutant: a recursive acquire is not told apart.
AlwaysProper(t) == TRUE

\* from_lock_slot != to_lock_slot
ProperEdge(t) == held[t][idx[t]] # new[t]

SkipSelf(t) ==
    /\ pc[t] = "add" /\ InLoop(t)
    /\ ~ProperEdge(t)
    /\ NextHeld(t)
    /\ UNCHANGED <<held, new, pc, found, meta, graph, pred, reported, history>>

\* Mutant: the spin lock is not waited for.
MetaIgnored(t) == TRUE

MetaFree(t) == meta = NoThread

\* lockdep_meta_lock
LockMeta(t) ==
    /\ pc[t] = "add" /\ InLoop(t)
    /\ ProperEdge(t)
    /\ MetaFree(t)
    /\ meta' = t
    /\ Goto(t, "search")
    /\ UNCHANGED <<held, new, idx, found, graph, pred, reported, history>>

\* Mutant: a path from -> to is looked for instead of to -> from.
CycleWrongWay(e) == Reaches(graph, e[1], e[2])

\* lockdep_find_path_locked(to, from)
FindsCycle(e) == ClosesCycle(graph, e)

\* A known edge is left alone; for a new one a cycle is looked for.
SearchPath(t) ==
    /\ pc[t] = "search"
    /\ IF Edge(t) \in graph
       THEN Goto(t, "unlock") /\ UNCHANGED found
       ELSE Goto(t, "insert") /\ found' = [found EXCEPT ![t] = FindsCycle(Edge(t))]
    /\ UNCHANGED <<held, new, idx, meta, graph, pred, reported, history>>

InsertEdge(t) ==
    /\ pc[t] = "insert"
    /\ graph' = graph \cup {Edge(t)}
    /\ Goto(t, "publish")
    /\ UNCHANGED <<held, new, idx, found, meta, pred, reported, history>>

\* Mutant: the bit is set in the wrong row.
PublishBackwards(e) == pred' = [pred EXCEPT ![e[1]] = @ \cup {e[2]}]

\* atomic_fetch_or(&g_dependency_predecessor_bits[to], bit(from))
PublishPredecessor(e) == pred' = [pred EXCEPT ![e[2]] = @ \cup {e[1]}]

Publish(t) ==
    /\ pc[t] = "publish"
    /\ PublishPredecessor(Edge(t))
    /\ Goto(t, "unlock")
    /\ UNCHANGED <<held, new, idx, found, meta, graph, reported, history>>

\* lockdep_meta_unlock; a cycle is reported after it.
UnlockMeta(t) ==
    /\ pc[t] = "unlock"
    /\ meta' = NoThread
    /\ IF found[t]
       THEN Goto(t, "report") /\ UNCHANGED idx
       ELSE Goto(t, "add") /\ NextHeld(t)
    /\ UNCHANGED <<held, new, found, graph, pred, reported, history>>

\* lockdep_report_potential_deadlock
Report(t) ==
    /\ pc[t] = "report"
    /\ reported' = reported \cup {Edge(t)}
    /\ found' = [found EXCEPT ![t] = FALSE]
    /\ Goto(t, "add")
    /\ NextHeld(t)
    /\ UNCHANGED <<held, new, meta, graph, pred, history>>

-----------------------------------------------------------------------------
Internal(t) ==
    \/ CheckPredecessor(t) \/ FinishAcquire(t) \/ SkipSelf(t) \/ LockMeta(t)
    \/ SearchPath(t) \/ InsertEdge(t) \/ Publish(t) \/ UnlockMeta(t) \/ Report(t)

Functions == {"lock", "trylock"}

Call(t, m) == (\E f \in Functions : Acquire(t, m, f)) \/ Release(t, m)

Next == \E t \in Threads : Internal(t) \/ \E m \in Locks : Call(t, m)

Spec == Init /\ [][Next]_vars

-----------------------------------------------------------------------------
(* Properties. *)

\* Every variable has its type, and a thread in the loop body has an edge.
TypeOK ==
    /\ held     \in [Threads -> Seq(Locks)]
    /\ new      \in [Threads -> Locks \cup {NoLock}]
    /\ pc       \in [Threads -> Points]
    /\ idx      \in [Threads -> Nat \ {0}]
    /\ found    \in [Threads -> BOOLEAN]
    /\ meta     \in Threads \cup {NoThread}
    /\ graph    \subseteq Edges
    /\ pred     \in [Locks -> SUBSET Locks]
    /\ reported \subseteq Edges
    /\ observed \subseteq Edges
    /\ blocking \subseteq Edges
    /\ \A t \in Threads : pc[t] # "idle" => new[t] \in Locks
    /\ \A t \in Threads : pc[t] \notin {"idle", "check", "add"} =>
            InLoop(t) /\ Edge(t) \in Edges

\* The matrix and the published predecessor bits say the same, but for the
\* edge a thread under the spin lock has inserted and not published: the
\* lock-free check never skips an edge that is not in the graph.
PredecessorsMatchGraph ==
    \A a, b \in Locks :
        /\ a \in pred[b] => <<a, b>> \in graph
        /\ <<a, b>> \in graph =>
              \/ a \in pred[b]
              \/ \E t \in Threads : pc[t] = "publish" /\ Edge(t) = <<a, b>>

\* A thread never gets past an acquire with an order unrecorded: for every
\* two locks it holds, the edge from the earlier to the later is in the graph.
HeldOrdersRecorded ==
    \A t \in Threads : \A i, j \in 1..Len(held[t]) :
        i < j /\ held[t][i] # held[t][j] => <<held[t][i], held[t][j]>> \in graph

\* The graph holds nothing but orders that threads really acquired locks in, and
\* once nobody is recording it holds all those in which a thread would have waited
\* for the later mutex.  (Whether the others, of a trylock, belong in it is left
\* open: see NoReportWithoutBlocking.)
GraphIsObserved ==
    /\ graph \subseteq observed
    /\ (\A t \in Threads : pc[t] = "idle") => blocking \subseteq graph

\* What test/README.md:72-76 says of the backends: inverted orders are no (potential)
\* deadlock if nobody blocks for them.  Not so: pthread_mutex_trylock records its
\* orders like pthread_mutex_lock, and a cycle of them is reported.  No run checks
\* this definition; README.md shows the trace.
NoReportWithoutBlocking == blocking = {} => reported = {}

\* A cyclic graph never goes unnoticed: a cycle has been printed, or the
\* thread that found one is on its way to print it.  (The search and the
\* insertion are two steps; only the spin lock keeps two threads from missing
\* the cycle that their edges close together.)
CyclesNoticed ==
    Cyclic(graph) => reported # {} \/ \E t \in Threads : found[t]

\* A report's edge lies on a cycle of recorded orders.
ReportsOnCycles == \A e \in reported : ClosesCycle(graph, e)

\* The backend implements the abstract one: the insertion into the matrix is
\* its Record, and a cycle is pending from then until it is printed.
Pending == {Edge(t) : t \in {u \in Threads : found[u] /\ pc[u] # "insert"}}

Abstract == INSTANCE LockOrder WITH recorded <- graph, pending <- Pending

ImplementsLockOrder == Abstract!Spec

=============================================================================
