------------------------------ MODULE RbBackend ------------------------------
(***************************************************************************)
(* The ring-buffer backend (the rb mode of potential.c).  A thread that    *)
(* acquires a mutex while it holds others compares the orders with the     *)
(* snapshot the worker publishes and puts the unknown ones, as one event,  *)
(* into its own ring.  The worker drains all rings into one batch, then    *)
(* looks for cycles and records the orders; it sleeps on a semaphore when  *)
(* there is nothing to do.                                                 *)
(*                                                                         *)
(* One step is one access to memory shared between threads, with the local *)
(* code around it; what the worker alone touches (its graph, the batch) is *)
(* local, and so is an event until tail shows it.  Memory is sequentially  *)
(* consistent, except that with StoreBuffers the worker's store of         *)
(* work_pending may stay in its store buffer while it goes on to read the  *)
(* rings, as on x86.                                                       *)
(*                                                                         *)
(* The worker processes the edges of a batch in any order here (the code's *)
(* order depends on slot numbers and arrival).  Sites are left out.        *)
(*                                                                         *)
(* The destructor runs when main returns or a thread calls exit, while the *)
(* threads nobody has joined go on.  When it has returned the process ends *)
(* at some time, which is the end of a behaviour here.                     *)
(***************************************************************************)
EXTENDS HeldStack, LockGraph

CONSTANTS
    ThreadCount,     \* application threads; their slots are 0, 1, ...
    Unjoined,        \* those that may still run when the destructor does
    NoLock,          \* no acquire in progress
    Recursive,       \* mutexes of type PTHREAD_MUTEX_RECURSIVE
    Capacity,        \* LOCKDEP_RB_CAPACITY
    IndexModulus,    \* 2^32, the range of head and tail
    StoreBuffers,    \* x86 instead of sequentially consistent memory
    FullPolicies,    \* settings of LOCKDEP_RB_FULL
    MaxHeldLockSlots, \* LOCKDEP_MAX_HELD_LOCK_SLOTS
    MaxAcquires      \* bound: how many mutexes the program acquires in all

\* An index has to wrap around where the ring does, and a full ring must not
\* look like an empty one.
ASSUME RbAssumption ==
    /\ ThreadCount \in Nat \ {0}
    /\ Unjoined \subseteq 0..(ThreadCount - 1)
    /\ NoLock \notin Locks
    /\ Recursive \subseteq Locks
    /\ Capacity \in Nat \ {0}
    /\ IndexModulus \in Nat
    /\ IndexModulus > Capacity
    /\ IndexModulus % Capacity = 0
    /\ StoreBuffers \in BOOLEAN
    /\ FullPolicies \subseteq {"stall", "drop"}
    /\ MaxHeldLockSlots \in Nat \ {0}
    /\ MaxAcquires \in Nat

Threads == 0..(ThreadCount - 1)

VARIABLES
    \* application threads
    held, new, pc,   \* as in GlobalGraph
    unknown,         \* from_bits of the event a thread is to enqueue
    acquires,        \* how many acquires there were
    observed,        \* history: every order some thread acquired mutexes in
    dropped,         \* history: every order in an event that was dropped
    owed,            \* history: what the worker had to do when the destructor began
    policy,          \* g_rb_full_policy
    \* the rings
    head, tail, events,
    \* the wake-up protocol
    workPending, wakeupSem, workerState, shouldStop,
    main,            \* where the main thread is in the shutdown
    \* the worker
    wpc,             \* where it is
    scan,            \* the thread slot whose ring it looks at
    second,          \* it is in the drain after clearing work_pending
    progress,        \* made_progress
    batch,           \* pending_from_bits, as edges
    hand,            \* the edge whose cycle it is reporting, if any
    late,            \* its store of 0 to work_pending is in the store buffer
    \* its graph
    graph,           \* adjacency, predecessors and published snapshot
    reach,           \* g_rb_reachability_bits
    reported         \* edges whose cycle has been printed

historyVars == <<acquires, observed, dropped, owed>>
ringVars    == <<head, tail, events>>
wakeVars    == <<workPending, wakeupSem, workerState, shouldStop>>
workerVars  == <<wpc, scan, second, progress, batch, hand, late>>
graphVars   == <<graph, reach, reported>>
vars == <<held, new, pc, unknown, policy, main, historyVars, ringVars, wakeVars, workerVars,
          graphVars>>

\* What an application thread's steps leave alone, and what the worker's do.
backVars == <<policy, main, workerVars, graphVars>>
appVars  == <<held, new, pc, unknown, policy, main, historyVars>>

Events == [to : Locks, from : SUBSET Locks]

\* What a slot of the ring holds before it is used.
NoEvent == [to |-> NoLock, from |-> {}]

Init ==
    /\ held     = [t \in Threads |-> << >>]
    /\ new      = [t \in Threads |-> NoLock]
    /\ pc       = [t \in Threads |-> "idle"]
    /\ unknown  = [t \in Threads |-> {}]
    /\ acquires = 0 /\ observed = {} /\ dropped = {} /\ owed = {}
    /\ policy \in FullPolicies
    /\ head = [t \in Threads |-> 0] /\ tail = [t \in Threads |-> 0]
    /\ events = [t \in Threads |-> [i \in 0..(Capacity - 1) |-> NoEvent]]
    /\ workPending = FALSE /\ wakeupSem = 0 /\ workerState = 0 /\ shouldStop = FALSE
    /\ main = "run"
    /\ wpc = "none" /\ scan = 0 /\ second = FALSE /\ progress = FALSE
    /\ batch = {} /\ hand = {} /\ late = FALSE
    /\ graph = {} /\ reach = [m \in Locks |-> {}] /\ reported = {}

-----------------------------------------------------------------------------
(* Application threads: lockdep_acquire_mutex and lockdep_release_mutex.   *)

Goto(t, point) == pc' = [pc EXCEPT ![t] = point]

\* held_lock_bits: the bitmap counts the entries of the stack.
HeldLocks(t) == {held[t][i] : i \in 1..Len(held[t])}

EdgesTo(from, m) == {<<l, m>> : l \in from}

\* The real mutex, of libc.
Available(t, m) ==
    /\ \A u \in Threads \ {t} : m \notin HeldLocks(u) /\ new[u] # m
    /\ m \in HeldLocks(t) => m \in Recursive

\* The orders in which t acquires m.
OrdersOf(t, m) == EdgesTo(HeldLocks(t) \ {m}, m)

\* A thread the program has joined has ended before the destructor.
Runs(t) == main = "run" \/ t \in Unjoined

\* A mutex has been acquired; with others held the backend is called.
Acquire(t, m) ==
    /\ pc[t] = "idle" /\ Runs(t)
    /\ Len(held[t]) < MaxHeldLockSlots
    /\ acquires < MaxAcquires
    /\ acquires' = acquires + 1
    /\ Available(t, m)
    /\ \/ /\ held[t] = << >>
          /\ held' = [held EXCEPT ![t] = <<m>>]
          /\ UNCHANGED <<new, pc, observed>>
       \/ /\ held[t] # << >>
          /\ new' = [new EXCEPT ![t] = m]
          /\ Goto(t, "collect")
          /\ observed' = observed \cup OrdersOf(t, m)
          /\ UNCHANGED held
    /\ UNCHANGED <<backVars, ringVars, wakeVars, unknown, dropped, owed>>

Release(t, m) ==
    /\ pc[t] = "idle" /\ Runs(t)
    /\ m \in HeldLocks(t)
    /\ held' = [held EXCEPT ![t] = RemoveHeld(@, m)]
    /\ UNCHANGED <<backVars, ringVars, wakeVars, historyVars, new, pc, unknown>>

\* lockdep_push_held_lock_slot, and the hook returns.
Push(t) ==
    /\ held' = [held EXCEPT ![t] = Append(@, new[t])]
    /\ new'  = [new EXCEPT ![t] = NoLock]
    /\ Goto(t, "idle")

\* The held locks but the new one itself.
Candidates(t) == HeldLocks(t) \ {new[t]}

\* lockdep_rb_collect_unknown_predecessors; the snapshot is the worker's graph.
Collect(t) ==
    /\ pc[t] = "collect"
    /\ LET news == {l \in Candidates(t) : <<l, new[t]>> \notin graph}
       IN  IF news = {}
           THEN Push(t) /\ UNCHANGED unknown
           ELSE /\ unknown' = [unknown EXCEPT ![t] = news]
                /\ Goto(t, "ensure")
                /\ UNCHANGED <<held, new>>
    /\ UNCHANGED <<backVars, ringVars, wakeVars, historyVars>>

-----------------------------------------------------------------------------
(* lockdep_rb_ensure_worker_started: 0 not started, 1 starting, 2 started. *)

\* The compare-and-swap from 0 to 1 has one winner.  The others wait until they
\* see 2, and do not try again.
EnsureWorkerStarted(t) ==
    /\ \/ /\ pc[t] \in {"ensure", "await"}
          /\ workerState = 2
          /\ Goto(t, "enqueue")
          /\ UNCHANGED workerState
       \/ /\ pc[t] = "ensure"
          /\ workerState = 1
          /\ Goto(t, "await")
          /\ UNCHANGED workerState
       \/ /\ pc[t] = "ensure"
          /\ workerState = 0
          /\ workerState' = 1
          /\ Goto(t, "create")
    /\ UNCHANGED <<backVars, ringVars, historyVars, held, new, unknown, workPending,
                   wakeupSem, shouldStop>>

\* sem_init; only the worker reads shouldStop, and there is none.
InitSemaphore(t) ==
    /\ pc[t] = "create"
    /\ wakeupSem' = 0 /\ shouldStop' = FALSE
    /\ Goto(t, "launch")
    /\ UNCHANGED <<backVars, ringVars, historyVars, held, new, unknown, workPending,
                   workerState>>

\* A new drain begins.
Restart == wpc' = "scan" /\ scan' = 0 /\ progress' = FALSE /\ batch' = {}

\* work_pending is cleared, and pthread_create.
CreateWorker(t) ==
    /\ pc[t] = "launch"
    /\ workPending' = FALSE
    /\ second' = FALSE
    /\ Restart
    /\ Goto(t, "started")
    /\ UNCHANGED <<ringVars, historyVars, graphVars, held, new, unknown, policy,
                   wakeupSem, shouldStop, workerState, main, hand, late>>

WorkerStarted(t) ==
    /\ pc[t] = "started"
    /\ workerState' = 2
    /\ Goto(t, "enqueue")
    /\ UNCHANGED <<backVars, ringVars, historyVars, held, new, unknown, workPending,
                   wakeupSem, shouldStop>>

-----------------------------------------------------------------------------
(* lockdep_rb_enqueue_edge_batch and lockdep_rb_signal_worker.             *)

Inc(i) == (i + 1) % IndexModulus

\* Unsigned subtraction.
Queued(t) == (tail[t] - head[t]) % IndexModulus

\* Mutant: one event too many.
OverfullRoom(t) == Queued(t) <= Capacity

\* Mutant: one event too few.
UnderfullRoom(t) == Queued(t) + 1 < Capacity

HasRoom(t) == Queued(t) < Capacity

\* The event is written into its slot, and the store of tail shows it to the
\* worker.
EnqueueEvent(t) ==
    /\ pc[t] = "enqueue"
    /\ HasRoom(t)
    /\ events' = [events EXCEPT ![t][tail[t] % Capacity] = [to |-> new[t], from |-> unknown[t]]]
    /\ tail' = [tail EXCEPT ![t] = Inc(@)]
    /\ unknown' = [unknown EXCEPT ![t] = {}]
    /\ Goto(t, "signal")
    /\ UNCHANGED <<backVars, wakeVars, historyVars, held, new, head>>

\* The worker is woken in either case; a stalled thread then looks again.
RingFull(t) ==
    /\ pc[t] = "enqueue"
    /\ ~HasRoom(t)
    /\ \/ /\ policy = "drop"
          /\ dropped' = dropped \cup EdgesTo(unknown[t], new[t])
          /\ unknown' = [unknown EXCEPT ![t] = {}]
          /\ Goto(t, "signal")
       \/ /\ policy = "stall"
          /\ Goto(t, "stall")
          /\ UNCHANGED <<unknown, dropped>>
    /\ UNCHANGED <<backVars, ringVars, wakeVars, held, new, acquires, observed, owed>>

\* lockdep_rb_signal_worker returns.
Signalled(t) ==
    IF pc[t] \in {"signal", "post"}
    THEN Push(t)
    ELSE Goto(t, "enqueue") /\ UNCHANGED <<held, new>>

\* Mutant: the result of the exchange is misread.
PostIfPending == workPending

\* The exchange returned 0.
MustPost == ~workPending

\* atomic_exchange(&g_rb_work_pending, 1)
SignalWorker(t) ==
    /\ pc[t] \in {"signal", "stall"}
    /\ workPending' = TRUE
    /\ IF MustPost
       THEN /\ Goto(t, IF pc[t] = "signal" THEN "post" ELSE "stall_post")
            /\ UNCHANGED <<held, new>>
       ELSE Signalled(t)
    /\ UNCHANGED <<backVars, ringVars, historyVars, unknown, wakeupSem, workerState,
                   shouldStop>>

\* sem_post.  On a semaphore destroyed meanwhile it does what it does on a live
\* one (glibc's sem_destroy is empty), and sem_init starts again from 0.
PostWorker(t) ==
    /\ pc[t] \in {"post", "stall_post"}
    /\ wakeupSem' = wakeupSem + 1
    /\ Signalled(t)
    /\ UNCHANGED <<backVars, ringVars, historyVars, unknown, workPending, workerState,
                   shouldStop>>

-----------------------------------------------------------------------------
(* lockdep_rb_drain_once: the rings in slot order, each until it is empty. *)

\* Mutant: the newest event.
EventAtTail(t) == events[t][(tail[t] + Capacity - 1) % Capacity]

EventAtHead(t) == events[t][head[t] % Capacity]

\* lockdep_rb_try_dequeue_event copies the event; then it moves head.
DequeueEvent ==
    /\ wpc = "scan" /\ scan < ThreadCount
    /\ head[scan] # tail[scan]
    /\ batch' = batch \cup EdgesTo(EventAtHead(scan).from, EventAtHead(scan).to)
    /\ progress' = TRUE
    /\ wpc' = "advance"
    /\ UNCHANGED <<appVars, ringVars, wakeVars, graphVars, scan, second, hand, late>>

AdvanceHead ==
    /\ wpc = "advance" /\ ~late
    /\ head' = [head EXCEPT ![scan] = Inc(@)]
    /\ wpc' = "scan"
    /\ UNCHANGED <<appVars, wakeVars, graphVars, tail, events, scan, second, progress,
                   batch, hand, late>>

NextRing ==
    /\ wpc = "scan" /\ scan < ThreadCount
    /\ head[scan] = tail[scan]
    /\ scan' = scan + 1
    /\ UNCHANGED <<appVars, ringVars, wakeVars, graphVars, wpc, second, progress, batch,
                   hand, late>>

-----------------------------------------------------------------------------
(* lockdep_rb_process_edge_bits and lockdep_rb_add_edge_if_new.            *)

Drained == wpc = "scan" /\ scan = ThreadCount

\* Mutant: the reachability bits are asked the wrong way round.
ClosesWrongWay(e) == e[2] \in reach[e[1]]

\* lockdep_rb_report_cycle_if_any: the bits, and a path as a confirmation.
FindsCycle(e) == e[1] \in reach[e[2]] /\ ClosesCycle(graph, e)

\* An edge that closes a cycle is reported before it is inserted.
FindCycle ==
    /\ Drained
    /\ \E e \in batch \ graph :
        /\ FindsCycle(e)
        /\ hand' = {e}
    /\ wpc' = "report"
    /\ UNCHANGED <<appVars, ringVars, wakeVars, graphVars, scan, second, progress, batch,
                   late>>

\* lockdep_report_potential_deadlock
ReportCycle ==
    /\ wpc = "report"
    /\ reported' = reported \cup hand
    /\ wpc' = "insert"
    /\ UNCHANGED <<appVars, ringVars, wakeVars, scan, second, progress, batch, hand, late,
                   graph, reach>>

\* Mutant: only from itself reaches the new locks.
ReachFromOnly(e) == [reach EXCEPT ![e[1]] = @ \cup reach[e[2]] \cup {e[2]}]

\* lockdep_rb_update_reachability: from, and whatever reaches from, now
\* reaches to and whatever to reaches.
UpdatedReach(e) ==
    [s \in Locks |-> IF s = e[1] \/ e[1] \in reach[s]
                     THEN reach[s] \cup reach[e[2]] \cup {e[2]}
                     ELSE reach[s]]

\* Adjacency, predecessors, snapshot (a locked instruction) and reachability;
\* only the snapshot is seen by other threads.
InsertEdge ==
    /\ ~late
    /\ \E e \in batch \ graph :
        /\ \/ wpc = "insert" /\ e \in hand
           \/ Drained /\ ~FindsCycle(e)
        /\ graph' = graph \cup {e}
        /\ reach' = UpdatedReach(e)
    /\ hand' = {}
    /\ wpc' = "scan"
    /\ UNCHANGED <<appVars, ringVars, wakeVars, scan, second, progress, batch, late, reported>>

-----------------------------------------------------------------------------
(* lockdep_rb_worker_main.                                                 *)

\* Every edge of the batch has been added, or was known.
DrainDone == Drained /\ batch \subseteq graph

\* while (lockdep_rb_drain_once()) ;
DrainAgain ==
    /\ DrainDone /\ progress /\ ~second
    /\ Restart
    /\ UNCHANGED <<appVars, ringVars, wakeVars, graphVars, second, hand, late>>

\* Mutant: the rings are not looked at again.
NoSecondLook == wpc' = "scan" /\ scan' = ThreadCount /\ progress' = FALSE /\ batch' = {}

LookAgain == Restart

\* Nothing left: clear work_pending, and look again.
ClearPending ==
    /\ DrainDone /\ ~progress /\ ~second
    /\ IF StoreBuffers
       THEN late' = TRUE /\ UNCHANGED workPending
       ELSE workPending' = FALSE /\ UNCHANGED late
    /\ second' = TRUE
    /\ LookAgain
    /\ UNCHANGED <<appVars, ringVars, graphVars, wakeupSem, workerState, shouldStop, hand>>

\* The store buffer is emptied.
FlushPending ==
    /\ late
    /\ workPending' = FALSE
    /\ late' = FALSE
    /\ UNCHANGED <<appVars, ringVars, graphVars, wakeupSem, workerState, shouldStop, wpc,
                   scan, second, progress, batch, hand>>

\* The second look found something: set work_pending, and start over.
WorkFound ==
    /\ DrainDone /\ progress /\ second /\ ~late
    /\ workPending' = TRUE
    /\ second' = FALSE
    /\ Restart
    /\ UNCHANGED <<appVars, ringVars, graphVars, wakeupSem, workerState, shouldStop, hand,
                   late>>

\* The worker waits, unless it is to stop: then it looks at the queues.
EndOrSleep ==
    /\ DrainDone /\ ~progress /\ second
    /\ IF shouldStop
       THEN wpc' = "check" /\ scan' = 0
       ELSE wpc' = "sleep" /\ UNCHANGED scan
    /\ UNCHANGED <<appVars, ringVars, wakeVars, graphVars, second, progress, batch, hand,
                   late>>

\* Mutant: the queues are not looked at.
QueueIgnored(t) == TRUE

QueueEmpty(t) == head[t] = tail[t]

\* lockdep_rb_all_queues_empty: the next ring.
CheckQueue ==
    /\ wpc = "check" /\ scan < ThreadCount
    /\ IF QueueEmpty(scan)
       THEN scan' = scan + 1 /\ UNCHANGED wpc
       ELSE wpc' = "sleep" /\ UNCHANGED scan
    /\ UNCHANGED <<appVars, ringVars, wakeVars, graphVars, second, progress, batch, hand,
                   late>>

\* All of them were empty.
EndWorker ==
    /\ wpc = "check" /\ scan = ThreadCount /\ ~late
    /\ wpc' = "exited"
    /\ UNCHANGED <<appVars, ringVars, wakeVars, graphVars, scan, second, progress, batch,
                   hand, late>>

\* sem_wait returns.
WakeUp ==
    /\ wpc = "sleep" /\ ~late
    /\ wakeupSem > 0
    /\ wakeupSem' = wakeupSem - 1
    /\ second' = FALSE
    /\ Restart
    /\ UNCHANGED <<appVars, ringVars, graphVars, workPending, workerState, shouldStop, hand,
                   late>>

-----------------------------------------------------------------------------
(* lockdep_potential_shutdown, called by the destructor.                   *)

EventAt(t, i) == events[t][(head[t] + i) % Capacity]

\* The events between head and tail.
QueuedEdges(t) ==
    UNION {EdgesTo(EventAt(t, i).from, EventAt(t, i).to) : i \in 0..(Queued(t) - 1)}

\* A thread that was joined is outside the hooks, for good, and holds nothing.
\* (The worker does not look at mutexes, and one left locked could only keep
\* the threads still running from an acquire.)
Shutdown ==
    /\ main = "run"
    /\ \A t \in Threads \ Unjoined : pc[t] = "idle" /\ held[t] = << >>
    /\ IF workerState = 2
       THEN /\ main' = "post" /\ shouldStop' = TRUE
            /\ owed' = batch \cup UNION {QueuedEdges(t) : t \in Threads}
       ELSE main' = "done" /\ UNCHANGED <<shouldStop, owed>>
    /\ UNCHANGED <<workerVars, ringVars, acquires, observed, dropped, graphVars, held, new,
                   unknown, pc, policy, workPending, wakeupSem, workerState>>

\* Mutant: the worker is not woken for the shutdown.
PostNothing == UNCHANGED wakeupSem

PostForStop == wakeupSem' = wakeupSem + 1

PostStop ==
    /\ main = "post"
    /\ PostForStop
    /\ main' = "join"
    /\ UNCHANGED <<workerVars, ringVars, historyVars, graphVars, held, new, unknown, pc,
                   policy, workPending, workerState, shouldStop>>

\* pthread_join, and sem_destroy.
JoinWorker ==
    /\ main = "join"
    /\ wpc = "exited"
    /\ main' = "reset"
    /\ UNCHANGED <<workerVars, ringVars, historyVars, graphVars, held, new, unknown, pc,
                   policy, wakeVars>>

\* From here on a thread may start another worker.
ResetWorker ==
    /\ main = "reset"
    /\ workerState' = 0
    /\ main' = "done"
    /\ UNCHANGED <<workerVars, ringVars, historyVars, graphVars, held, new, unknown, pc,
                   policy, workPending, wakeupSem, shouldStop>>

-----------------------------------------------------------------------------
\* One step of thread t inside the hooks.
Internal(t) ==
    \/ Collect(t)
    \/ EnsureWorkerStarted(t) \/ InitSemaphore(t) \/ CreateWorker(t) \/ WorkerStarted(t)
    \/ EnqueueEvent(t) \/ RingFull(t) \/ SignalWorker(t) \/ PostWorker(t)

Worker ==
    \/ DequeueEvent \/ AdvanceHead \/ NextRing \/ FindCycle \/ ReportCycle \/ InsertEdge
    \/ DrainAgain \/ ClearPending \/ WorkFound
    \/ EndOrSleep \/ CheckQueue \/ EndWorker \/ WakeUp

Main == Shutdown \/ PostStop \/ JoinWorker \/ ResetWorker

Next ==
    \/ \E t \in Threads :
        \/ \E m \in Locks : Acquire(t, m) \/ Release(t, m)
        \/ Internal(t)
    \/ Worker
    \/ FlushPending
    \/ Main

Spec == Init /\ [][Next]_vars

\* Inside the library every thread goes on; a store buffer is emptied in the
\* end.  The program may stop acquiring and releasing mutexes at any time, and
\* it need not end, but once it is shutting down it goes on.
FairSpec ==
    /\ Spec
    /\ \A t \in Threads : WF_vars(Internal(t))
    /\ WF_vars(Worker)
    /\ WF_vars(FlushPending)
    /\ WF_vars(PostStop) /\ WF_vars(JoinWorker) /\ WF_vars(ResetWorker)

-----------------------------------------------------------------------------
(* Properties. *)

Points == {"idle", "collect", "ensure", "await", "create", "launch", "started", "enqueue",
           "signal", "post", "stall", "stall_post"}

AppTypes ==
    /\ held     \in [Threads -> Seq(Locks)]
    /\ new      \in [Threads -> Locks \cup {NoLock}]
    /\ pc       \in [Threads -> Points]
    /\ unknown  \in [Threads -> SUBSET Locks]
    /\ acquires \in 0..MaxAcquires
    /\ policy   \in {"stall", "drop"}
    /\ \A t \in Threads : pc[t] # "idle" <=> new[t] # NoLock

RingTypes ==
    /\ head   \in [Threads -> 0..(IndexModulus - 1)]
    /\ tail   \in [Threads -> 0..(IndexModulus - 1)]
    /\ events \in [Threads -> [0..(Capacity - 1) -> Events \cup {NoEvent}]]
    /\ \A t \in Threads : Queued(t) <= Capacity

WakeTypes ==
    /\ workPending \in BOOLEAN
    /\ wakeupSem \in Nat
    /\ workerState \in {0, 1, 2}
    /\ shouldStop \in BOOLEAN
    /\ main \in {"run", "post", "join", "reset", "done"}

WorkerTypes ==
    /\ wpc \in {"none", "scan", "advance", "report", "insert", "sleep", "check", "exited"}
    /\ scan \in 0..ThreadCount
    /\ second \in BOOLEAN /\ progress \in BOOLEAN /\ late \in BOOLEAN
    /\ wpc = "advance" => scan < ThreadCount /\ head[scan] # tail[scan]
    /\ wpc \in {"report", "insert"} <=> hand # {}

GraphTypes ==
    /\ observed \cup dropped \cup owed \subseteq Edges
    /\ batch \cup hand \cup graph \cup reported \subseteq Edges
    /\ reach \in [Locks -> SUBSET Locks]

\* Every variable has its type, the worker is in the places of a drain only
\* with what belongs there, and a ring never holds more than it has slots.
TypeOK == AppTypes /\ RingTypes /\ WakeTypes /\ WorkerTypes /\ GraphTypes

\* The orders a thread is still to enqueue.
InHook(t) ==
    IF pc[t] = "collect" THEN OrdersOf(t, new[t]) ELSE EdgesTo(unknown[t], new[t])

\* No order gets lost on its way through snapshot, ring, batch and graph: what
\* was observed is recorded, or on its way, or was dropped as the policy says.
NothingLost ==
    /\ observed \subseteq graph \cup batch \cup dropped
                            \cup UNION {QueuedEdges(t) \cup InHook(t) : t \in Threads}
    /\ policy = "stall" => dropped = {}

\* The incremental reachability is the transitive closure of the graph, on
\* cyclic graphs too.
ReachIsClosure ==
    \A a, b \in Locks :
        b \in reach[a] <=> \E e \in graph : e[1] = a /\ Reaches(graph, e[2], b)

\* Nothing is invented: the worker records only orders that some thread really
\* did acquire mutexes in, and each edge it reports lies on a cycle of such orders.
NothingInvented ==
    /\ graph \cup hand \subseteq observed
    /\ \A e \in reported : e \in observed /\ ClosesCycle(observed, e)

\* A cyclic graph never goes unnoticed, although the worker asks only the bits,
\* and only about the edge it is adding: a cycle has been printed, or the worker
\* is about to.
CyclesNoticed == Cyclic(graph) => reported # {} \/ wpc = "report"

\* The worker waits, and nothing has been posted.  (sem_wait empties the store
\* buffer.)
Asleep == wpc = "sleep" /\ ~late /\ wakeupSem = 0

\* A thread is on its way to post.
PostComing ==
    \E t \in Threads :
        \/ pc[t] \in {"post", "stall_post"}
        \/ pc[t] \in {"signal", "stall"} /\ ~workPending

\* The worker never sleeps on work: if an event is queued while it waits in
\* sem_wait, a thread is on its way to post.
SleepsOnlyWithoutWork == Asleep /\ (\E t \in Threads : head[t] # tail[t]) => PostComing

\* The destructor does not wait for a worker that waits for ever: one that sleeps
\* although the stop has been posted has found a queue that was not empty, and a
\* thread is on its way to post.
StopWakesWorker == main = "join" /\ Asleep => PostComing

\* When the destructor has joined the worker, everything that had been put into
\* a ring before it set the stop flag is recorded, whatever the threads that are
\* still running put there meanwhile.
ShutdownDrains == main \in {"reset", "done"} => owed \subseteq graph

\* The worker implements LockOrder: an order is recorded when the worker has
\* looked for its cycle.
Abstract == INSTANCE LockOrder WITH
    recorded <- graph \cup hand,
    pending  <- IF wpc = "report" THEN hand ELSE {}

ImplementsLockOrder == Abstract!Spec

\* The event the worker has copied and not yet moved head past.
Copied(t) == IF wpc = "advance" /\ scan = t THEN 1 ELSE 0

\* What is in t's ring, oldest first.
EventQueue(t) ==
    [i \in 1..(Queued(t) - Copied(t)) |-> EventAt(t, Copied(t) + (i - 1))]

Queues == INSTANCE EventQueues WITH
    Producers <- Threads,
    queue     <- [t \in Threads |-> EventQueue(t)],
    recorded  <- graph

\* The rings, with their two indices that wrap around and are moved by two
\* threads without a lock, implement bounded first-in-first-out queues, and the
\* worker empties them into batches that it finishes.
ImplementsEventQueues == Queues!Spec

\* If the threads get out of the hooks for good, a stalling backend has
\* recorded every order in the end, unless the process ends before.  (While a
\* thread goes on offering an order the worker may be draining its ring for
\* ever.)
EventuallyRecorded ==
    policy = "stall" /\ <>[](\A t \in Threads : pc[t] = "idle")
        => <>[](main = "done" \/ observed \subseteq graph)

\* A thread gets through its acquire, full ring or not, if the others do not
\* keep the worker busy and the process does not end.
AcquiresEnd ==
    \A t \in Threads :
        <>[](\A u \in Threads \ {t} : pc[u] = "idle")
            => []<>(pc[t] = "idle" \/ main = "done")

\* The destructor returns, although threads that are still running go on
\* enqueuing for a while (acquires are bounded).
ShutdownEnds == (main = "post") ~> (main = "done")

=============================================================================
