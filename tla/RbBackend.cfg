\* Two threads, four mutexes (so that both threads may have an order in hand, and
\* start the worker at once), rings of two events, four acquires, both policies;
\* the worker's store of work_pending may be late.
SPECIFICATION Spec
CONSTANTS
    ThreadCount = 2
    Unjoined = {}
    Locks = {m1, m2, m3, m4}
    NoLock = NoLock
    Recursive = {}
    Capacity = 2
    IndexModulus = 4
    StoreBuffers = TRUE
    FullPolicies = {"stall", "drop"}
    MaxHeldLockSlots = 2
    MaxAcquires = 4
SYMMETRY Symmetry
CHECK_DEADLOCK FALSE
INVARIANTS
    TypeOK
    NothingLost
    NothingInvented
    CyclesNoticed
    ReachIsClosure
PROPERTIES
    ImplementsLockOrder
    ImplementsEventQueues
