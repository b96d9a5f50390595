\* Two threads nest four mutexes, one of them recursive, in up to four orders.
\* (A cycle whose last two edges are inserted at the same time needs four.)
SPECIFICATION Spec
CONSTANTS
    Threads = {t1, t2}
    Locks = {m1, m2, m3, m4}
    NoThread = NoThread
    NoLock = NoLock
    Recursive = {m1}
    MaxHeldLockSlots = 3
    MaxOrders = 4
SYMMETRY Symmetry
INVARIANTS
    TypeOK
    PredecessorsMatchGraph
    HeldOrdersRecorded
    GraphIsObserved
    CyclesNoticed
PROPERTY ImplementsLockOrder
