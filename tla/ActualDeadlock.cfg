\* Normal mutexes, sequentially consistent memory: cycles of up to three threads.
SPECIFICATION Spec
CONSTANTS
    Threads = {t1, t2, t3}
    Locks = {m1, m2, m3}
    NoThread = NoThread
    NoLock = NoLock
    Recursive = {}
    ErrorCheck = {}
    MayFail = {}
    CondMutexes = {}
    StoreBuffers = FALSE
    MaxThreadSlots = 3
    MaxHeldLockSlots = 3
SYMMETRY FullSymmetry
INVARIANTS
    TypeOK
    OwnerTracksHolder
    NoUndetectedDeadlock
    DetectorAlive
    ReportRealUnlessDisturbed
