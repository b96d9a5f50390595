\* A report without a deadlock.
SPECIFICATION Spec
CONSTANTS
    Threads = {t1, t2}
    Locks = {m1, m2, m3}
    NoThread = NoThread
    NoLock = NoLock
    Recursive = {}
    ErrorCheck = {}
    MayFail = {}
    CondMutexes = {}
    StoreBuffers = FALSE
    MaxThreadSlots = 2
    MaxHeldLockSlots = 3
INVARIANT ReportedDeadlockIsReal
