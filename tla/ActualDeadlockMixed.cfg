\* Every kind of mutex, buffered stores, a held stack that overflows.
SPECIFICATION Spec
CONSTANTS
    Threads = {t1, t2}
    Locks = {m1, m2, m3}
    NoThread = NoThread
    NoLock = NoLock
    Recursive = {m1}
    ErrorCheck = {m2}
    MayFail = {m2}
    CondMutexes = {m3}
    StoreBuffers = TRUE
    MaxThreadSlots = 2
    MaxHeldLockSlots = 3
SYMMETRY ThreadSymmetry
INVARIANTS
    HeldMirrorsMutexes
    WaitingOnlyWhileBlocking
\* pthread_cond_wait and recursion really can leave threads stuck (see README).
CHECK_DEADLOCK FALSE
