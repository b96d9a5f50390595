\* A mutex handed to pthread_cond_wait: a deadlock nobody reports.
SPECIFICATION Spec
CONSTANTS
    Threads = {t1, t2}
    Locks = {m1, m2}
    NoThread = NoThread
    NoLock = NoLock
    Recursive = {}
    ErrorCheck = {}
    MayFail = {}
    CondMutexes = {m1}
    StoreBuffers = FALSE
    MaxThreadSlots = 2
    MaxHeldLockSlots = 2
INVARIANT NoUndetectedDeadlock
CHECK_DEADLOCK FALSE
