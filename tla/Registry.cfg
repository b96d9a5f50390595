\* Two threads at a time with three tids; three mutexes, two of which share a
\* cache entry; two slots for each kind.
SPECIFICATION Spec
CONSTANTS
    Threads = {t1, t2}
    Tids = {p, q, r}
    Mutexes = {m1, m2, m3}
    m1 = m1
    m2 = m2
    Unseen = {m2}
    CondMutexes = {m2}
    NoThread = NoThread
    Gone = Gone
    NoTid = NoTid
    NullAddr = NullAddr
    CacheIndex <- MCCacheIndex
    CacheEntries = 2
    MaxLockSlots = 2
    MaxThreadSlots = 2
    MaxCalls = 6
SYMMETRY MCSymmetry
CHECK_DEADLOCK FALSE
INVARIANTS
    TypeOK
    SlotsAreRight
    ReportNamesAreRight
    MetaLockGivenBack
PROPERTIES
    LockSlotsAreATable
    ThreadSlotsAreATable
