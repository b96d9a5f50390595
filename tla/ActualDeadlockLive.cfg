\* The fair detector on two threads and three mutexes, one of which may fail,
\* with call sites recorded or not.
SPECIFICATION FairSitesSpec
CONSTANTS
    Threads = {t1, t2}
    t1 = t1
    Locks = {m1, m2, m3}
    m1 = m1
    m2 = m2
    NoThread = NoThread
    NoLock = NoLock
    Recursive = {}
    ErrorCheck = {}
    MayFail = {m1}
    CondMutexes = {}
    StoreBuffers = FALSE
    MaxThreadSlots = 2
    MaxHeldLockSlots = 3
    Sites = {1, 2, 3, 4, 5, 6, 7}
    SitesOf <- MCSitesOf
    NoSite = NoSite
INVARIANTS
    SitesRightOrUnknown
    NoSiteLeftBehind
    ReportShowsRightSites
PROPERTY DeadlockEventuallyReported
