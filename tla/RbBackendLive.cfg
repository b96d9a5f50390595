\* Two threads, two mutexes, one of them recursive, rings of one event, four
\* acquires; thread 1 is not joined.  Scheduling is fair inside the library.
SPECIFICATION FairSpec
CONSTANTS
    ThreadCount = 2
    Unjoined = {1}
    Locks = {m1, m2}
    NoLock = NoLock
    Recursive = {m1}
    Capacity = 1
    IndexModulus = 2
    StoreBuffers = FALSE
    FullPolicies = {"stall"}
    MaxHeldLockSlots = 2
    MaxAcquires = 4
CHECK_DEADLOCK FALSE
INVARIANTS
    SleepsOnlyWithoutWork
    StopWakesWorker
    ShutdownDrains
PROPERTIES
    EventuallyRecorded
    AcquiresEnd
    ShutdownEnds
