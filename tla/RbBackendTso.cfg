\* The worker's store of work_pending may be late.
SPECIFICATION Spec
CONSTANTS
    ThreadCount = 1
    Unjoined = {}
    Locks = {m1, m2}
    NoLock = NoLock
    Recursive = {}
    Capacity = 1
    IndexModulus = 2
    StoreBuffers = TRUE
    FullPolicies = {"stall", "drop"}
    MaxHeldLockSlots = 2
    MaxAcquires = 4
CHECK_DEADLOCK FALSE
INVARIANT SleepsOnlyWithoutWork
