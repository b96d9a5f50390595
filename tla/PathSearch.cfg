\* All graphs on up to four lock slots, and all edges that may be added to them.
SPECIFICATION FairSpec
CONSTANT MaxLockSlots = 4
CHECK_DEADLOCK FALSE
INVARIANTS
    TypeOK
    SearchIsRight
    ChainIsPath
PROPERTY SearchEnds
