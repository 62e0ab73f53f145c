CONSTANTS
    CPU = {c1, c2, c3}
    HPOOL_GROW = 4
    MaxAllocs = 14
SPECIFICATION FairSpec
INVARIANTS
    IndexBacked
    GrowersSerialised
    PoolInv
PROPERTIES
    WaitEnds
CHECK_DEADLOCK FALSE
