CONSTANTS
    None = None
    Adapter = {a1, a2, a3}
    Module = {m1, m2, m3}
    Thread = {t1, t2}
SPECIFICATION FairLoadSpec
INVARIANTS
    SuspendQuiet
    RestartsRemembered
    DriverInv
PROPERTIES
    SuspendEnds
    UnloadEnds
CHECK_DEADLOCK FALSE
