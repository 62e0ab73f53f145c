CONSTANTS
    c1 = c1
    a1 = a1
    a2 = a2
    a3 = a3
    NoAddr = NoAddr
    CPU = {c1}
    Addr = {a1, a2, a3}
    TxDst = {a1, a2}
    CfgHost = {a1, NoAddr}
    BktSz = 2
    AgeMod = 2
    PtrMod = 4
    MaxAllocs = 3
    MaxClock = 3
SPECIFICATION FairSpec
PROPERTIES
    EvictsOldest
    FrameDecided
