CONSTANTS
    c1 = c1
    a1 = a1
    NoAddr = NoAddr
    CPU = {c1}
    Addr = {a1}
    TxDst = {a1}
    CfgHost = {a1}
    BktSz = 2
    AgeMod = 2
    PtrMod = 3
    MaxAllocs = 2
    MaxClock = 0
SPECIFICATION Spec
PROPERTIES
    ConfigureInvalidates
