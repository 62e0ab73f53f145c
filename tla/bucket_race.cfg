CONSTANTS
    c1 = c1
    c2 = c2
    a1 = a1
    a2 = a2
    a3 = a3
    NoAddr = NoAddr
    CPU = {c1, c2}
    Addr = {a1, a2, a3}
    TxDst = {a1, a2, a3}
    CfgHost = {a1, a2, a3, NoAddr}
    BktSz = 2
    AgeMod = 2
    PtrMod = 3
    MaxAllocs = 4
    MaxClock = 0
SPECIFICATION Spec
SYMMETRY Symmetry
INVARIANTS
    NoDuplicateKeys
    ExhaustedMeansFull
    QuiescentAuth
    StatesNotShared
    ChargesApart
    IInv
PROPERTIES
    AuthorizedKept
    SpuriousAcceptIsRacy
    ImplementsHostMap
