SPECIFICATION Spec
CONSTANTS
    FieldBits = 15
    Prime = 32749
    A24 = 41
    ScalarBits = 16
    WordBits = 16
    Order = 4111
    Base <- MCBase
    LimbBits = 6
    Limbs = 2
    Folding <- MCFolding
    BlockBytes = 8
    LengthBytes = 2
    InitialState <- MCInitialState
    Compress <- MCCompress
    Party = {1, 2}
    Seeds <- MCSeeds
    Scalars <- MCScalars
    Messages <- MCMessages
    Foreign <- MCForeign
    MaxCalls = 4
INVARIANTS
    KeyPairConsistent
    SignedVerifies
    VerifyExact
    ExchangeExact
    ExchangeAgrees
    LimbsFit
    SignatureReduced
    NonceNeverShared
CHECK_DEADLOCK FALSE
