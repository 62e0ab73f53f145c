CONSTANTS
    Worker = {w1}
    Seed = {0, 1}
    MaxBits = 3
    MaxSearches = 1
    RuleLists <- MCRuleLists
    HashFn <- MCHashFn
    Frames <- MCFrames
    OldFiles <- MCOldFiles
SPECIFICATION Spec
INVARIANTS
    CollisionFreeValid
