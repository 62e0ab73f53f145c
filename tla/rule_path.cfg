CONSTANTS
    Worker = {w1, w2, w3}
    Seed = {0, 1}
    MaxBits = 3
    MaxSearches = 1
    RuleLists <- MCRuleLists
    HashFn <- MCHashFn
    Frames <- MCFrames
    OldFiles <- MCOldFiles
SPECIFICATION FairSpec
INVARIANTS
    SeedPerfectUnlessRaced
    SizeAttained
    OvershootByOne
    EnforcesActive
PROPERTIES
    FailsOnlySpoiled
    SearchEnds
