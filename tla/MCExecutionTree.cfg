CONSTANTS
    root = root
    s = s
    i1 = i1
    i2 = i2
    j1 = j1
    j2 = j2
    k = k
    y = y
    z = z
    Runs <- MCRuns
    Root = root
    Plan <- MCPlan
    MaxSteps = 5
    MaxDepth = 2
    Attempts = 2
    MaxFaults = 2
    MaxTimeouts = 1
SPECIFICATION FairSpec
INVARIANTS
    TypeOK
    EffectsOnce
    SuccessIsDeep
    ItemsInOrder
    OverflowIsFatal
    OrphansWereUnwound
PROPERTIES
    RootSettles
