CONSTANTS
    N = 5
    Edges <- MCEdges
    ActionNodes = {2, 3}
    SkippedNodes = {5}
    Attempts = 2
    MaxStalls = 0
SPECIFICATION FairSpec
INVARIANTS
    TypeOK
    AtMostOneRecordedEffect
    SettledExecution
    SuccessIsComplete
PROPERTIES
    KeepsContract
    RowSettles
CHECK_DEADLOCK FALSE
