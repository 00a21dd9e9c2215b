CONSTANTS
    e1 = e1
    e2 = e2
    Execs = {e1, e2}
    Attempts = 2
    InlineCap = 2
    FailureCap = 2
    MaxLapses = 1
    MaxGrants = 1
    MaxSkips = 1
    MaxFaults = 1
SPECIFICATION FairSpec
INVARIANTS
    TypeOK
    NewestGrantKept
    CleanWhenActive
PROPERTIES
    DueIsHandled
