CONSTANTS
    h1 = h1
    h2 = h2
    Handlers = {h1, h2}
    SeatAttempts = 2
    MaxMembers = 2
    MaxChanges = 2
    MaxEvents = 3
    MaxFaults = 1
SPECIFICATION Spec
INVARIANTS
    TypeOK
    HandledOnce
    LostOnlyByFault
    SettledRowIsCurrent
    SeatsFollowMembers
SYMMETRY Symmetry
CHECK_DEADLOCK FALSE
