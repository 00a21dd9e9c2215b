CONSTANTS
    p1 = p1
    p2 = p2
    w = w
    Calls <- MCCalls
    Door <- MCDoor
    KeyOf <- MCKeyOf
    Items = 2
    Cap = 2
    MaxFailures = 1
SPECIFICATION FairSpec
INVARIANTS
    CursorCoversRows
    StrandedOnlyByFailure
PROPERTIES
    ItemsRecorded
