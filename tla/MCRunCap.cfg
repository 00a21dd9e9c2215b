CONSTANTS
    p = p
    t = t
    m1 = m1
    m2 = m2
    m3 = m3
    Calls <- MCCalls
    Door <- MCDoor
    KeyOf <- MCKeyOf
    Items = 1
    Cap = 1
    MaxFailures = 0
SPECIFICATION Spec
INVARIANTS
    TypeOK
    OneEnqueuer
    SerialisedWithinCap
