CONSTANTS
    u1 = u1
    u2 = u2
    u3 = u3
    i1 = i1
    i2 = i2
    c1 = c1
    c2 = c2
    Users <- MCUsers
    Invites = {i1, i2}
    Calls = {c1, c2}
    Roles = {1, 3}
    MaxSeats = 2
SPECIFICATION Spec
SYMMETRY MCSymmetry
CHECK_DEADLOCK FALSE
INVARIANTS
    TypeOK
    SingleUse
    SeatsWithinCap
    OwnerKept
    TokenBuysSeat
