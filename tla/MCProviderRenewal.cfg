CONSTANTS
    u1 = u1
    u2 = u2
    r = r
    c1 = c1
    c2 = c2
    Users <- MCUsers
    Renewers <- MCRenewers
    Definitions = {"a", "b"}
    Initial = "a"
    Nodes = {"n", "m"}
    NodeOf <- MCNode
    KindOf <- MCDrive
    Channels <- MCChannels
    Mailbox = mailbox
    MaxVersion = 2
    MaxFaults = 0
SPECIFICATION Spec
CHECK_DEADLOCK FALSE
INVARIANTS
    RotatedBeforeExpiry
