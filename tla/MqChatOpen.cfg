SPECIFICATION FairSpec
CONSTANTS
    c1 = c1
    c2 = c2
    c3 = c3
    NoClient = NoClient
    Client <- MCTwo
    Slots = 2
    QueueSize = 2
    MaxLines = 1
    MaxCrashes = 1
INVARIANTS
    TypeOK
PROPERTIES
    LeavingEnds
CHECK_DEADLOCK FALSE
