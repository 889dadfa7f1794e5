SPECIFICATION PatientSpec
CONSTANTS
    c1 = c1
    c2 = c2
    c3 = c3
    NoClient = NoClient
    Client <- MCTwo
    Slots = 1
    QueueSize = 2
    MaxLines = 3
    MaxCrashes = 1
INVARIANTS
    OwnSlot
    SameConversation
PROPERTIES
    LeavesItself
CHECK_DEADLOCK FALSE
