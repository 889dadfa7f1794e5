SPECIFICATION Spec
CONSTANTS
    c1 = c1
    c2 = c2
    c3 = c3
    NoClient = NoClient
    Client <- MCTwo
    Slots = 2
    QueueSize = 2
    MaxLines = 0
    MaxCrashes = 0
PROPERTIES
    LeavesItself
CHECK_DEADLOCK FALSE
