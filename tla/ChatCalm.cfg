SPECIFICATION FairCalmSpec
CONSTANTS
    c1 = c1
    c2 = c2
    c3 = c3
    NoConn = NoConn
    Conn <- MCTwo
    NameOf <- MCNameOf
    MAX_CLIENTS = 1
    Rounds = {1, 2}
    MaxLines = 0
    SocketCap = 1
INVARIANTS
    OneReader
PROPERTIES
    SlotsAreFreed
CHECK_DEADLOCK FALSE
