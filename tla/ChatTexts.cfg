SPECIFICATION CalmSpec
CONSTANTS
    c1 = c1
    c2 = c2
    c3 = c3
    NoConn = NoConn
    Conn <- MCThree
    NameOf <- MCNameOf
    MAX_CLIENTS = 2
    Rounds = {}
    MaxLines = 1
    SocketCap = 2
INVARIANTS
    Authentic
CHECK_DEADLOCK FALSE
