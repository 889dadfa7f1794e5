SPECIFICATION Spec
CONSTANTS
    c1 = c1
    c2 = c2
    c3 = c3
    NoConn = NoConn
    Conn <- MCTwo
    NameOf <- MCNameOf
    MAX_CLIENTS = 2
    Rounds = {1}
    MaxLines = 0
    SocketCap = 2
INVARIANTS
    TypeOK
    CountNeverAhead
    SlotOwnsDescriptor
CHECK_DEADLOCK FALSE
