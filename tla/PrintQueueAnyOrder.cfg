SPECIFICATION FairAnySpec
CONSTANTS
    c1 = c1
    c2 = c2
    p1 = p1
    p2 = p2
    a = a
    Clients <- MCClients
    Printers <- MCPrinters
    Task <- MCTask
    NoTask = NoTask
    BUFFER_SIZE = 2
    MaxKills = 2
INVARIANTS
    AccountedWhileGuarded
PROPERTIES
    QueueUnlessReset
    ClientsSurviveStart
    OrphansGoOn
CHECK_DEADLOCK FALSE
