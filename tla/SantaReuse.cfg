SPECIFICATION Spec
CONSTANTS
    r1 = r1
    r2 = r2
    r3 = r3
    r4 = r4
    Reindeer <- MCReindeer
    SantaThread = SantaThread
    Nobody = Nobody
    MAX_REINDEERS_IN_QUEUE = 4
    presents_delivery = 2
INVARIANTS
    WaitingAreCounted
CHECK_DEADLOCK FALSE
