SPECIFICATION FairSpec
CONSTANTS
    grid_width = 3
    grid_height = 3
    MaxThreads = 2
    Patterns <- MCPatterns
    Garbage <- MCGarbage
INVARIANTS
    TypeOK
    Generations
PROPERTIES
    EveryThreadGoesOn
