SPECIFICATION FairSpec
CONSTANTS
    NPROC = 3
    Nice = {0, 1}
    Weight <- TwoWeights
    NCHAN = 2
    TICK = 1
    UNIT = 2
    SLICE = 2
    MAXIMUM_INT = 1
    SHIFT = 2
INVARIANTS
    TypeOK
    NoLostWakeup
PROPERTIES
    OrderKept
    EveryoneRuns
