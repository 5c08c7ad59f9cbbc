SPECIFICATION FairSpec
CONSTANTS
    MAX_THREADS = 4
    NUM_ITERS = 1
INVARIANTS
    MutualExclusion
    TicketsInOrder
    TestPasses
PROPERTIES
    EveryThreadEnters
