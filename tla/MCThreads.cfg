SPECIFICATION Spec
CONSTANTS
    NPROC = 4
    Cpu = {"c1"}
    Page = {1, 2, 3, 4, 5, 6, 7}
    NoPage = NoPage
    Heads <- CanonicalPage
    MaxPid = 3
    MaxTid = 4
    MaxSz = 2
INVARIANTS
    MemoryOwned
    OneAddressSpace
    SleepersWoken
PROPERTIES
    JoinAfterEnd
\* Two threads that join each other stop for good.
CHECK_DEADLOCK FALSE
