SPECIFICATION FairSpec
CONSTANTS
    Proc = {p1, p2}
    Block = {b1, b2}
    Val = {v0, v1}
    Blank = v0
    MAXOPBLOCKS = 4
    LOGSIZE = 8
    NLOG = 8
    OpWrites = 2
INVARIANTS
    NoPanic
    LoggedBlocksPinned
    QuiescentDurable
PROPERTIES
    ImplementsAtomicDisk
    BeginOpWoken
