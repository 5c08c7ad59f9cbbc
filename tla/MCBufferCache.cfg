SPECIFICATION FairSpec
CONSTANTS
    Proc = {p1, p2}
    Block = {b1, b2, b3, b4}
    Val = {0, 1}
    Written = {b1}
    Blank = 0
    NBUF = 3
    MAXDIRTY = 1
    NoProc = NoProc
    NoBlock = NoBlock
    NoVal = NoVal
INVARIANTS
    CacheSound
    
PROPERTIES
    ImplementsBlockStore
    
