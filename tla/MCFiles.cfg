SPECIFICATION Spec
CONSTANTS
    Proc = {p1, p2}
    Inum = {i1, i2}
    FileId = {f1, f2}
    DataBlock <- Blocks
    NDIRECT = 2
    BSIZE = 2
    MAXOPBLOCKS = 6
    Count = {3, 8}
    MaxCalls = 3
SYMMETRY Symmetry
INVARIANTS
    DiskConsistent
    TransactionFits
PROPERTIES
    ImplementsByteFiles
