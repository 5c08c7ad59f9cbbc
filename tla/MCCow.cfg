SPECIFICATION FairSpec
CONSTANTS
    p1 = p1
    p2 = p2
    Proc = {p1, p2}
    initproc = p1
    NoProc = NoProc
    Page = {1, 2, 3, 4, 5, 6, 7}
    NoPage = NoPage
    Heads <- LowestPage
    MaxVa = 2
    Val = {0, 1}
    Zero = 0
    Junk = Junk
    MaxRefc = 3
    MaxBusy = 2
INVARIANTS
    TypeOK
    
    
    

    
    
    
CHECK_DEADLOCK FALSE
