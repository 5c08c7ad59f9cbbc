SPECIFICATION Spec
CHECK_DEADLOCK FALSE
CONSTANTS
    Proc = {p1, p2}
    Inum = {r, i2, i3}
    ROOTINO = r
    r = r
    i2 = i2
    i3 = i3
    NINODE = 3
    Name = {"a", "b"}
    UpName = ".."
    Call <- MCCall
SYMMETRY Symmetry
INVARIANTS
    CacheCoherent
    TreeSound
    NoPanic
    OnlyIputDeadlocks
PROPERTIES
    ImplementsNameTree
