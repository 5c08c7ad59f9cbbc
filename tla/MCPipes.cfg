SPECIFICATION Spec
CHECK_DEADLOCK FALSE
CONSTANTS
    Proc <- MCProc
    initproc = 1
    NFILE = 3
    NOFILE = 2
    NPIPE = 1
    PIPESIZE = 2
    UINT = 4
    Message <- MCMessage
    ReadSize = {2}
    Blank = Blank
    NoResult = NoResult
    Failed = Failed
INVARIANTS
    PipeHeld
    NobodyForgotten
PROPERTIES
    ImplementsChannel
