SPECIFICATION FairSpec
CONSTANTS
    NPROC = 3
    Cpu = {"c1"}
    TimeQuantum <- OneTick
    BoostPeriod = 7
    Calls = {"fork", "exit", "setpriority"}
    Priorities = {0, 2}
    MaxPid = 3
PROPERTIES
    HighestFirst
    
