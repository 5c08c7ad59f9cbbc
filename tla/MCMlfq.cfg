SPECIFICATION Spec
CONSTANTS
    NPROC = 3
    Cpu = {"c1", "c2"}
    TimeQuantum <- OneTick
    BoostPeriod = 4
    Calls = {"fork", "exit", "kill", "sleep"}
    Priorities = {}
    MaxPid = 3
INVARIANTS
    QueuesIntact
