SPECIFICATION Spec
CONSTANTS
    NPROC = 3
    Cpu = {"c1"}
    TimeQuantum <- OneTick
    BoostPeriod = 1
    Calls = {"fork", "exit", "waitlast", "kill", "setmonopoly", "monopolize", "unmonopolize"}
    Priorities = {}
    MaxPid = 3
INVARIANTS
    QueuesIntact
PROPERTIES
    MonopolyExclusive
