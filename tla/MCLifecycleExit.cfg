SPECIFICATION LifeSpec
CONSTANTS
    MaxThreads = 3
    Addrs = {1, 2}
    InitialCap = 2
    MaxFailures = 0
INVARIANTS
    ExitSaves
CHECK_DEADLOCK FALSE
