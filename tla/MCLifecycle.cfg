SPECIFICATION LifeSpec
CONSTANTS
    MaxThreads = 5
    Addrs = {1, 2, 3}
    InitialCap = 2
    MaxFailures = 3
INVARIANTS
    FailedInitReleases
    ThreadsTracked
    NoDoubleFree
    OrderlyEndSaves
    RingNotMisused
    
CHECK_DEADLOCK FALSE
