SPECIFICATION FairRRSpec
CONSTANTS
    NULL = NULL
    Retvals = {NULL}
    MaxThreads = 3
    MaxOps = 3
    MaxBlocking = 1
    MaxSignals = 1
INVARIANTS
    LogNamesRunner
    ReplayIsExactAlone
PROPERTIES
    ReplayFinishes
CHECK_DEADLOCK FALSE
