SPECIFICATION RRSpec
CONSTANTS
    NULL = NULL
    Retvals = {NULL}
    MaxThreads = 2
    MaxOps = 3
    MaxBlocking = 1
    MaxSignals = 0
INVARIANTS
    ReplayIsExact
CHECK_DEADLOCK FALSE
