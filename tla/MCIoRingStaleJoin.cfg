SPECIFICATION RingSpec
CONSTANTS
    NULL = NULL
    Retvals = {NULL}
    MaxThreads = 2
    MaxCalls = 2
    SqEntries = 2
    MaxSubmitFailures = 1
INVARIANTS
    JoinOkMeansDone
CHECK_DEADLOCK FALSE
