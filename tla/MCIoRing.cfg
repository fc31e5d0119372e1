SPECIFICATION RingSpec
CONSTANTS
    NULL = NULL
    Retvals = {NULL}
    MaxThreads = 3
    MaxCalls = 2
    SqEntries = 2
    MaxSubmitFailures = 0
INVARIANTS
    ResultIsOwn
PROPERTIES
    ImplementsScheduler
CHECK_DEADLOCK FALSE
