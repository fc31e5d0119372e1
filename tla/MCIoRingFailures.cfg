SPECIFICATION FairRingSpec
CONSTANTS
    NULL = NULL
    Retvals = {NULL}
    MaxThreads = 2
    MaxCalls = 2
    SqEntries = 2
    MaxSubmitFailures = 3
INVARIANTS
    RingTypeOK
    OneRunning
    BlockedCallIsPending
    OneSignalRead
PROPERTIES
    DoneIsFinal
    FaultsStayLocal
    CompletedCallRunsIfIdle
CHECK_DEADLOCK FALSE
