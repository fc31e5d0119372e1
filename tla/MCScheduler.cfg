SPECIFICATION FairListSpec
CONSTANTS
    MaxThreads = 3
    NULL = NULL
    Retvals = {NULL, r1}
INVARIANTS
    TypeOK
    RunQueueExact
    JoinerHasWaker
    JoinerSeesDone
    WaiterIsJoining
    StuckOnlyInJoinRing
    ListIsQueue
PROPERTIES
    DoneIsFinal
    ImplementsQueue
    ImplementsApi
    EveryRunnableRuns
    JoinCompletes
CHECK_DEADLOCK FALSE
