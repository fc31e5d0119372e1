SPECIFICATION LogSpec
CONSTANTS
    EventUnits = 3
    NumberUnits = 2
    RingUnits = 8
    MaxEvents = 10
    MaxWriteFailures = 3
INVARIANTS
    LogTypeOK
    DeliveredIsLogged
    NoEventBehindGap
    LossFitsRing
    CleanLogReplaysWhole
CHECK_DEADLOCK FALSE
