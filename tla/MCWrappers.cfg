SPECIFICATION WrapSpec
CONSTANTS
    DataCap = 2
    IntBits = 4
    TimeSize = 2
    StructSize = 3
    MaxSize = 4
    MaxCalls = 2
INVARIANTS
    WrapTypeOK
    RecordingIsTransparent
    ReplayReturnsSame
    ReplayFillsSame
CHECK_DEADLOCK FALSE
