SPECIFICATION FairSpec
CONSTANTS
    Clients = {c1, c2}
    None = None
    MaxCalls = 5
INVARIANTS
    TypeOK
    FrameHeldUntilSent
    BeginNeverDropped
PROPERTIES
    StopRaisedEndsStream
    LatchedStreamRuns
CHECK_DEADLOCK FALSE
