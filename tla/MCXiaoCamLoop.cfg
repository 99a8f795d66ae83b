SPECIFICATION FairSpec
CONSTANTS
    Clients = {c1, c2}
    None = None
    MaxInflight = 2
    MaxCalls = 4
INVARIANTS
    TypeOK
    BufferHeldUntilSent
    FramesReturned
PROPERTIES
    ImplementsSensorStream
    StopTakesEffect
    SubscriptionSettles
CHECK_DEADLOCK FALSE
