SPECIFICATION FairSpec
CONSTANTS
    Clients = {c1}
    None = None
    MaxCalls = 2
PROPERTIES
    StopTakesEffect
CHECK_DEADLOCK FALSE
