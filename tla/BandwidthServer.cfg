SPECIFICATION FairSpec
CONSTANTS
    Clients = {c1, c2, c3}
    None = None
    Total = 6
    Chunk = 4
    Pattern = 2
    Record = 3
    Room = 2
    Backlog = 1
    MaxIn = 1
    MaxTalk = 2
INVARIANTS
    TypeOK
    PatternUnbroken
    
    NothingLeaks
    TailSurvives
PROPERTIES
    
    NextIsServed
CHECK_DEADLOCK FALSE
