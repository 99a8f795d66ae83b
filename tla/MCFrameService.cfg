SPECIFICATION FairSpec
CONSTANTS
    Callers = {h1, h2}
    Blocks <- MCBlocks
    PerVariable = 2
    Offered = {"/capture","/qr/capture","/image.jpg","/qr/codes.json","/faces.json","stream"}
    MaxCodes = 2
    NoOne = NoOne
INVARIANTS
    BuffersOwnedOnce
    CopiedFromLatest
PROPERTIES
    RequestsEnd
