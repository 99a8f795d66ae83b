SPECIFICATION FairSpec
CONSTANTS
    ReqIds = {r1}
    QueueLen = 2
    HandshakesMax = 1
    HeaderLen = 1
    HandshakeLen = 1
    RequestLen = 1
    DataHeaderLen = 0
    MaxRxPayload = 3
    MaxChunkData = 1
    FrameLens = {1, 2}
    CaptureMayFail = TRUE
    MaxSends = 2
    MaxConns = 1
PROPERTIES
    RequestsServed
CHECK_DEADLOCK FALSE
