SPECIFICATION FairSpec
CONSTANTS
    ReqIds = {r1}
    QueueLen = 2
    HandshakesMax = 1
    HeaderLen = 1
    HandshakeLen = 1
    RequestLen = 1
    DataHeaderLen = 0
    MaxRxPayload = 3
    MaxChunkData = 1
    FrameLens = {1, 2}
    CaptureMayFail = FALSE
    MaxSends = 2
    MaxConns = 2
PROPERTIES
    FramesFinish
    HandshakesAnswered
    RequestsServed
    DepartureNoticed
CHECK_DEADLOCK FALSE
