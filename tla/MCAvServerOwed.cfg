SPECIFICATION Spec
CONSTANTS
    ReqIds = {r1, r2}
    QueueLen = 2
    HandshakesMax = 1
    HeaderLen = 1
    HandshakeLen = 1
    RequestLen = 1
    DataHeaderLen = 0
    MaxRxPayload = 2
    MaxChunkData = 1
    FrameLens = {1, 2}
    CaptureMayFail = TRUE
    MaxSends = 3
    MaxConns = 1
INVARIANTS
    NoAnswerForgotten
CHECK_DEADLOCK FALSE
