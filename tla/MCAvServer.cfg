SPECIFICATION Spec
CONSTANTS
    ReqIds = {r1, r2}
    QueueLen = 2
    HandshakesMax = 2
    HeaderLen = 1
    HandshakeLen = 1
    RequestLen = 1
    DataHeaderLen = 0
    MaxRxPayload = 5
    MaxChunkData = 1
    FrameLens = {1, 2}
    CaptureMayFail = TRUE
    MaxSends = 3
    MaxConns = 2
INVARIANTS
    TypeOK
    ParserInSync
    RecvHasRoom
    WireAtomic
    NothingOutlivesClient
    FramesReassemble
PROPERTIES
    ImplementsProtocol
CHECK_DEADLOCK FALSE
