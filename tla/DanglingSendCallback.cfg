CONSTANTS
    WordBytes <- MCWordBytes
    ServerVersions <- MCServerVersions
    TpmInfos <- MCTpmInfos
    HandshakeAcks <- MCHandshakeAcks
    RespLens <- MCRespLens
    CmdAcks <- MCCmdAcks
    PlatAcks <- MCPlatAcks
    WordValues <- MCWordValues
    Capacity <- MCCapacity
    MaxCreates = 1
    MaxSubmits = 2
    MaxSocketErrors = 0
    MaxAllocFails = 0
    Undef = Undef

SPECIFICATION Spec
INVARIANT NoDanglingSendCallback
\* The client stops once it has made its bounded number of calls.
CHECK_DEADLOCK FALSE
