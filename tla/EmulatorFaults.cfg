CONSTANTS
    WordBytes <- MCWordBytes
    ServerVersions <- MCServerVersions
    TpmInfos <- MCTpmInfos
    HandshakeAcks <- MCHandshakeAcks
    RespLens <- MCRespLens
    CmdAcks <- MCCmdAcks
    PlatAcks <- MCPlatAcks
    WordValues <- MCWordValues
    Capacity <- MCCapacity
    MaxCreates = 1
    MaxSubmits = 1
    MaxSocketErrors = 1
    MaxAllocFails = 1
    Undef = Undef

SPECIFICATION Spec
INVARIANT TypeOK
INVARIANT SocketsReleased
PROPERTY CallsReturn
\* The client stops once it has made its bounded number of calls.
CHECK_DEADLOCK FALSE
