SPECIFICATION Spec
CONSTANTS
    WindowSize = 3
    Arriving <- MCArriving
    Base = 5
    Uint64Len = 2
    HandshakeRandomLen = 2
    AEADTagLen = 2
    MaxPayloadSize = 2
    Messages <- MCMessages
    HandshakeRandoms <- MCRandoms
INVARIANTS
    TypeOK
    WindowExact
    PacketUnderstood
PROPERTY
    FilterSpec
