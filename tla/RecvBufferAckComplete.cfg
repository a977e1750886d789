CONSTANTS
    M = 20
    RecvPacketBufferSize = 4
    ByteSize = 5
    ByteBits = 1
    Lag = 2
    MaxLost = 0
    MaxSent = 42
SPECIFICATION Spec
INVARIANT AckComplete
CHECK_DEADLOCK FALSE
