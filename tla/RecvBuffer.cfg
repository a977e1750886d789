CONSTANTS
    M = 20
    RecvPacketBufferSize = 4
    ByteSize = 5
    ByteBits = 1
    Lag = 5
    MaxLost = 1
    MaxSent = 42
SPECIFICATION Spec
INVARIANTS TypeOK LatestIsNewest AckSound NewestIsAcked HeaderArrives
CHECK_DEADLOCK FALSE
