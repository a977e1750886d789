CONSTANTS
    a = a
    b = b
    nil = nil
    x = x
    y = y
    large = large
    Node = {a, b}
    Message <- MCMessage
    Nil = nil
    Size <- MCSize
    M = 8
    AckBits = 2
    FragmentAbove = 1
    FragmentSize = 1
    MaxFragments = 2
    MaxPacketSize = 2
    SentPacketBufferSize = 2
    RecvPacketBufferSize = 2
    FragmentReassemblyBufferSize = 1
    ResendAfter = 1
    Arrivals = {}
    MaxWrites = 2
    Payloads <- Small
    MaxSeq = 3
SPECIFICATION PairSpec
INVARIANTS AckedWasProcessed ProcessedInWriteOrder
ACTION_CONSTRAINTS JustInTime Distinct
CHECK_DEADLOCK FALSE
