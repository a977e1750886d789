CONSTANTS
    c = c
    nil = nil
    x = x
    y = y
    z = z
    Node = {c}
    Message <- MCMessage
    Nil = nil
    Size <- MCSize
    M = 8
    AckBits = 2
    FragmentAbove = 1
    FragmentSize = 1
    MaxFragments = 2
    MaxPacketSize = 2
    SentPacketBufferSize = 2
    RecvPacketBufferSize = 2
    FragmentReassemblyBufferSize = 1
    ResendAfter = 1
    Arrivals <- MCArrivals
    MaxWrites = 3
SPECIFICATION FairSpec
INVARIANTS TypeOK FlowControl OldestIsHeld WindowIsUnacked NextIsInsertable WritesInOrder
PROPERTIES KeptUntilACKed KeepAliveWhenQuiet UpdateReturns
ACTION_CONSTRAINTS JustInTime Distinct
