CONSTANTS
    a = a
    b = b
    nil = nil
    small = small
    large = large
    wide = wide
    huge = huge
    Node <- MCNode
    Message <- MCMessage
    Nil = nil
    Size <- MCSize
    M = 16
    AckBits = 2
    FragmentAbove = 1
    FragmentSize = 2
    MaxFragments = 4
    MaxPacketSize = 8
    SentPacketBufferSize = 2
    RecvPacketBufferSize = 2
    FragmentReassemblyBufferSize = 2
    MaxWrites <- MCMaxWrites
    Payloads <- MCPayloads
SPECIFICATION Spec
SYMMETRY Symmetry
INVARIANTS TypeOK ProcessedWasWritten EntriesIncomplete AckedWasProcessed
CHECK_DEADLOCK FALSE
