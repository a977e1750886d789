CONSTANTS
    p1 = p1
    p2 = p2
    w1 = w1
    w2 = w2
    c1 = c1
    c2 = c2
    cleaner = cleaner
    Caller = {p1, p2}
    Waiter = {w1, w2}
    Cleaner = cleaner
    Conn = {c1, c2}
    None = None
    Config <- AllConfigs
    Idempotent = {}
SPECIFICATION FairSpec
INVARIANTS TypeOK CountIsExact CountWithinMax OneOwner ReadyClosedOnce OneCleaner
PROPERTIES PoolSpec AcquireEnds
