CONSTANTS
    p1 = p1
    p2 = p2
    p3 = p3
    h1 = h1
    e1 = e1
    e2 = e2
    e3 = e3
    None = None
    Caller = {p1, p2, p3}
    Host = {h1}
    Entry = {e1, e2, e3}
    IdxSize = 2
SPECIFICATION CacheFairSpec
INVARIANTS CacheTypeOK PendingIsResolved
PROPERTY StaleEnds
