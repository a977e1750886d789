CONSTANTS
    p1 = p1
    p2 = p2
    h1 = h1
    h2 = h2
    i1 = i1
    i2 = i2
    i3 = i3
    k1 = k1
    k2 = k2
    Caller = {p1, p2}
    Host = {h1, h2}
    Instance = {i1, i2, i3}
    Cleaner = {k1, k2}
    MaxConns = 1
    None = None
SPECIFICATION FairSpec
INVARIANTS TypeOK OneLoop
PROPERTIES IdleRecycled
