CONSTANTS
    p1 = p1
    p2 = p2
    g1 = g1
    c1 = c1
    t1 = t1
    t2 = t2
    None = None
    Caller = {p1, p2}
    Goroutine = {g1}
    Chan = {c1}
    Timer = {t1, t2}
    Concurrency = 1
    MaxAddrs = 2
    IdxSize = 2
SPECIFICATION Spec
PROPERTY TriesAll
