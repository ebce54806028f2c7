SPECIFICATION FairSpec
CONSTANTS
    p1 = p1
    p2 = p2
    q = q
    Threads = {t1, t2}
    Accounts = {a1}
    Paths = {p1, p2, q}
    Roots = {q}
    NextOf <- LoopGraph
    End = End
    MaxRetries = 1
    MaxPages = 2
    Base = 1
    MaxBackoff = 2
    Hints = {1}
    Nothing = Nothing
PROPERTIES
    EveryCallEnds
