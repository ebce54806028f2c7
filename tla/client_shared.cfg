SPECIFICATION Spec
CONSTANTS
    p1 = p1
    p2 = p2
    q = q
    Threads = {t1, t2}
    Accounts = {a1, a2}
    Paths = {p1, p2}
    Roots = {p1}
    NextOf <- ShortGraph
    End = End
    MaxRetries = 1
    MaxPages = 3
    Base = 1
    MaxBackoff = 2
    Hints = {1}
    Nothing = Nothing
INVARIANTS
    TypeOK
    CachedIsWhole
    AnswersWhole
    OwnKey
    LeakBounded
