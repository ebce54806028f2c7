SPECIFICATION MCSpec
CONSTANTS
    Threads = {t1, t2}
    Keys = {k1, k2, k3}
    Values = {v1, v2}
    MaxEntries = 2
    TTL = 1
    MaxTime = 2
    Nothing = Nothing
INVARIANTS
    TypeOK
    BoundedStore
    KeyErrorTakesTwo
PROPERTIES
    KeepsContract
    RemovesWithCause
    RecentlyUsedSurvives
SYMMETRY Symmetric
