SPECIFICATION Spec
CONSTANTS
    Threads = {t1, t2}
    Keys = {k1, k2}
    Values = {v1}
    MaxEntries = 1
    TTL = 1
    MaxTime = 2
    Nothing = Nothing
INVARIANT
    NoKeyError
