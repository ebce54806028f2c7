SPECIFICATION Spec
CONSTANTS
    a = a
    b = b
    p = p
    q = q
    Groups <- TwoParts
    Counts = {1, 2}
    Plans <- TrendPlans
    Filters = {a, NoFilter}
    NoFilter = NoFilter
    Null = Null
    Whole = Whole
    MaxBuckets = 2
INVARIANT
    TrendWhole
