SPECIFICATION Spec
CONSTANTS
    a = a
    b = b
    p = p
    q = q
    Groups <- TwoParts
    Counts = {1, 2}
    Plans <- AllPlans
    Filters = {a, NoFilter}
    NoFilter = NoFilter
    Null = Null
    Whole = Whole
    MaxBuckets = 2
INVARIANTS
    TypeOK
    NothingLost
    FlowGroupsKept
    SlotsAligned
PROPERTIES
    Paced
