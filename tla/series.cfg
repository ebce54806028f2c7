SPECIFICATION Spec
CONSTANTS
    f = f
    h = h
    p = p
    sent = sent
    opens = opens
    Groups <- TwoGroups
    Stats = {sent, opens}
    Worlds <- MCWorlds
    Filters = {f, NoFilter}
    NoFilter = NoFilter
INVARIANTS
    TypeOK
    Aligned
    NothingDropped
