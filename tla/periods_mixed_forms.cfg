SPECIFICATION PipelineSpec
CONSTANTS
    Years <- CalendarYears
    Kinds <- AllKinds
    Cap <- CalendarCap
    Requests <- MCRequests
    Asks <- MixedAsks
    Dates <- Baselines
    NoDate = NoDate
    EmptyDate = EmptyDate
    JunkDate = JunkDate
    NoTimeframe = NoTimeframe
    MaxSpan = 1830
    MaxBucketed = 366
INVARIANT
    AcceptedInOrder
