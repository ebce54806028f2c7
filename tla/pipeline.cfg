SPECIFICATION PipelineSpec
CONSTANTS
    Years <- CalendarYears
    Kinds <- AllKinds
    Cap <- CalendarCap
    Requests <- MCRequests
    Asks <- AllAsks
    Dates <- Baselines
    NoDate = NoDate
    EmptyDate = EmptyDate
    JunkDate = JunkDate
    NoTimeframe = NoTimeframe
    MaxSpan = 1830
    MaxBucketed = 366
INVARIANTS
    Partition
    ChunkWithinYear
    BucketsFit
    PresetsFit
    AcceptedInOrder
    BaselineMeets
