SPECIFICATION FairFrontends
CONSTANTS
    Threads = {t1, t2}
    Tools = {"campaigns", "messages", "structure", "lists", "plain"}
    x = x
    y = y
    bad = bad
    token = token
    other = other
    keyA = keyA
    keyB = keyB
    Ids = {x, y, bad}
    BadIds = {bad}
    NoId = NoId
    Null = Null
    Listings <- AllListings
    Refusals = {"INVALID_ARGUMENT", "UNKNOWN_ACCOUNT", "CONFIG_ERROR", "INTERNAL_ERROR"}
    Failures = {"UPSTREAM_ERROR"}
    Settings <- AllSettings
    NotANumber = NotANumber
    Manifests <- AllManifests
    NoManifest = NoManifest
    BadManifest = BadManifest
    Names <- AllNames
    Slugs <- AllSlugs
    Trimmed <- TrimmedNames
    NoName = NoName
    NotText = NotText
    ApiKeys = {keyA, keyB}
    NoKey = NoKey
    Requests <- AllRequests
    NoCred = NoCred
    NotAscii = NotAscii
INVARIANTS
    TypeOK
    OnceEach
    NullsExplained
    SameCall
    OwnAccount
    FailsFast
    OneAtATime
PROPERTIES
    KeepsPromise
    EveryCallAnswered
