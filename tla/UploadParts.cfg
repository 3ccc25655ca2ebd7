SPECIFICATION MCSpec
CONSTANTS
    PartTarget = 2
    Concurrency = 2
    MaxLen = 4
    MaxWrites = 3
    EarlyWrites = 2
    MaxUploads = 2
    Rewrites = FALSE
    MayFail = TRUE
    MayCrash = TRUE
    Missing = Missing
    NoSpool = NoSpool
    Unread = Unread
INVARIANTS
    PartsExact
PROPERTIES
    WholeFileOrNothing
    CallsReturn
