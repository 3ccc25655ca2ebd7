SPECIFICATION FairSpec
CONSTANTS
    PartTarget = 2
    Concurrency = 1
    MaxLen = 3
    MaxWrites = 2
    EarlyWrites = 2
    MaxUploads = 2
    Rewrites = TRUE
    MayFail = FALSE
    MayCrash = FALSE
    Missing = Missing
    NoSpool = NoSpool
    Unread = Unread
PROPERTY WholeFileOrNothing
