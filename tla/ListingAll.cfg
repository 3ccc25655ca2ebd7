SPECIFICATION MCSpec
CONSTANTS
    Names = {n1}
    Readers = {r1}
    Refreshers = {r2}
    Droppers = {d1}
    MemTTL = 2
    EmptyTTL = 1
    DiskTTL = 1
    MaxChanges = 2
    AgeCap = 6
    MayFail = TRUE
    None = None
    Whole = Whole
INVARIANTS SettledIsSeen AgeBounded
