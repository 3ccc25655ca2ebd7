SPECIFICATION MCSpec
CONSTANTS
    Folders = {a, b}
    MaxName = 2
    Callers = {p1, p2}
    PageSize = 1
    First = a
    MaxWrites = 3
    MaxCalls = 3
    MaxEvents = 3
    Same = Same
    None = None
SYMMETRY CallerSymmetry
INVARIANTS NothingLost ReportIsTrue
CHECK_DEADLOCK FALSE
