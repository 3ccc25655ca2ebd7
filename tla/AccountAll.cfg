SPECIFICATION MCSpec
CONSTANTS
    Tasks = {p1, p2}
    Names = {u, v}
    Passwords = {a, b}
    Tokens = {t1, t2, t3}
    Keys = {k}
    Roots = {local, other}
    Default = local
    Lifetime = 1
    MaxTime = 2
    MaxCalls = 5
    MaxOverlap = 4
    DbFails = TRUE
    Foreign = Foreign
    None = None
SYMMETRY Symmetric
INVARIANTS
    SessionsOfAccount
    SignOutForgets
    ResetLeavesNothing
PROPERTY LastingIsKept
CHECK_DEADLOCK FALSE
