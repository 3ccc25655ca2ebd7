SPECIFICATION MCSpec
CONSTANTS
    d1 = d1
    l1 = l1
    Drives = {d1}
    Loops = {l1, l2}
    Of <- MCOf
    Capacity = 2
    MaxPushes = 3
    MaxFailures = 15
    Good = Good
    Bad = Bad
    None = None
INVARIANTS
    PushesInOrder
    MountedIsTold
PROPERTIES
    NeverSooner
    Reconnects
CHECK_DEADLOCK FALSE
