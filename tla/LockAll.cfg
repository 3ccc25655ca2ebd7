SPECIFICATION MCSpec
CONSTANTS
    m1 = m1
    m2 = m2
    m3 = m3
    h1 = h1
    h2 = h2
    h3 = h3
    h4 = h4
    Machines = {m1, m2, m3}
    Handles = {h1, h2, h3, h4}
    MachineOf <- TwoOnOne
    MaxBusy = 3
    TTL = 2
    Editors = TRUE
    MayFail = TRUE
    MayBreak = TRUE
    NoLock = NoLock
INVARIANTS LaterWriterRefused SentinelStands ClaimsMatchHandles
PROPERTY CrashedLockExpires
