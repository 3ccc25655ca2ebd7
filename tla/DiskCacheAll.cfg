SPECIFICATION MCSpec
CONSTANTS
    w1 = w1
    w2 = w2
    c1 = c1
    k1 = k1
    MaxFaults = 1
    Workers = {w1, w2}
    Commands = {c1, c2}
    Keys = {k1, k2}
    Offsets = {0}
    MaxVersion = 1
    BlockLen <- MCBlockLen
    Overhead = 1
    Quotas = {0, 3}
    InitialQuota = 3
    RunsSweeper = TRUE
    RemoteWrites = TRUE
    FilesMayRot = TRUE
    Absent = Absent
    NoOne = NoOne
INVARIANTS
    FreshUnlessExposed
    FilesSound
    ClearedStaysEmpty
    ClearRestoresSetting
    SweepMeetsCap
PROPERTIES
    PinnedSurviveSweep
    StopReturns
