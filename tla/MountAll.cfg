SPECIFICATION FairSpec
CONSTANTS
    p1 = p1
    p2 = p2
    boot = boot
    Tasks = {p1, p2}
    Boot = {boot}
    Threads = {t1, t2, t3, t4}
    MaxDrives = 3
    OldDrives = 1
    MaxCommands = 4
    Scenes <- MCScenes
    Pro = FALSE
    None = None
INVARIANT RegistryServes
INVARIANT ShownIsTrue
INVARIANT SettingsKept
INVARIANT ResetIsClean
PROPERTY HandleKept
PROPERTY CommandsReturn
