SPECIFICATION MCSpec
CONSTANTS
    Top = {2, 3, 4, 9}
    Inner = {6}
    Room = 2
    Wide = {9}
    MaxEntries = 3
    MaxChanges = 3
    Remote = TRUE
    MayRefuse = TRUE
    Keep = Keep
    Absent = Absent
    None = None
INVARIANTS
    OwnWorkShows
    EnumerationIsWhole
PROPERTIES
    CreatedIsNew
    EnumerationEnds
