SPECIFICATION FairSpec
CONSTANTS
    a = a
    b = b
    c = c
    p1 = p1
    p2 = p2
    g1 = g1
    Old = Old
    Empty = Empty
    None = None
    Keys = {a, b, c}
    OldKeys = {a}
    Puts = {p1, p2}
    Gets = {g1}
    SizeOf <- UnitSizes
    Budgets = {0, 1}
    MaxCrashes = 1
INVARIANTS
    TypeOK
    EntriesAreWhole
    NoStrayTemps
    EntryHasItsType
PROPERTIES
    SweepRestoresBudget
    NoOverEviction
    SweepsEnd
