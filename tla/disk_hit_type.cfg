SPECIFICATION Spec
CONSTANTS
    a = a
    b = b
    c = c
    p1 = p1
    p2 = p2
    g1 = g1
    Old = Old
    Empty = Empty
    None = None
    Keys = {a, b}
    OldKeys = {}
    Puts = {p1, p2}
    Gets = {g1}
    SizeOf <- Sizes
    Budgets = {2}
    MaxCrashes = 0
INVARIANT HitHasItsType
