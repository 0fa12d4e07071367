SPECIFICATION Spec
CONSTANTS
    g1 = g1
    g2 = g2
    g3 = g3
    l1 = l1
    l2 = l2
    l3 = l3
    l4 = l4
    Failed = Failed
    Loading = Loading
    None = None
    Gets = {g1, g2, g3}
    Loads = {l1, l2, l3, l4}
    Refresh = 1
    FirstWait = 1
    MaxTime = 3
    MaxEdits = 2
SYMMETRY Symmetry
INVARIANTS
    TypeOK
    OneLoadAtATime
    FirstDoneClosesOnce
    WaitersAreWoken
    NeverNothing
PROPERTIES
    CopyNeverGoesBack
