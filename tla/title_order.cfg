SPECIFICATION Spec
CONSTANTS
    t1 = t1
    t2 = t2
    east = east
    west = west
    late = late
    leap = leap
    near = near
    song = song
    lost = lost
    old = old
    alba = alba
    blue = blue
    ann = ann
    bob = bob
    who = who
    None = None
    Assets <- MCAssets
    Captured <- MCCaptured
    Zone <- MCZone
    Type <- MCType
    Place <- MCPlace
    Title <- MCTitle
    Members <- MCMembers
    MapOrders <- MCMapOrders
    Today <- MCToday
    Count <- MCCount
    Criteria <- MCCriteria
    Configs <- TitleConfigs
    Files <- MCFiles
    Albums <- MCAlbums
    People <- MCPeople
    Named = {ann, bob}
    TVs = {t1, t2}
    Hours = {0, 1}
    Days = 3
    PageSize = 2
    Concurrency = 2
    MinYear = 1
    RandomSize = 2
    Epoch = 160
    Width = 3
    Comers = {near, song}
    MaxChanges = 1
INVARIANT NewerTitlesComeFirst
