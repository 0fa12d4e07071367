SPECIFICATION Spec
CONSTANTS
    b1 = b1
    b2 = b2
    p1 = p1
    albums = albums
    people = people
    person = person
    Failed = Failed
    None = None
    Browses = {b1, b2}
    Polls = {}
    Keys = {albums}
    Plans <- AlbumPlans
    PollPlan <- WatchedAlbums
    TTLs = {1}
    IdRange = 8
    MaxTime = 2
    MaxEdits = 2
    MaxRestarts = 0
INVARIANT IdTellsViewsApart
