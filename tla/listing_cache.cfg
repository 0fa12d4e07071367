SPECIFICATION Spec
CONSTANTS
    b1 = b1
    b2 = b2
    p1 = p1
    albums = albums
    people = people
    person = person
    Failed = Failed
    None = None
    Browses = {b1, b2}
    Polls = {p1}
    Keys = {albums, person}
    Plans <- LeafPlans
    PollPlan <- WatchedAlbums
    TTLs = {0, 1}
    IdRange = 3
    MaxTime = 2
    MaxEdits = 1
    MaxRestarts = 0
INVARIANTS
    TypeOK
    OneLoadPerKey
    FailuresAreForgotten
    IdTellsListingsApart
