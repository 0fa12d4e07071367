SPECIFICATION FairSpec
CONSTANTS
    b1 = b1
    b2 = b2
    p1 = p1
    albums = albums
    people = people
    person = person
    Failed = Failed
    None = None
    Browses = {b1}
    Polls = {p1}
    Keys = {albums, people}
    Plans <- RootPlans
    PollPlan <- WatchedKeys
    TTLs = {0, 1}
    IdRange = 3
    MaxTime = 1
    MaxEdits = 1
    MaxRestarts = 1
PROPERTY CallsReturn
