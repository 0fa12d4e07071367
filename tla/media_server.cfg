SPECIFICATION Spec
CONSTANTS
    r1 = r1
    r2 = r2
    r3 = r3
    photo = photo
    video = video
    stream = stream
    None = None
    Requests = {r1, r2, r3}
    Keys = {photo, video}
    VideoKeys = {video}
    StreamKeys = {}
    Slots = 2
SYMMETRY RequestSymmetry
INVARIANTS
    TypeOK
    FlightOwned
    ClosedOnce
    WaiterNotStranded
    SlotAccounting
    OneDownloadPerKey
    SlowClientHoldsNothing
    FillSurvivesRequest
PROPERTY FlightsImplemented
