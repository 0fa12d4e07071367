SPECIFICATION FairSpec
CONSTANTS
    r1 = r1
    r2 = r2
    r3 = r3
    photo = photo
    video = video
    stream = stream
    None = None
    Requests = {r1, r2}
    Keys = {photo, video, stream}
    VideoKeys = {video}
    StreamKeys = {stream}
    Slots = 1
PROPERTIES
    EveryRequestAnswered
    HangUpEnds
    FlightsLand
