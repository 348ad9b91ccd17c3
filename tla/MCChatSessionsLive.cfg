SPECIFICATION FairSpec
CONSTANTS
    Sessions = {s1}
    Chats = {c1, c2}
    Stops = {t1}
    Resumes = {}
    Inputs = {i1, i2}
    Background = {i2}
    None = None
    Aborted = Aborted
PROPERTIES
    ClosedReleasesTools
    StopEndsChat
    ReturnClosesStreams
CHECK_DEADLOCK FALSE
