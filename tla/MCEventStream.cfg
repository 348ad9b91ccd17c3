SPECIFICATION FairSpec
CONSTANTS
    Streams = {x1}
    Size = 3
    Buffer = 2
    MaxEvents = 7
INVARIANTS
    TypeOK
    GaplessFromStart
    NothingBeforeFrom
    EndOfChatDrains
PROPERTIES
    RefusedOnlyOutsideWindow
    CloseEndsStreams
    StreamIsReliableLog
CHECK_DEADLOCK FALSE
