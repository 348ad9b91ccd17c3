SPECIFICATION Spec
CONSTANTS
    Streams = {x1}
    Size = 2
    Buffer = 1
    MaxEvents = 5
INVARIANTS
    StartsAtFrom
CHECK_DEADLOCK FALSE
