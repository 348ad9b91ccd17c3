\* What the parser makes of an event whose two lines come in two reads.
SPECIFICATION Spec
CONSTANTS
    MaxPieces = 2
    MaxCalls = 1
    MaxDropped = 1
INVARIANTS
    EveryEventApplied
CHECK_DEADLOCK FALSE
