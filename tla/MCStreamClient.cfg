SPECIFICATION Spec
CONSTANTS
    Last = 4
    Window = 3
    MaxBreaks = 3
INVARIANTS
    ShownWithoutHoles
CHECK_DEADLOCK FALSE
