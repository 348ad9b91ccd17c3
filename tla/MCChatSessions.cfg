SPECIFICATION Spec
CONSTANTS
    Sessions = {s1}
    Chats = {c1, c2}
    Stops = {t1}
    Resumes = {q1, q2}
    Inputs = {i1, i2}
    Background = {i2}
    None = None
    Aborted = Aborted
INVARIANTS
    TypeOK
    TableHoldsOnlyLiveChats
    ReachableUnlessOverlapped
    ResolvedAnswerIsPending
    OutcomeIsJustified
CHECK_DEADLOCK FALSE
SYMMETRY Interchangeable
