SPECIFICATION Spec
CONSTANTS
    Sessions = {s1}
    Chats = {c1, c2}
    Stops = {t1}
    Resumes = {}
    Inputs = {}
    Background = {}
    None = None
    Aborted = Aborted
INVARIANT OneActiveAgent
CHECK_DEADLOCK FALSE
