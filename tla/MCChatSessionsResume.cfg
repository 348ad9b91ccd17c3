SPECIFICATION FairSpec
CONSTANTS
    Sessions = {s1}
    Chats = {c1}
    Stops = {t1}
    Resumes = {q1, q2}
    Inputs = {i1}
    Background = {}
    None = None
    Aborted = Aborted
PROPERTY ResumeIsAnswered
CHECK_DEADLOCK FALSE
