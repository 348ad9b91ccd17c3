SPECIFICATION FairSpec
CONSTANTS
    MaxSteps = 2
    MaxCalls = 1
    CallLimit <- Chain
    MaxDeltas = 1
    PersistEvery = 1
    Concurrency = 1
    MaxFaults = 1
INVARIANTS
    ModelSeesOutcomes
PROPERTIES
    FinishedStepsKept
    NoModelCallAfterStop
    RunEnds
CHECK_DEADLOCK FALSE
