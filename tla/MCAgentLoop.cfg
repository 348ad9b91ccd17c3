SPECIFICATION Spec
CONSTANTS
    MaxSteps = 2
    MaxCalls = 2
    CallLimit <- Batch
    MaxDeltas = 1
    PersistEvery = 1
    Concurrency = 1
    MaxFaults = 1
INVARIANTS
    TypeOK
    FaithfulHistory
    ClientAgreesOnCalls
    StoredResultHasRow
    ResultRowHasPart
    StopHaltsTools
CHECK_DEADLOCK FALSE
