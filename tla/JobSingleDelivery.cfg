SPECIFICATION Spec
CONSTANTS
    j1 = j1
    Job = {j1}
    w1 = w1
    Worker = {w1}
    SegmentCount = 2
    MaxAttempts = 3
    UnsupportedTier = {}
    AtomicCancel = TRUE
    FaultPoints <- BeforeCharge
    MaxFaults = 1
    MaxCrashes = 0
    MaxDuplicates = 0
INVARIANTS
    CompletedIsWhole
    CountersExact

    
CHECK_DEADLOCK FALSE
