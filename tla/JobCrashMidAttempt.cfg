SPECIFICATION Spec
CONSTANTS
    j1 = j1
    Job = {j1}
    w1 = w1
    Worker = {w1}
    SegmentCount = 1
    MaxAttempts = 1
    UnsupportedTier = {}
    AtomicCancel = TRUE
    FaultPoints <- NoStep
    MaxFaults = 0
    MaxCrashes = 1
    MaxDuplicates = 0
INVARIANTS
    CompletedIsWhole
CHECK_DEADLOCK FALSE
