SPECIFICATION Spec
CONSTANTS
    j1 = j1
    Job = {j1}
    w1 = w1
    Worker = {w1}
    SegmentCount = 1
    MaxAttempts = 1
    UnsupportedTier = {}
    AtomicCancel = TRUE
    FaultPoints <- EveryStep
    MaxFaults = 1
    MaxCrashes = 0
    MaxDuplicates = 0
INVARIANTS
    OnlySuccessIsMetered
CHECK_DEADLOCK FALSE
