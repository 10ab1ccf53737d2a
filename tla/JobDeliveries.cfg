SPECIFICATION Spec
CONSTANTS
    j1 = j1
    j2 = j2
    Job = {j1, j2}
    w1 = w1
    w2 = w2
    Worker = {w1, w2}
    SegmentCount = 1
    MaxAttempts = 1
    UnsupportedTier = {j2}
    AtomicCancel = FALSE
    FaultPoints <- NoStep
    MaxFaults = 0
    MaxCrashes = 1
    MaxDuplicates = 1
INVARIANTS
    
    UnsupportedNeverRuns
SYMMETRY WorkerSymmetry
CHECK_DEADLOCK FALSE
CONSTRAINT OneDisturbance
