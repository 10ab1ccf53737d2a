SPECIFICATION Spec
CONSTANTS
    j1 = j1
    j2 = j2
    Job = {j1, j2}
    NoJob = NoJob
    s1 = s1
    Scheduler = {s1}
    TickDepths = {0, 3}
    MinWarm = 1
    Threshold = 2
    ScaleStep = 1
    OthersQueued = {0, 3}
    MaxPoolFaults = 2
    MaxPoolOverlaps = 1
    r1 = r1
    Request = {r1}
    Minutes <- MCMinutes
    Limits <- MCLimits
    Contracts = {3}
    Asked = {1}
    Months = 2
    MaxLedgerFaults = 1
    MaxLedgerOverlaps = 1
    MaxPriceChanges = 1
CONSTRAINTS
    Disturbances
    Apart
SYMMETRY JobSymmetry
INVARIANTS
    ColdIsOwn
    LeasesMatchJobs
    PoolSettles
    UsedIsCharged
    
CHECK_DEADLOCK FALSE
