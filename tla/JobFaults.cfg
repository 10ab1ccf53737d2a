SPECIFICATION FairSpec
CONSTANTS
    j1 = j1
    Job = {j1}
    w1 = w1
    Worker = {w1}
    SegmentCount = 1
    MaxAttempts = 3
    UnsupportedTier = {}
    AtomicCancel = TRUE
    FaultPoints <- EveryStep
    MaxFaults = 1
    MaxCrashes = 1
    MaxDuplicates = 1
INVARIANTS
    ChargeIsBacked
    ChargedPerDelivery
    SuccessIsCharged
    NoJobAbandoned
    LeasesAccounted
    OutcomeAnnounced
PROPERTIES
    PublishedJobSettles
CHECK_DEADLOCK FALSE
