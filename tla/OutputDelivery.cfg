CONSTANTS
    None = None
    Delivery = {d1, d2}
    Reader = {r1}
    Museum = TRUE
    TierDays = None
    Days = {0, 1}
    PackageDays = 1
    MaxClock = 2
    MaxFaults = 1
    MaxCrashes = 1
    MaxDuplicates = 1
    MaxSettings = 1
SPECIFICATION Spec
SYMMETRY Deliveries
CHECK_DEADLOCK FALSE
INVARIANTS
    RetainedIsStored
    DeletedIsGone
    DeliveredIsWhole
    PackagesProved
    DeletedWhenExpired
