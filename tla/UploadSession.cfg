SPECIFICATION FairSpec
CONSTANTS
    q1 = q1
    q2 = q2
    q3 = q3
    Request = {q1, q2, q3}
    NoRequest = NoRequest
    Size = 2
    MaxSessions = 5
    MaxInterruptions = 2
    MaxLosses = 2
    MaxExpiries = 1
    MaxFaults = 1
INVARIANTS
    CompletedIsStored
    OfferIsExact
PROPERTIES
    CompletedStays
    InterruptionsRecover
CHECK_DEADLOCK FALSE
