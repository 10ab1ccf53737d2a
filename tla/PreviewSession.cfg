SPECIFICATION FairComposedSpec
CONSTANTS
    c1 = c1
    t1 = t1
    t2 = t2
    a1 = a1
    a2 = a2
    Client = {c1}
    MaxVersions = 2
    Supabase = FALSE
    FaultPoints <- BeforeDispatch
    MaxFaults = 2
    MaxExpiries = 0
    MaxPublishes = 3
    Tab = {t1, t2}
    Durations <- OneAndTwo
    Requests <- SomeRequests
    Capped = TRUE
    MaxCalls = 3
    MaxCallFaults = 1
    Named = "unknown"
    Image = FALSE
    Mystery = FALSE
    Analyst = {a1, a2}
    MaxEraCalls = 2
INVARIANTS
    PublishedOnce
    PendingIsRetryable
    ConfiguredAsAsked
    PreferencesKept
    PreviewOfItsConfiguration
PROPERTIES
    FinishedJobKept
    PendingSettles
CONSTRAINT Apart
CHECK_DEADLOCK FALSE
