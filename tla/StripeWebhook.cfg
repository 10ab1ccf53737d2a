SPECIFICATION FairSpec
CONSTANTS
    i1 = i1
    i2 = i2
    Instance = {i1, i2}
    Events = 3
    Kind <- MCKind
    InvoiceOf <- MCInvoiceOf
    NamesOrg = {1}
    RecentLimit = 3
    MaxFaults = 1
    MaxCrashes = 1
    MaxOverlaps = 1
INVARIANTS
    AuditedOnce
    AckedIsProcessed
    InvoicesKept
PROPERTIES
    AllProcessed
CHECK_DEADLOCK FALSE
