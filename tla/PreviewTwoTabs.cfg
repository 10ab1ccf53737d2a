SPECIFICATION Spec
CONSTANTS
    c1 = c1
    c2 = c2
    Client = {c1, c2}
    MaxVersions = 1
    Supabase = TRUE
    FaultPoints <- AllSteps
    MaxFaults = 2
    MaxExpiries = 1
    MaxPublishes = 2
SYMMETRY Clients
INVARIANTS
    LaunchedIsPublished
    PublishedWasApproved
    PublishedJobExists
CHECK_DEADLOCK FALSE
