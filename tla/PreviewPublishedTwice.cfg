SPECIFICATION Spec
CONSTANTS
    c1 = c1
    c2 = c2
    Client = {c1, c2}
    MaxVersions = 1
    Supabase = FALSE
    FaultPoints <- None
    MaxFaults = 0
    MaxExpiries = 0
    MaxPublishes = 2
SYMMETRY Clients
INVARIANTS
    PublishedOnce
CHECK_DEADLOCK FALSE
