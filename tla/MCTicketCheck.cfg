SPECIFICATION Spec
CONSTANTS
    s1 = s1
    s2 = s2
    u1 = u1
    v1 = v1
    t1 = t1
    Scans <- MCScans
    Updates <- MCUpdates
    Readers <- MCReaders
    Tickets <- MCTickets
    Unknown = Unknown
    MaxTrials = 2
    MaxDBErrors = 1
SYMMETRY Symmetry
INVARIANTS
    ValidWasActive
    InvalidWasInactive
    SlotsMatchCalls
