SPECIFICATION FairSpec
CONSTANTS
    c1 = c1
    c2 = c2
    c3 = c3
    c4 = c4
    Callers <- MCCallers
    MaxRequests = 5
    ClosedBound = 10
INVARIANTS
    TypeOK
    ClosedAccounting
    ProbeAccounting
PROPERTIES
    ClosesOnlyAfterAllProbes
    StaleCallsAreIgnored
    HalfOpenEnds
    OpenProbes
    ImplementsGate
CHECK_DEADLOCK FALSE
