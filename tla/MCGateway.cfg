SPECIFICATION Spec
CONSTANTS
    r1 = r1
    r2 = r2
    r3 = r3
    r4 = r4
    Requests <- MCRequests
    Instance <- MCInstance
    MaxConcurrent = 2
    MaxRetries = 1
    MaxFailures = 1
\* Every request has ended and the key is gone.
CHECK_DEADLOCK FALSE
SYMMETRY Symmetry
INVARIANTS
    CountsHolders
    LimitHolds
    NoLockout
    PlacesAreReturned
