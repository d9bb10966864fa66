SPECIFICATION WindowSpec
CONSTANTS
    r1 = r1
    r2 = r2
    r3 = r3
    r4 = r4
    r5 = r5
    r6 = r6
    Requests <- MCRequests
    WINDOW_SIZE = 3
    MAX_REQUESTS = 2
    MIN_INTERVAL = 1
    AtOnce = 2
    MaxTime = 4
    MaxFailures = 1
\* Every request is answered and the clock has stopped.
CHECK_DEADLOCK FALSE
SYMMETRY Symmetry
INVARIANTS
    WindowBound
    KeyExpires
PROPERTY AloneIsExact
