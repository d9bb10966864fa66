SPECIFICATION Spec
CONSTANTS
    r1 = r1
    r2 = r2
    r3 = r3
    r4 = r4
    festival = festival
    summit = summit
    NoRow = NoRow
    Null = Null
    Requests <- MCRequests
    Events <- MCEvents
    InitialRows <- MCInitialRows
    NewTotals <- MCNewTotals
    Quantities <- MCQuantities
    MaxRequests = 1
    ClosedBound = 4
SYMMETRY RequestSymmetry
INVARIANT NoOverselling
