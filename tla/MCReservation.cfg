SPECIFICATION Spec
CONSTANTS
    r1 = r1
    r2 = r2
    concert = concert
    ann = ann
    bob = bob
    Requests <- MCRequests
    Bookings <- MCBookings
    MaxTrials = 2
    MaxCrashes = 1
INVARIANTS
    PurchasesMatchTickets
    CreatedMeansStored
    MessagesFollowPurchases
    OrphansHaveFailures
PROPERTY
    RequestsEnd
    ImplementsBooking
