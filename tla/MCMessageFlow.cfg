SPECIFICATION Spec
CONSTANTS
    t1 = t1
    t2 = t2
    Tickets <- MCTickets
    Sample = Sample
    MaxRestarts = 1
    MaxOutages = 1
INVARIANTS
    RequestedOnce
PROPERTIES
    LoopsComeBack
    ImplementsChain
CHECK_DEADLOCK FALSE
