SPECIFICATION Spec
CONSTANTS
    w1 = w1
    w2 = w2
    m1 = m1
    m2 = m2
    m3 = m3
    Workers <- MCWorkers
    Messages <- MCMessages
    MaxTrials = 2
\* Start has returned, the workers have stopped: the consumer is over.
CHECK_DEADLOCK FALSE
INVARIANTS
    ChargesMatchVerdicts
    CountsAreExact
    AbandonedUncharged
PROPERTIES
    NoChargeAfterGraceful
    StartReturns
