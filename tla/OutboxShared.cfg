CONSTANTS
    e1 = e1
    e2 = e2
    e3 = e3
    p1 = p1
    p2 = p2
    Event <- TwoEvents
    Poller <- TwoPollers
    MaxRetries = 2
    BatchSize = 2
    Faults <- SharedFaults
SPECIFICATION Spec
SYMMETRY FullSymmetry
INVARIANTS
    TypeOK
    CompletedWasDelivered
    DeadWasExhausted
