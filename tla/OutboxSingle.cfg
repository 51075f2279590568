CONSTANTS
    e1 = e1
    e2 = e2
    e3 = e3
    p1 = p1
    p2 = p2
    Event <- ThreeEvents
    Poller <- OnePoller
    MaxRetries = 2
    BatchSize = 2
    Faults <- NoLostReply
SPECIFICATION Spec
SYMMETRY EventSymmetry
INVARIANTS
    RetryCountIsFailures
    BoundedDelivery
    CommittedFirst
PROPERTIES
    KeepsPromise
