CONSTANTS
    e1 = e1
    e2 = e2
    e3 = e3
    p1 = p1
    p2 = p2
    Event <- OneEvent
    Poller <- TwoPollers
    MaxRetries = 3
    BatchSize = 2
    Faults <- BrokerFaults
SPECIFICATION FairSpec
PROPERTIES
    EventuallySettled
