SPECIFICATION FairSpec
CONSTANTS
    m1 = m1
    m2 = m2
    m3 = m3
    w1 = w1
    w2 = w2
    a1 = a1
    e1 = e1
    e2 = e2
    e3 = e3
    Message <- ThreeMessages
    Worker <- TwoWorkers
    Aggregate <- OneAggregate
    aggregateId <- PerAccount
    eventType <- WithInvite
    Event <- ThreeEvents
    eventOf <- Distinct
    MaxRetries = 2
    MaxAttempts = 2
    MaxDeliveries = 3
    Faults <- AllFaults
CHECK_DEADLOCK FALSE
INVARIANTS
    TypeOK
    SentWasMailed
    SkippedWasHandled
    AckedIsDecided
PROPERTIES
    SettledStaysSettled
    EventuallyAcked
