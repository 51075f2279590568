SPECIFICATION FairSpec
CONSTANTS
    g1 = g1
    g2 = g2
    None = None
    Reg <- TwoRegs
    MaxCalls = 2
    Faults <- AllFaults
CHECK_DEADLOCK FALSE
INVARIANTS
    TypeOK
    SessionHasAccount
    EventIffStored
    FailureIsCompensated
PROPERTY
    RegistrationEnds
