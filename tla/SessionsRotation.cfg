SPECIFICATION Spec
CONSTANTS
    f1 = f1
    f2 = f2
    r1 = r1
    r2 = r2
    Family <- TwoFamilies
    Request <- TwoRequests
    MaxAttempts = 2
    LockDuration = 1
    JwtTTL = 3
    KeyTTL = 2
    MaxTime = 2
    MaxFailures = 3
    MaxMessages = 0
    Faults <- NoFault
SYMMETRY Symmetry
INVARIANTS
    TypeOK
    ReuseEndsFamily
    SpentTokensStayDead
    FailuresAreCounted

    
