SPECIFICATION Spec
CONSTANTS
    f1 = f1
    f2 = f2
    r1 = r1
    r2 = r2
    Family <- TwoFamilies
    Request <- TwoRequests
    MaxAttempts = 2
    LockDuration = 1
    JwtTTL = 2
    KeyTTL = 3
    MaxTime = 1
    MaxFailures = 0
    MaxMessages = 1
    Faults <- AllFaults
SYMMETRY Symmetry
INVARIANTS
    DeletionRevokesExisting
PROPERTIES
    TokensKeepPromise
