SPECIFICATION FairSpec
CONSTANTS
    c1 = c1
    c2 = c2
    i1 = i1
    i2 = i2
    d1 = d1
    d2 = d2
    d3 = d3
    Client <- TwoClients
    RequestLimit = 1
    MaxAttempts = 2
    Invite <- TwoInvites
    MaxAccepts = 3
    MaxBoots = 3
    Threshold = 2
    HalfOpenMax = 2
    MaxRequests = 2
    Limit = 2
    Window = 3
    MaxDelay = 1
    MaxTime = 5
    Dead <- DeadEvents
    FromSource <- OfOneSource
    Places = 4
    PageLimit = 1
CHECK_DEADLOCK FALSE
INVARIANTS
    TypeOK
    TriesAreBounded
    AdminsAreWhole
    CounterIsBounded
    WindowIsBounded
    ExitIsClean
    PagesAreComplete
    SessionsKeepTheirRole
PROPERTY
    BreakersRecover
