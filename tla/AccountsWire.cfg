SPECIFICATION FairSpec
CONSTANTS
    r1 = r1
    r2 = r2
    w1 = w1
    w2 = w2
    Request <- TwoRequests
    Consumer <- OneConsumer
    Op <- Deletions
    MaxChanges = 2
    Wire = "payload"
    Faults <- NoFault
CHECK_DEADLOCK FALSE
PROPERTY
    DeletionReachesCredential
