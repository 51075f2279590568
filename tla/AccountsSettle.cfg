SPECIFICATION FairSpec
CONSTANTS
    r1 = r1
    r2 = r2
    w1 = w1
    w2 = w2
    Request <- TwoRequests
    Consumer <- OneConsumer
    Op <- ReadAndWrite
    MaxChanges = 2
    Wire = "envelope"
    Faults <- RedisFaults
CHECK_DEADLOCK FALSE
PROPERTIES
    StaleViewsFade
    DeletionReachesCredential
