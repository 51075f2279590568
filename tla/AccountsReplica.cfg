SPECIFICATION Spec
CONSTANTS
    r1 = r1
    r2 = r2
    w1 = w1
    w2 = w2
    Request <- TwoRequests
    Consumer <- TwoConsumers
    Op <- AllOps
    MaxChanges = 2
    Wire = "envelope"
    Faults <- DatabaseFaults
SYMMETRY Symmetric
CHECK_DEADLOCK FALSE
INVARIANTS
    TypeOK
    SellerIsReplicated
    ReplicaConverges
