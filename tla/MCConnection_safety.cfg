CONSTANTS
    Ids = {i1, i2}
    NoId = NoId
    MaxPending = 1
    OutputCapacity = 1
    WalletReusesIds = TRUE
    MaxReads = 3
    MaxUpstreamFrames = 2
SPECIFICATION Spec
SYMMETRY IdSymmetry
INVARIANTS
    TypeOK
    BroadcastIsolation
    PendingBounded
    BroadcastSlotOwned
    NoUnsolicitedAnswer
    FlushedMeansDelivered
    NoOrphanTasks
    AtMostOneLateRead
