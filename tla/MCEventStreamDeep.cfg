SPECIFICATION FairSpec
CONSTANTS
    GLOBAL_DOMAIN = g
    Domains = {g}
    MaxCount = 1
    MaxBytes = 9
    Ttl = 1
    Clients = {c1}
    Sizes = {1}
    QueueItems = 2
    BufferBytes = 9
    MaxFrameBytes = 2
    MaxSeq = 2
    MaxLoss = 2
    MaxDrops = 1
    MaxTime = 1
    MaxEpoch = 2
INVARIANTS LossIsSignalled ReturningClientIsSafe
PROPERTIES ImplementsFeed EveryoneCatchesUp
