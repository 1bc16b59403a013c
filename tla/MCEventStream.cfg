SPECIFICATION Spec
CONSTANTS
    GLOBAL_DOMAIN = g
    Domains = {g}
    MaxCount = 2
    MaxBytes = 9
    Ttl = 1
    Clients = {c1, c2}
    Sizes = {1}
    QueueItems = 2
    BufferBytes = 9
    MaxFrameBytes = 2
    MaxSeq = 3
    MaxLoss = 1
    MaxDrops = 1
    MaxTime = 0
    MaxEpoch = 1
SYMMETRY Symmetry
INVARIANT NothingFallsInTheGap
