SPECIFICATION Spec
CONSTANTS
    s1 = s1
    s2 = s2
    Sids = {s1, s2}
    FaultModels = {{"write", "power"}, {"dir_fsync"}}
    Legacy = 1
    WriteAttempts = 2
    TurnsMax = 1
    MaxBoots = 2
    MaxTurn = 1
SYMMETRY Symmetry
INVARIANTS
    StampCoversStatus
    StatusIsNewest
PROPERTIES
    IncarnationIsFresh
    DigestNeverRegresses
CHECK_DEADLOCK FALSE
