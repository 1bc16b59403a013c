SPECIFICATION Spec
CONSTANTS
    s1 = s1  s2 = s2  m1 = m1  m2 = m2  m3 = m3  c1 = c1  c2 = c2
    Parts <- MCParts
    Sids = {s1, s2}
    SidOf <- MCSidOf
    Messages = {m1, m2, m3}
    MsgOf <- MCMsgOf
    SidOfMsg <- MCSidOfMsg
    Subs = {c1}
    SubSid <- MCSubSid
    MaxSubs = 1
    QueueItems = 1
    PartMax = 2
    LiveMax = 2
    LivePartsMax = 2
    PendingMax = 1
    FlushBytes = 2
    TombstonesMax = 1
    DeletedMax = 1
    ResyncCap = 1
    IdleBurst = 1
    Sizes = {1}
    MaxText <- MCMaxText
    Watched <- MCParts
    Scenarios <- MCReconnectOnly
PROPERTY EvictedNeverResumes
