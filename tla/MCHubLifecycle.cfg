SPECIFICATION FairSpec
CONSTANTS
    c1 = c1
    c2 = c2
    t1 = t1
    Controls = {c1, c2}
    TokenClients = {t1}
    Calm = TRUE
    MaxTotal = 1
    MaxRequests = 3
    MaxDeaths = 1
    Scenarios <- TurnsAndDeaths
INVARIANTS
    GroupsAreSerial
    TotalIsExact
    CloseIsTerminal
PROPERTIES
    NoZombie
    IdleIsReleased
CHECK_DEADLOCK FALSE
