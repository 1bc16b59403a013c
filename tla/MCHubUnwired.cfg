SPECIFICATION Spec
CONSTANTS
    c1 = c1
    c2 = c2
    t1 = t1
    Controls = {c1}
    TokenClients = {t1}
    Calm = TRUE
    MaxTotal = 1
    MaxRequests = 2
    MaxDeaths = 0
    Scenarios <- TwoArrivals
INVARIANT
    HubIsWired
CHECK_DEADLOCK FALSE
