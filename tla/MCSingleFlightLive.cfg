SPECIFICATION FairSpec
CONSTANTS
    c1 = c1
    c2 = c2
    c3 = c3
    k1 = k1
    k2 = k2
    Callers <- MCCallers
    Keys = {k1, k2}
    Reserve <- MCReserve
    Flights <- MCFlights
    Concurrency = 1
    MaxEntries = 1
    Profiles = {TRUE, FALSE}
    MaxBytes = 2
    Sizes = {1}
    MaxCancels = 2
    MaxShutdowns = 0
PROPERTY
    WaitersAreServed
