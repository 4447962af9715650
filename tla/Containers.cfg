SPECIFICATION FairSpec
CONSTANTS
    Containers = {c1, c2, c3}
    Matching = {c1, c2}
    NsIds = {n1, n2}
    MapSize = 1
    MaxLives <- MCLives
    MaxStarts = 3
    MaxPeriods = 1
    MaxFaults = 1
    c1 = c1
    c2 = c2
    c3 = c3
    n1 = n1
    n2 = n2
    None = None
    Missing = Missing
INVARIANTS
    TypeOK
    
PROPERTIES
    StartAttaches
    StopDetaches
CHECK_DEADLOCK FALSE
