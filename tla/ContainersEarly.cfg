SPECIFICATION FairSpec
CONSTANTS
    Containers = {c1}
    Matching = {c1}
    NsIds = {n1, n2}
    MapSize = 2
    MaxLives <- MCLives
    MaxStarts = 1
    MaxPeriods = 0
    MaxFaults = 0
    c1 = c1
    c2 = c2
    c3 = c3
    n1 = n1
    n2 = n2
    None = None
    Missing = Missing
PROPERTY
    SecondTryAttaches
CHECK_DEADLOCK FALSE
