SPECIFICATION FairSpec
CONSTANTS
    Probes <- MCProbes
    Hots = {1, 2}
    Colds = {1, 2}
    Includes = {1, 2}
    Files <- MCHot
    MAX_RESTARTS = 2
    MaxEdits = 1
    MaxHups = 1
    MaxTerms = 0
    MaxFaults = 0
    MaxEvents = 1
    p1 = p1
    p2 = p2
    None = None
PROPERTY
    HotSwapAfterRestart
CHECK_DEADLOCK FALSE
