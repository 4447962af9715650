SPECIFICATION Spec
CONSTANTS
    Probes <- MCProbes
    Hots = {1, 2}
    Colds = {1, 2}
    Includes = {1, 2}
    Files <- MCAdd
    MAX_RESTARTS = 3
    MaxEdits = 1
    MaxHups = 0
    MaxTerms = 0
    MaxFaults = 0
    MaxEvents = 0
    p1 = p1
    p2 = p2
    None = None
INVARIANT
    OneRestartPerChange
CHECK_DEADLOCK FALSE
