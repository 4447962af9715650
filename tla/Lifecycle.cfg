SPECIFICATION FairSpec
CONSTANTS
    Probes <- MCProbes
    Hots = {1, 2}
    Colds = {1, 2}
    Includes = {1, 2}
    Files <- MCFiles
    MAX_RESTARTS = 3
    MaxEdits = 1
    MaxHups = 1
    MaxTerms = 1
    MaxFaults = 1
    MaxEvents = 1
    p1 = p1
    p2 = p2
    None = None
INVARIANTS
    TypeOK
    NoOrphanWorkers
    
    FailureExitsNonZero
PROPERTIES
    
    ChangeApplied
CHECK_DEADLOCK FALSE
