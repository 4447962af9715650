SPECIFICATION FairSpec
CONSTANTS
    AddrBits = 2
    MaxPort = 3
    MaxRanges = 2
    Configs <- MCConfigs
    SizeMax = 4
    SizeScaling = 2
    Headroom = 0
    MaxChanges = 3
    None = None
INVARIANTS
    TypeOK
    ReloadExact
    NetBetween
    PortBetween
    CrashIsConfig
PROPERTY
    ChangesTaken
CHECK_DEADLOCK FALSE
