SPECIFICATION FairSpec
CONSTANTS
    NFiles = 2
    Addrs = {a1}
    Names = {"n1", "n2"}
    MinInterval = 1
    Telemetry = 2
    MaxEdits = 1
    MaxGone = 1
    MaxLost = 1
INVARIANT
    TypeOK
PROPERTIES
    NameFollowsFile
    NoEditMissed
    LossesTold
CHECK_DEADLOCK FALSE
