SPECIFICATION FairSpec
CONSTANTS
    Threads = {t1, t2}
    Socks <- MCSocks
    SockInfo <- MCSockInfo
    Endpoints <- MCEndpoints
    AnyPort = AnyPort
    Settings <- MCSettings
    Configs <- MCConfigs
    TableCap = 1
    RingCap = 1
    MaxEvents = 2
    None = None
    st = st
    su = su
    e1 = e1
    e2 = e2
INVARIANTS
    TypeOK
    NoResidue
    
PROPERTIES
    ReportsOwnCall
    ListeningReported
CHECK_DEADLOCK FALSE
