SPECIFICATION FairSpec
CONSTANTS
    Cpus = {c1, c2}
    Socks <- MCSocks2
    Dests <- MCDests1
    FilteredDests = {}
    RingCap = 1
    TracingCap = 1
    SessionMaxDuration = 1
    ContainerLabels = TRUE
    MaxEvents = 3
    MaxLives = 1
    s1 = s1
    s2 = s2
    d1 = d1
    d2 = d2
    None = None
PROPERTIES
    ImplementsLedger
    SessionsDrain
CHECK_DEADLOCK FALSE
