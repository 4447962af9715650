SPECIFICATION Spec
CONSTANTS
    Cpus = {c1}
    Socks <- MCSocks2
    Dests <- MCDests2
    FilteredDests <- MCFiltered
    RingCap = 9
    TracingCap = 2
    SessionMaxDuration = 1
    ContainerLabels = FALSE
    MaxEvents = 4
    MaxLives = 2
    s1 = s1
    s2 = s2
    d1 = d1
    d2 = d2
    None = None
INVARIANTS
    CloseReportsExact
    TrackedIsTraced

    
CHECK_DEADLOCK FALSE
