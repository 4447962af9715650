SPECIFICATION Spec
CONSTANTS
    Cpus = {c1, c2}
    Socks <- MCSocks2
    Dests <- MCDests2
    FilteredDests <- MCFiltered
    RingCap = 1
    TracingCap = 1
    SessionMaxDuration = 1
    ContainerLabels = FALSE
    MaxEvents = 3
    MaxLives = 2
    s1 = s1
    s2 = s2
    d1 = d1
    d2 = d2
    None = None
SYMMETRY Symmetry
INVARIANTS
    TypeOK
    NoDoubleCount
    OneStartPerSession
    FirstMessageStarts
CHECK_DEADLOCK FALSE
