SPECIFICATION ResourcesSpec
CONSTANTS
    Clients = {c1, c2}
    Hosts = {h1, h2}
    NoHost = NoHost
    MaxConnections = 3
    MaxPerHost = 2
    Workers = {w1, w2}
    Tasks = {t1, t2, t3}
    NoTask = NoTask
    Closers = {d1, d2}
    Keys = {k1, k2, k3}
    MaxEntries = 2
    Ttl = 2
INVARIANTS SlotsAreExact ShutdownDrains OrderMatchesEntries HitsAreFresh
PROPERTIES SubmittedRuns ShutdownReturns
CHECK_DEADLOCK FALSE
