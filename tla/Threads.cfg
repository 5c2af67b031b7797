SPECIFICATION EngineSpec
CONSTANTS
    Id = {a, b, c}
    NoNode = NoNode
    MaxNodes = 3
    MaxThreads = 2
    Attempts = {1}
    Modes = {"FailFast", "FailGraceful", "ContinueOnError"}
    Callers = {c1, c2}
    Bindings = {b1}
    NoBinding = NoBinding
    Thresholds = {1, 2}
    Retries = {0, 1}
    MaxConnections = 1
    MaxPerHost = 2
INVARIANTS BreakerIsExact AttemptsAreTrue
PROPERTIES Returns ImplementsContract CircuitsRecover
CHECK_DEADLOCK FALSE
