SPECIFICATION Spec
CONSTANTS
    Id = {a, b, c}
    NoNode = NoNode
    MaxNodes = 3
    MaxThreads = 2
    Attempts = {1}
    Modes = {"FailGraceful"}
INVARIANT GracefulStops
CHECK_DEADLOCK FALSE
