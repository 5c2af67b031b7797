SPECIFICATION EngineSpec
CONSTANTS
    Id = {n1, n2, n3}
    MaxNodes = 3
    MaxAfter = 2
    Agents = {"a", "ab"}
    Starting <- StartingWith
    Snapshots = {s1, s2}
    Endpoints <- TwoEndpoints
    Strategies = {"Retry", "Reschedule", "Abort"}
    MaxRetries = 2
    MaxTime = 1
    MaxCalls = 2
    WriteFaults = FALSE
    Nothing = Nothing
    Torn = Torn
INVARIANTS VerdictIsSound ConfirmedIsKept RestoreFinds
PROPERTIES ImplementsContract CheckpointReturns
CHECK_DEADLOCK FALSE
