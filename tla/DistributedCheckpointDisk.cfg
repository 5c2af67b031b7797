SPECIFICATION Spec
CONSTANTS
    Agents = {"a", "ab"}
    Starting <- StartingWith
    Snapshots = {s1, s2}
    Endpoints <- TwoEndpoints
    Strategies = {"Retry", "Reschedule", "Abort"}
    MaxRetries = 2
    MaxTime = 1
    MaxCalls = 2
    WriteFaults = TRUE
    Nothing = Nothing
    Torn = Torn
INVARIANT FilesAreWhole
CHECK_DEADLOCK FALSE
