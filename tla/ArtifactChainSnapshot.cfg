SPECIFICATION SessionSpec
CONSTANTS
    Id = {a, b, c}
    Slots <- TwoCapabilities
    MaxNodes = 3
    MaxAfter = 2
    MaxMocks = 2
INVARIANT SnapshotPossible
SYMMETRY IdSymmetry
CHECK_DEADLOCK FALSE
