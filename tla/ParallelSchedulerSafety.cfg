SPECIFICATION Spec
CONSTANTS
    Id = {a, b, c}
    NoNode = NoNode
    MaxNodes = 3
    MaxThreads = 2
    Attempts = {0, 2}
    Modes = {"FailFast", "ContinueOnError"}
SYMMETRY IdSymmetry
INVARIANTS VerdictIsExact RunsAfterDependencies ReportIsSound NoLostWakeup OutcomeInv FailFastStops
CHECK_DEADLOCK FALSE
