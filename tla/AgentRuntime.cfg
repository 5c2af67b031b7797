SPECIFICATION Spec
CONSTANTS
    Names = {a, b}
    NoBlock = NoBlock
    Agents <- MCAgents
    Bodies <- MCBodies
    Limits = {2}
    NoLimit = NoLimit
    Garbled = Garbled
    MaxItems = 1
    VisitLimit = 2
    MaxSize = 4
INVARIANTS RunIsAccounted AcceptedRunsClean SummaryIsExact
PROPERTY Terminates
CHECK_DEADLOCK FALSE
