SPECIFICATION ComponentsSpec
CONSTANTS
    n1 = n1
    n2 = n2
    n3 = n3
    Order <- MCOrder
    SessionId = "session"
    MaxFailures = 2
    Uris = {near, far}
    Far = {far}
    imports <- MCImports
    Texts = {x, y}
    MaxRevision = 3
    MaxSaves = 1
    Modules = {1, 2, 3}
    Outside = {elsewhere}
    Sources = {x, y}
    Broken = Broken
    MaxEdits = 1
    Undeclared = "undeclared"
    Usages = {0, 3}
    MaxTools = 2
    Fallbacks <- MCFallbacks
    Budgets <- MCBudgets
    Contexts <- MCContexts
    Prompts <- MCPrompts
    RetryLimits = {0, 1}
    RoundLimits = {0, 2}
    MaxCalls = 2
    Vaulted = {"vault:v"}
    Clouded = {"cloud:c"}
    Plain = {"p"}
    Stray = {"other:s"}
    Interval = 1
    Retries = {1, 3}
    Width = 4
    MaxVersion = 2
    MaxClock = 1
    MaxOps = 3
INVARIANTS
     VerdictFollowsRun OutcomeIsKept BlockersAreExact
    EmitIsSound AnswersAreCurrent ResultsAreComplete
    CallIsAccounted ToolsAreAnswered RotationIsFresh
CHECK_DEADLOCK FALSE
