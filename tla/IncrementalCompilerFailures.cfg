SPECIFICATION Spec
CONSTANTS
    Modules = {1}
    Outside = {}
    Sources = {x}
    Broken = Broken
    MaxEdits = 3
INVARIANT FailuresAreNotUpToDate
