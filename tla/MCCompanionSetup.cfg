SPECIFICATION Spec
CONSTANTS
    Builds <- MCBuilds
    None = None
    Attempts = 3
    Delay = 2
    MaxTokens = 3
    MaxRuns = 3
    MaxUpsets = 3
INVARIANTS
    RerunsRepair
PROPERTIES
    OthersStayOn
CHECK_DEADLOCK FALSE
