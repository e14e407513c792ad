SPECIFICATION Spec
CONSTANTS
    c1 = c1
    c2 = c2
    Clients = {c1}
    Discovered = {c1}
    Apps = {"home", "bank"}
    Commands <- Pinned
    QueueMax = 1
    Reuse = FALSE
    MacroSteps = 1
    MaxJobs = 2
    MaxConns = 4
    MaxPolls = 2
    MaxSnaps = 2
    MaxEvents = 1
PROPERTIES
    PinnedForeground
CHECK_DEADLOCK FALSE
