SPECIFICATION Spec
CONSTANTS
    c1 = c1
    c2 = c2
    Clients = {c1, c2}
    Discovered = {c1}
    Apps = {"home"}
    Commands <- Mixed
    QueueMax = 1
    Reuse = FALSE
    MacroSteps = 1
    MaxJobs = 2
    MaxConns = 3
    MaxPolls = 1
    MaxSnaps = 2
    MaxEvents = 1
INVARIANTS
    JobsActOnWhatTheyJudged
PROPERTIES
    StopIsABarrier
    RequestsAnswered
CHECK_DEADLOCK FALSE
