SPECIFICATION Spec
CONSTANTS
    p1 = p1
    p2 = p2
    c1 = c1
    c2 = c2
    c3 = c3
    k1 = k1
    NoKey = NoKey
    NoCaller = NoCaller
    NoEntry = NoEntry
    Procs = {p1, p2}
    Callers = {c1, c2, c3}
    ProcOf <- MCProcOf
    Keys = {k1}
    Verbs = {"tap", "scroll_until"}
    Requests <- MixedRequests
    RiskPolicy <- DefaultPolicy
    Limits <- MCLimits
    HasCompanion = TRUE
    Window = 1
    TTL = 2
    MaxTime = 0
    MaxCalls = 2
    MaxCrashes = 1
    MaxStops = 1
    Screens <- MixedScreens
INVARIANTS
    TypeOK
    SingleWriter
    EnvelopeTellsTheTruth
PROPERTIES
    StopAdmitsNoNewCall
CHECK_DEADLOCK FALSE
