SPECIFICATION Spec
CONSTANTS
    p1 = p1
    p2 = p2
    c1 = c1
    c2 = c2
    c3 = c3
    k1 = k1
    NoKey = NoKey
    NoCaller = NoCaller
    NoEntry = NoEntry
    Procs = {p1, p2}
    Callers = {c1, c3}
    ProcOf <- TwoProcs
    Keys = {"draft", "send"}
    Verbs = {"tap"}
    Requests <- KeyedRequests
    RiskPolicy <- DefaultPolicy
    Limits <- NoLimits
    HasCompanion = FALSE
    Window = 1
    TTL = 2
    MaxTime = 0
    MaxCalls = 1
    MaxCrashes = 0
    MaxStops = 0
    Screens <- PlainScreen
INVARIANT
    EveryInputAudited
CHECK_DEADLOCK FALSE
