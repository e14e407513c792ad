SPECIFICATION Spec
CONSTANTS
    Calls = {1, 2}
    Kinds = {"look", "text", "node"}
    MaxActive = 2
    MaxConns = 2
    MaxTree = 1
    MaxDeaths = 1
    MaxStops = 1
INVARIANTS
    CompanionActsOnce
    RefusalIsFinal
    StopHonoured
    OnlyOwnAnswersArrive
PROPERTIES
    NodeActsOnTreeSeen
    CallsEnd
CHECK_DEADLOCK FALSE
