SPECIFICATION Spec
CONSTANTS
    Calls = {1}
    Kinds = {"tap"}
    MaxActive = 1
    MaxConns = 2
    MaxTree = 0
    MaxDeaths = 0
    MaxStops = 0
INVARIANTS
    InputGoesInOnce
CHECK_DEADLOCK FALSE
