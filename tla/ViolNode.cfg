SPECIFICATION Spec
CONSTANTS
    Calls = {1, 2, 3}
    Kinds = {"look", "node"}
    MaxActive = 2
    MaxConns = 2
    MaxTree = 1
    MaxDeaths = 0
    MaxStops = 0
PROPERTIES
    NodeBoundToItsObservation
CHECK_DEADLOCK FALSE
