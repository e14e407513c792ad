SPECIFICATION Spec
CONSTANTS
    Hosts = {"home", "other"}
    Ports = {1, 2}
    Places <- MCPlaces
    First <- MCFirst
    Elsewhere <- MCElsewhere
    ProbePorts <- MCProbe
    ScanRange = {1}
    MaxMoves = 1
    Screens <- MCScreens
    Target = "t"
    Verbs = {"tap", "tap_text", "double_tap", "key", "swipe_in", "scroll_until", "wait_for"}
    Attempts = 2
    MaxScrolls = 2
    MaxChanges = 1
    MaxCommands = 1
INVARIANTS
    GivesUpOnlyWhenGone
    PinnedInputHitsWhatWasSeen
    LockedPhoneIsLeftAlone
    OneScrollAfterStop
PROPERTIES
    CommandsEnd
CHECK_DEADLOCK FALSE
