SPECIFICATION TreeSpec
CONSTANTS
    Texts = {"", "a", "b"}
    Selectors <- MCSelectors
    None = None
    MaxNodes = 4
    MaxFields = 2
INVARIANTS
    IndicesMeanNodes
CHECK_DEADLOCK FALSE
