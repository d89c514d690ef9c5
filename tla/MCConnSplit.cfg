SPECIFICATION Spec
CONSTANTS
    LineLen = 2
    MaxLines = 2
    MaxOutput = 0
    MaxRead = 4
    Capacity = 4
    Split = TRUE
    Flood = FALSE
INVARIANT CommandsAreLines
CHECK_DEADLOCK FALSE
