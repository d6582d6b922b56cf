SPECIFICATION Spec
CONSTANTS
    MaxNodes = 4
    MaxClusterId = 3
INVARIANTS ParentsRankedBelow
CHECK_DEADLOCK FALSE
