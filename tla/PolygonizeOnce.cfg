SPECIFICATION MCSpec
CONSTANTS
    Districts <- MCYard
    Line <- MCLine
    Pts <- MCPts
    NULL = NULL
    NDEBUG = TRUE
    MaxCalls = 2
PROPERTY PerformedOnce
CHECK_DEADLOCK FALSE
