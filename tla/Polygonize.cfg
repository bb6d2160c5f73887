SPECIFICATION MCSpec
CONSTANTS
    Districts <- MCDistricts
    Line <- MCLine
    Pts <- MCPts
    NULL = NULL
    NDEBUG = FALSE
    MaxCalls = 2
INVARIANTS
    TypeOK
    DanglesAreTheNonCore
    DangleReportedOnce
    CutEdgesAreTheBridges
    RingsPartitionTheEdges
    PolygonsTileTheEnclosedArea
    ResultsComplete
PROPERTY DeleteDanglesEnds
CHECK_DEADLOCK FALSE
