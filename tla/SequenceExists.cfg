SPECIFICATION MCSpec
CONSTANTS
    Picture <- Web
    Line <- MCLine
    Pts <- MCPts
    NULL = NULL
    NDEBUG = TRUE
    Order = TRUE
    Tools = {"sequencer"}
    SiteSets <- MCSiteSets
    Tolerances = {0, 5}
    Linears <- MCLinearSet
    Asked <- MCAsked
    Inputs <- MCInputs
    MaxIters = {5}
INVARIANT EulerianIsSequenced
CHECK_DEADLOCK FALSE
