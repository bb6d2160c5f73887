SPECIFICATION MCSpec
CONSTANTS
    Picture <- Web
    Line <- MCLine
    Pts <- MCPts
    NULL = NULL
    NDEBUG = FALSE
    Order = TRUE
    Tools = {"merger", "sequencer", "referencer", "triangulator", "noder"}
    SiteSets <- MCSiteSets
    Tolerances = {0, 5}
    Linears <- MCLinearSet
    Asked <- MCAsked
    Inputs <- MCInputs
    MaxIters = {0, 5}
INVARIANT MergedLinesAreTheChains
PROPERTY SequenceIsAPath
INVARIANT LinearReferencesAgree
INVARIANT TriangulationIsDelaunay
PROPERTY MergeIsIncremental
INVARIANT IteratedIsFullyNoded
INVARIANT InputSurvives
PROPERTY CallEnds
CHECK_DEADLOCK FALSE
