SPECIFICATION MCSpec
CONSTANTS
    Kinds = {"tree", "quad", "bin", "interval"}
    NULL = NULL
    nodeCapacity = 2
    NDEBUG = FALSE
    MaxInserts = 4
    Unit = 4
    MaxLevel = 5
    MIN_BINARY_EXPONENT <- MCExponent
    Entries <- MCEntries
    Searches <- MCSearches
INVARIANT QuadsAreConnected
PROPERTY ImplementsSpatialIndex
PROPERTY CallsConverge
CHECK_DEADLOCK FALSE
