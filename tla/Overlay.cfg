SPECIFICATION MCSpec
CONSTANTS
    Inputs <- MCInputs
    OpCode <- OpCodes
    Tested <- MCTested
    Buffered <- MCBuffered
    Clipped <- MCClipped
    NULL = NULL
INVARIANTS
    LabelsTellLocations
    ResultIsSetOperation
    ResultIsCanonical
    RelationsAreExact
    ValidityIsExact
    BufferIsExact
CHECK_DEADLOCK FALSE
