SPECIFICATION MCSpec
CONSTANTS
    NULL = NULL
    Operands <- MCOperands
    Fronts = {"binary", "enhanced", "snapIfNeeded"}
    MaxScale = 10000
    Distances = {1, 2}
    Models <- MCModels
    MaxCalls = 1
    MAX_PRECISION_DIGITS = 12
    MIN_PRECISION_DIGITS = 6
INVARIANT ExceptionIsTheOriginal
INVARIANT ResultBelongsToOperands
INVARIANT ScaleWithinInput
INVARIANT BufferAnswersTheCall
PROPERTY CallEnds
CHECK_DEADLOCK FALSE
