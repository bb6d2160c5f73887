SPECIFICATION Spec
CONSTANTS
    Object = {1, 2, 3, 4, 5}
    Sizes = {1, 4}
    Closed = 4
    NULL = NULL
    Handlers = {h1, h2}
    MaxCalls = 5
    Classes = {"multiline"}
    PointArguments = {1}
INVARIANT PointersAreSound
INVARIANT NothingOwnedIsLost
INVARIANT FailuresAreTold
CHECK_DEADLOCK FALSE
SYMMETRY PermuteHandlers
