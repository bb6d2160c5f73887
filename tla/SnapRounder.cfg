SPECIFICATION Spec
CONSTANTS
    Inputs <- SnapInputs
    MaxIters = {5}
INVARIANTS
    SnapRoundedIsFullyNoded
