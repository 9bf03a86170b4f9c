SPECIFICATION Spec
CONSTANTS
    Handles = {x1, x2}
    MaxTx = 1
    OverlappingCalls = TRUE
INVARIANT OneWriter
CHECK_DEADLOCK FALSE
