SPECIFICATION Spec
CONSTANTS
    Keys = {k1, k2}
    Bodies = {b1, b2}
    MaxCalls = 2
    MaxLosses = 1
INVARIANT TornTailIsRecovered
CHECK_DEADLOCK FALSE
