SPECIFICATION Spec
CONSTANTS
    Keys = {k1, k2}
    Bodies = {b1, b2}
    MaxCalls = 3
    MaxLosses = 2
INVARIANTS
    TypeOK KeysAreUnique SequenceNumbersIncrease
CHECK_DEADLOCK FALSE
