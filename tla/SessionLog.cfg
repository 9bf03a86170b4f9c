SPECIFICATION FairSpec
CONSTANTS
    Handles = {x1, x2, x3}
    MaxTx = 3
    OverlappingCalls = FALSE
INVARIANTS
    TypeOK
PROPERTIES
    ImplementsDurableLog CloseReleases
CHECK_DEADLOCK FALSE
