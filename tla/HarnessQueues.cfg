SPECIFICATION Spec
CONSTANTS
    MaxItems = 2
    MaxRuns = 1
    MaxTurns = 2
    MaxCalls = 1
    MaxCrashes = 1
    MaxAttempts = 2
    SteeringMode = "one-at-a-time"
    FollowUpMode = "all"
    Parallel = TRUE
    HookRegistered = TRUE
    IdentityMayVanish = FALSE
    AdaptiveRuns = {FALSE}
    Selectors = {"settled", "post_turn"}
INVARIANTS
    OneQueuePerPendingItem EveryItemHasOneFate QueuesAreFifo DiscardsAreDeliberate
PROPERTIES
    CancelStopsWork ImplementsContract
CHECK_DEADLOCK FALSE
