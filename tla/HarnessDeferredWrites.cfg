SPECIFICATION Spec
CONSTANTS
    MaxItems = 1
    MaxRuns = 1
    MaxTurns = 1
    MaxCalls = 0
    MaxCrashes = 0
    MaxAttempts = 1
    SteeringMode = "all"
    FollowUpMode = "all"
    Parallel = TRUE
    HookRegistered = FALSE
    IdentityMayVanish = FALSE
    AdaptiveRuns = {FALSE}
    Selectors = {"settled"}
INVARIANT AcceptedWritesAreApplied
CHECK_DEADLOCK FALSE
