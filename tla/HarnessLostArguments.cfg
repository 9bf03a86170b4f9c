SPECIFICATION Spec
CONSTANTS
    MaxItems = 0
    MaxRuns = 1
    MaxTurns = 2
    MaxCalls = 2
    MaxCrashes = 0
    MaxAttempts = 1
    SteeringMode = "all"
    FollowUpMode = "all"
    Parallel = TRUE
    HookRegistered = FALSE
    IdentityMayVanish = FALSE
    AdaptiveRuns = {FALSE}
    Selectors = {"settled"}
INVARIANT PendingCallKeepsItsArguments
CHECK_DEADLOCK FALSE
