SPECIFICATION FairSpec
CONSTANTS
    MaxItems = 1
    MaxRuns = 1
    MaxTurns = 2
    MaxCalls = 2
    MaxCrashes = 1
    MaxAttempts = 2
    SteeringMode = "all"
    FollowUpMode = "one-at-a-time"
    Parallel = TRUE
    HookRegistered = TRUE
    IdentityMayVanish = TRUE
    AdaptiveRuns = {FALSE, TRUE}
    Selectors = {"settled"}
INVARIANTS
    TypeOK PhaseIsOwned OneResultPerCall OrderedUnlessInterleaved
PROPERTIES
    AttemptsAreNeverRepeated NoUnsafeReplay DriveReturns CancelledRunCloses
CHECK_DEADLOCK FALSE
