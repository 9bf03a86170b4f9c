SPECIFICATION Spec
CONSTANTS
    MaxBatches = 1
    MaxFailures = 2
    MaxCalls = 2
    SteeringMode = "one-at-a-time"
    FollowUpMode = "all"
    Modes = {"parallel", "sequential"}
    MaxInputs = 2
    MaxRetries = 1
    MaxBreaks = 1
    MaxCompactions = 1
    MaxKept = 2
INVARIANTS TypeOK QueuesAreMirrored ContextIsTranscript SessionHoldsTheTranscript
    ContinuationsStart
PROPERTIES  ImplementsConversation SessionSettles
CHECK_DEADLOCK FALSE
