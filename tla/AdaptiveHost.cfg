SPECIFICATION HostSpec
CONSTANTS
 Candidates = {0, 1, 2}
 Identical = {2}
 PathCount = 2
 NewPaths = {2}
 Base = base
 Edit = edit
 None = none
 MaxEdits = 1
 MaxFaults = 1
 MaxCrashes = 1
 ChildCount = 2
 MaxCalls = 3
 DirectCandidates = {0, 1}
CHECK_DEADLOCK FALSE

INVARIANTS
 TaskTypeOK
 OneCandidateInForeground
 RolledBackIsRestored
 CopiesOutliveNeed
 NoTwinRuns
 ReadyIsComplete
 EndsAreAccountedFor
PROPERTIES
 EditsSurvive
 ReceiptIsFinal
 LanesTakeTurns
 ImplementsTaskContract
 RunReturns
