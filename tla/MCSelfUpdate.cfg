CONSTANTS
    NTargets = 2
    MaxVersion = 3
    Bundle = TRUE
    MaxFaults = 2
    MaxCrashes = 1
    MaxOps = 3
SPECIFICATION Spec
CHECK_DEADLOCK FALSE
INVARIANTS QuitSafe LabelMatches OneFaultIsUndone Recoverable
