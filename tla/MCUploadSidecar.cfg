CONSTANTS
    BackoffBase = 1
    BackoffCap = 1
    MaxTries = 1
    WithSidecar = TRUE
    MaxRows = 3
    MaxInserts = 2
    MaxFaults = 2
    MaxTouches = 0
    MaxMetered = 1
    MaxResets = 1
SPECIFICATION FairSpec
CHECK_DEADLOCK FALSE
INVARIANTS SidecarFollows
PROPERTIES EventuallyEnds
