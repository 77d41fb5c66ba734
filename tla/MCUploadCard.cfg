CONSTANTS
    BackoffBase = 1
    BackoffCap = 1
    MaxTries = 1
    WithSidecar = FALSE
    MaxRows = 2
    MaxInserts = 2
    MaxFaults = 1
    MaxTouches = 2
    MaxMetered = 1
    MaxResets = 1
SPECIFICATION Spec
CHECK_DEADLOCK FALSE
INVARIANTS DoneIsStored CopyKept
PROPERTIES UserFilesKept
