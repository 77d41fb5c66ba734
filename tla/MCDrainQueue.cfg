\* Every shape of file, two faults, one intervention, passes that take time and a
\* dwell that is longer, rows old enough to be swept.
CONSTANTS
    N = 1
    Shapes <- AllShapes
    BackoffBase = 1
    BackoffCap = 1
    MaxTries = 1
    Dwell = 2
    Retention = 0
    GCInterval = 1
    ServerLag = 0
    MaxPass = 1
    MaxTime = 3
    Quiet = 4
    MaxFaults = 2
    MaxMeddle = 1
SPECIFICATION Spec
INVARIANTS
    ArchivedIsVerified
    Bucketed
    Tier3IsArchived
    SubmittedWasAccepted
    CollectedIsSafe
    NoBareNode
    OneFaultIsSurvived
PROPERTIES
    ForeignUntouched
    NoRegression
