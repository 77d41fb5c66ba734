\* Faults and interventions until Quiet, fair passes.
CONSTANTS
    N = 1
    Shapes <- AllShapes
    BackoffBase = 1
    BackoffCap = 1
    MaxTries = 1
    Dwell = 3
    Retention = 9
    GCInterval = 9
    ServerLag = 1
    MaxPass = 1
    MaxTime = 6
    Quiet = 1
    MaxFaults = 2
    MaxMeddle = 2
SPECIFICATION FairSpec
PROPERTIES
    EventuallySettled
    EventuallyRegistered
