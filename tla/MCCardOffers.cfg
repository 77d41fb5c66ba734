CONSTANTS
    Cards = {c1, c2}
    Others = {nas}
    Resumers = {r1}
    AutoEject = TRUE
    LockRetries = 1
    MaxInserts = 2
    MaxPauses = 3
    MaxEvents = 1
SPECIFICATION Spec
CHECK_DEADLOCK FALSE
INVARIANTS OfferedOncePerInsertion NoReportLost
PROPERTIES DismountedIdle EventuallyOffered
