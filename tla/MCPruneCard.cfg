CONSTANTS
    Files = {f1}
    Contents = {c1, c2}
    MaxName = 2
    MaxRows = 2
    MaxCrash = 1
    MaxMeddle = 3
    UserAnywhere = FALSE
SPECIFICATION PruneSpec
CHECK_DEADLOCK FALSE
SYMMETRY Symmetry
INVARIANTS SafeToWipe ClaimsApart
PROPERTIES PruneLeavesMaster
