CONSTANTS
    f1 = f1
    f2 = f2
    x = x
    y = y
    Files = {f1, f2}
    Bases = {"a", "b"}
    Contents = {x, y}
    Cards <- MCCards
    Configs <- MCConfigs
    MaxSuffix = 2
    MaxFaults = 1
    MaxCrashes = 1
    MaxPasses = 2
    MaxEvents = 1
SPECIFICATION Spec
CHECK_DEADLOCK FALSE
INVARIANTS OnlineSafeToWipe OnlineRegistered MetadataIsOwn
PROPERTIES OthersUntouched
