CONSTANTS
    Copiers = {p1}
    MaxFaults = 3
    MaxMeddle = 3
SPECIFICATION Spec
CHECK_DEADLOCK FALSE
PROPERTIES KeepsSlot
