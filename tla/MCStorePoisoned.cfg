SPECIFICATION Spec
CONSTANTS
    s1 = s1
    s2 = s2
    NoOne = NoOne
    Stores <- TwoStores
    NFiles = 2
    NUnits = 1
    MaxLosses = 2
    MaxBoots = 3
INVARIANT
    RolledBackMayReconnect
CHECK_DEADLOCK FALSE
