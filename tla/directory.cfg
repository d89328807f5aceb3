SPECIFICATION Spec
CONSTANTS
    Processes = {p, q}
    Configs = {c, d}
    Nobody = Nobody
    Outsider = Outsider
    MaxFaults = 2
    MaxCrashes = 1
SYMMETRY Interchangeable
INVARIANTS ConfigMeansComplete FailedInitLeavesNothing
PROPERTY RemovesOnlyItsOwn
CHECK_DEADLOCK FALSE
