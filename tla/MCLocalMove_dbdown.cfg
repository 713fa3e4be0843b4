SPECIFICATION Spec
CONSTANTS
    k1 = k1
    k2 = k2
    N = 2
    Shapes <- RenameOnly
    Foreigners = {}
    MaxFaults = 0
    MaxDbFaults = 3
    MaxRemovals = 0
INVARIANT FailureIsWhole
CHECK_DEADLOCK FALSE
