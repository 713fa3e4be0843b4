SPECIFICATION Spec
CONSTANTS
    Submitters = {s1, s2}
    Requested <- AnyTargets
    MaxRequests = 2
    MaxOps = 3
    MaxTroubles = 0
SYMMETRY Symmetry
INVARIANTS SingleFlight
CHECK_DEADLOCK FALSE
