SPECIFICATION Spec
CONSTANTS
    Submitters = {s1, s2}
    Requested <- AnyTargets
    MaxRequests = 2
    MaxOps = 2
    MaxTroubles = 2
CONSTRAINT Bounded
SYMMETRY Symmetry
INVARIANTS TypeOK RootIsTrue AcceptedIsKept OneCaller
PROPERTIES CancelledStays RemovalIsQuiet HistoryStays
CHECK_DEADLOCK FALSE
