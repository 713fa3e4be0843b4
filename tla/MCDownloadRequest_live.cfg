SPECIFICATION FairSpec
CONSTANTS
    Submitters = {s1}
    Requested <- AnyTargets
    MaxRequests = 1
    MaxOps = 2
    MaxTroubles = 1
PROPERTIES SubmissionSettles VanishedIsNoticed
CHECK_DEADLOCK FALSE
