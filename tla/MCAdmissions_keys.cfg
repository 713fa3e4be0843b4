SPECIFICATION AdmSpec
CONSTANTS
    c1 = c1
    c2 = c2
    Candidates = {c1, c2}
    KeyOf <- MCKeyOf
    ResourceOf <- MCResourceOf
    Callers = {p1, p2}
    MaxAdmissions = 2
    MaxRequests = 3
    MaxEvents = 2
SYMMETRY MCSymmetry
CONSTRAINT Bounded
INVARIANTS AdmTypeOK OneHolder DownloadHoldsKey ClaimIsWorkedOn
CHECK_DEADLOCK FALSE
